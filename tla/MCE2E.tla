---------------------------------- MODULE MCE2E ----------------------------------
(* All twelve applications, with a toolchain in each kind of place, and    *)
(* values with every character the encodings differ on.                    *)
EXTENDS E2E

MCOrder ==
  <<"go-js", "go-react", "nodejs-express-js", "nodejs-express-ts-js", "php-js", "python-flask-js",
    "ruby-sinatra-js", "java-springboot-js", "kotlin-ktor-js", "rust-axum-js",
    "dotnet-aspnetcore-js", "nextjs">>

MCNames ==
  <<"client_orderid", "first_name", "last_name", "oauth_consumer_key", "oauth_nonce",
    "oauth_signature", "oauth_signature_method">>

MCPayments ==
  {"first_name" :> <<"O", "'", "N">> @@ "last_name" :> <<"+", " ", ",", "%", "/", "=">>,
   "first_name" :> <<"A">> @@ "last_name" :> <<"B">>,
   "first_name" :> <<"A", "&", "last_name", "=", "B">>}

MCKeys == <<"k1", "k2", "k3", "k4">>

MCCommandLines ==
  {<<>>, <<<<"--project=", "dotnet-aspnetcore-js">>>>, <<<<"-p">>, <<"go-js">>>>,
   <<<<"--project">>, <<"nodejs-express-js">>, <<"php-js">>>>}

Tools ==
  {<<"node", "PATH">>, <<"yarn", "PATH">>, <<"php", "PATH">>, <<"python", "PATH">>, <<"go", "~/opt">>,
   <<"ruby", "RUBY_BIN">>, <<"java", "~/.sdkman">>, <<"cargo", "~/.cargo">>, <<"dotnet", "~/.dotnet">>}

MCMachines ==
  {[tools |-> Tools, dotEnv |-> FALSE, CI |-> FALSE], [tools |-> Tools, dotEnv |-> FALSE, CI |-> TRUE],
   [tools |-> Tools, dotEnv |-> TRUE, CI |-> FALSE],
   [tools |-> Tools \ {<<"go", "~/opt">>}, dotEnv |-> FALSE, CI |-> FALSE]}
==================================================================================
