---------------------------------- MODULE Harness ----------------------------------
(***************************************************************************)
(* What the end-to-end suite knows before it starts anything: the twelve   *)
(* applications of e2e-tests/src/apps.ts, where each is run from and with  *)
(* what, which of them a command line asks for, and where each answers.    *)
(*                                                                         *)
(* Settings that are the same for every application (gatewayEnv) are left  *)
(* out, but for the two that may go wrong: the path of the key and the     *)
(* base path, which an application's own .env may move.                    *)
(***************************************************************************)
EXTENDS Sequences, FiniteSets, TLC, SequencesExt

(* settings.ts, and the port nginx publishes. *)
NGINX_ORIGIN == <<"127.0.0.1", 4020>>
HostPort(port) == <<"127.0.0.1", port>>

(* `runsIn` is where the process runs: in its own directory its .env is in *)
(* reach, if it reads one; in .tmp there is none.                          *)
App(port, basePath, runsIn, tools) ==
  [port |-> port, basePath |-> basePath, runsIn |-> runsIn, tools |-> tools,
   pinned |-> FALSE, readsDotEnv |-> TRUE, onRequestOnly |-> FALSE]
Pinned(app) == [app EXCEPT !.pinned = TRUE]

GoJs       == App(4011, "go", "tmp", {"go"})
GoReact    == App(4022, "go-react", "tmp", {"yarn", "go"})
ExpressJs  == [App(4012, "nodejs-express-js", "own", {"node"}) EXCEPT !.readsDotEnv = FALSE]
ExpressTs  == [App(4023, "nodejs-express-ts-js", "own", {"node"}) EXCEPT !.readsDotEnv = FALSE]
PhpJs      == Pinned(App(4014, "php", "own", {"php"}))
PythonJs   == Pinned(App(4015, "python", "own", {"python"}))
RubyJs     == Pinned(App(4016, "ruby", "own", {"ruby"}))
JavaJs     == Pinned(App(4017, "java", "own", {"java"}))
KotlinJs   == Pinned(App(4021, "kotlin", "own", {"java"}))
RustJs     == App(4018, "rust", "tmp", {"cargo"})
DotnetJs   == [App(4019, "dotnet", "tmp", {"dotnet"}) EXCEPT !.onRequestOnly = TRUE]
NextJs     == App(4013, "nextjs", "own", {"yarn"})

AppNames ==
  {"go-js", "go-react", "nodejs-express-js", "nodejs-express-ts-js", "php-js", "python-flask-js",
   "ruby-sinatra-js", "java-springboot-js", "kotlin-ktor-js", "rust-axum-js",
   "dotnet-aspnetcore-js", "nextjs"}
APPS ==
  [a \in AppNames |->
     CASE a = "go-js" -> GoJs [] a = "go-react" -> GoReact [] a = "nodejs-express-js" -> ExpressJs
       [] a = "nodejs-express-ts-js" -> ExpressTs [] a = "php-js" -> PhpJs
       [] a = "python-flask-js" -> PythonJs [] a = "ruby-sinatra-js" -> RubyJs
       [] a = "java-springboot-js" -> JavaJs [] a = "kotlin-ktor-js" -> KotlinJs
       [] a = "rust-axum-js" -> RustJs [] a = "dotnet-aspnetcore-js" -> DotnetJs
       [] a = "nextjs" -> NextJs]

(* The path a server answers on: the environment wins over its .env, and   *)
(* BASE_PATH is in the environment only where it is pinned.                *)
BasePathOf(app, inDotEnv) ==
  IF ~app.pinned /\ app.runsIn = "own" /\ app.readsDotEnv /\ inDotEnv
  THEN "elsewhere" ELSE app.basePath

-----------------------------------------------------------------------------
(* Toolchains: the first place that has one, else PATH. `installed` is a   *)
(* set of <<tool, place>>.                                                 *)

FirstOf(tool, places, installed) ==
  IF \E i \in DOMAIN places: <<tool, places[i]>> \in installed
  THEN places[CHOOSE i \in DOMAIN places:
                /\ <<tool, places[i]>> \in installed
                /\ \A j \in 1..(i - 1): <<tool, places[j]>> \notin installed]
  ELSE "PATH"

goBinary(installed) == FirstOf("go", <<"GO_BIN", "~/opt">>, installed)
rubyBinary(installed) == FirstOf("ruby", <<"RUBY_BIN", "~/opt">>, installed)
javaEnv(installed) == FirstOf("java", <<"JAVA_HOME", "~/.sdkman">>, installed)
cargoBinary(installed) == FirstOf("cargo", <<"CARGO_BIN", "~/.cargo">>, installed)
dotnetBinary(installed) ==
  FirstOf("dotnet", <<"DOTNET_BIN", "DOTNET_ROOT", "/usr/local/share", "~/.dotnet">>, installed)

PlaceOf(tool, installed) ==
  CASE tool = "go" -> goBinary(installed)
    [] tool = "ruby" -> rubyBinary(installed)
    [] tool = "java" -> javaEnv(installed)
    [] tool = "cargo" -> cargoBinary(installed)
    [] tool = "dotnet" -> dotnetBinary(installed)
    [] OTHER -> "PATH"

Startable(app, installed) == \A tool \in app.tools: <<tool, PlaceOf(tool, installed)>> \in installed

-----------------------------------------------------------------------------
(* The command line.  `known` are the applications this instance has.      *)

ByDefault(known) == {a \in known: ~APPS[a].onRequestOnly}

(* --project <name>, -p <name> and --project=<name>, one argument each. *)
IsProject(argument) == argument \in {<<"--project">>, <<"-p">>}
selectedApps(argv, known) ==
  {a \in known: \E i \in DOMAIN argv:
                  \/ argv[i] = <<"--project=", a>>
                  \/ IsProject(argv[i]) /\ i < Len(argv) /\ argv[i + 1] = <<a>>}

startedApps(argv, target, known) ==
  LET named == selectedApps(argv, known)
  IN  IF named # {} THEN named ELSE IF target = "docker" THEN known ELSE ByDefault(known)

(* playwright.config.ts and playwright.docker.config.ts: the projects. *)
projects(argv, target, known) ==
  IF target = "docker" \/ selectedApps(argv, known) # {} THEN known ELSE ByDefault(known)

(* Playwright itself: one --project takes every name up to the next flag;  *)
(* -p is read as apps.ts reads it, for short.                              *)
IsFlag(argument) == Head(argument) \in {"--project", "-p", "--project="}
ProjectsNamed(argv) ==
  {argv[i][2]: i \in {j \in DOMAIN argv: Head(argv[j]) = "--project="}}
  \cup {argv[i][1]: i \in {j \in DOMAIN argv:
                            /\ ~IsFlag(argv[j])
                            /\ \E f \in 1..(j - 1): /\ IsProject(argv[f])
                                                    /\ \A m \in f+1..j: ~IsFlag(argv[m])}}

appOrigin(a, target) == IF target = "docker" THEN NGINX_ORIGIN ELSE HostPort(APPS[a].port)
appUrl(a, target) == <<appOrigin(a, target), APPS[a].basePath>>
=================================================================================
