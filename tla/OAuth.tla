---------------------------------- MODULE OAuth ----------------------------------
(***************************************************************************)
(* OAuth 1.0a request signing: the signers of the ports, and the check     *)
(* of the emulator.  A text is a sequence of characters, where a name, a   *)
(* host or a word that needs no escaping is one character; the signature   *)
(* is ideal, a text that only the key and the base string determine.       *)
(***************************************************************************)
EXTENDS Naturals, Sequences, SequencesExt

CONSTANTS NoKey,         \* what is read of a key file that is not there
          NameOrder,     \* the parameter names, as Array.prototype.sort() orders them
          VerifyOAuth    \* E2E_VERIFY_OAUTH is not "0"

(* The characters a percent code stands for; all others stay as they are.  *)
Codes ==
  [c \in {" ", "+", "&", "=", ",", "%", "'", "/"} |->
     CASE c = " " -> "20" [] c = "+" -> "2B" [] c = "&" -> "26" [] c = "=" -> "3D"
       [] c = "," -> "2C" [] c = "%" -> "25" [] c = "'" -> "27" [] OTHER -> "2F"]

(* No name needs escaping. *)
ASSUME OAuthAssumption ==
  /\ VerifyOAuth \in BOOLEAN
  /\ NameOrder \in Seq(STRING) /\ ToSet(NameOrder) \cap DOMAIN Codes = {}
  /\ {"oauth_consumer_key", "oauth_nonce", "oauth_signature", "oauth_signature_method"}
       \subseteq ToSet(NameOrder)

CharOf(code) == CHOOSE c \in DOMAIN Codes: Codes[c] = code

Escape(text, reserved) ==
  FlattenSeq([i \in DOMAIN text |->
                IF text[i] \in reserved THEN <<"%", Codes[text[i]]>> ELSE <<text[i]>>])
Replace(text, old, new) ==
  FlattenSeq([i \in DOMAIN text |-> IF text[i] = old THEN new ELSE <<text[i]>>])
Join(texts, separator) ==
  FlattenSeq([i \in DOMAIN texts |-> IF i = 1 THEN texts[i] ELSE separator \o texts[i]])
Split(text, separator) ==
  LET parts[i \in 0..Len(text)] ==
        IF i = 0 THEN <<<<>>>>
        ELSE LET before == parts[i - 1]
             IN  IF text[i] = separator THEN Append(before, <<>>)
                 ELSE [before EXCEPT ![Len(before)] = Append(@, text[i])]
  IN  parts[Len(text)]

(* The library: encodeURIComponent leaves the apostrophe alone. *)
encodeURIComponent(text) == Escape(text, DOMAIN Codes \ {"'"})
decodeURIComponent(text) ==
  FlattenSeq([i \in DOMAIN text |->
                IF text[i] = "%" THEN <<>>
                ELSE IF i > 1 /\ text[i - 1] = "%" THEN <<CharOf(text[i])>> ELSE <<text[i]>>])

(* The other languages' libraries. *)
quote(text, safe) == Escape(text, DOMAIN Codes \ safe)
rawurlencode(text) == Escape(text, DOMAIN Codes)
url_encode(text) == Escape(text, DOMAIN Codes)

Keys(params) ==
  FlattenSeq([i \in DOMAIN NameOrder |->
                IF NameOrder[i] \in DOMAIN params THEN <<NameOrder[i]>> ELSE <<>>])
Sign(key, base) == <<"signature of", key, "=">> \o base

(* What every port puts together from the encoded parts: the parameters in *)
(* the order of their names, the three parts of the base string, and the   *)
(* header from its entries.                                                *)
Query(encoded) ==
  Join([i \in DOMAIN Keys(encoded) |-> <<Keys(encoded)[i], "=">> \o encoded[Keys(encoded)[i]]], <<"&">>)
Base(method, url, query) == Join(<<<<method>>, url, query>>, <<"&">>)
Header(names, encoded) ==
  <<"OAuth", " ">>
    \o Join([i \in DOMAIN names |-> <<names[i], "=", "\"">> \o encoded[names[i]] \o <<"\"">>], <<",", " ">>)

(* x-www-form-urlencoded, which the parameters travel as: URLSearchParams. *)
FormBody(params) ==
  Query([name \in DOMAIN params |-> Replace(quote(params[name], {" "}), " ", <<"+">>)])

OAuthParams(nonce) ==
  [oauth_consumer_key |-> <<"test-merchant">>, oauth_nonce |-> <<nonce>>,
   oauth_signature_method |-> <<"RSA-SHA256">>]

(* { ...params, ...oauth }: one map laid over another. *)
Over(params, oauth) ==
  [name \in DOMAIN params \cup DOMAIN oauth |->
     IF name \in DOMAIN oauth THEN oauth[name] ELSE params[name]]

-----------------------------------------------------------------------------
(* nodejs-express-js/src/oauth.js: the header in the order it was put together *)

encode(value) == Replace(encodeURIComponent(value), "'", <<"%", "27">>)

baseStringLoose(method, url, params) ==   \* a bug: the values are not encoded on their own
  Base(method, encode(url), encode(Query(params)))

baseString(method, url, params) ==
  Base(method, encode(url),
       encode(Query([name \in DOMAIN params |-> encode(params[name])])))

buildAuthHeader(method, url, params, key, nonce) ==
  LET oauth == OAuthParams(nonce)
      header == Over(oauth, [oauth_signature |-> Sign(key, baseString(method, url, Over(params, oauth)))])
  IN  Header(Append(Keys(oauth), "oauth_signature"), [name \in DOMAIN header |-> encode(header[name])])

-----------------------------------------------------------------------------
(* nodejs-express-ts-js/src/oauth.ts *)

tsEncode(value) == Replace(encodeURIComponent(value), "'", <<"%", "27">>)

tsBaseString(method, url, params) ==
  Base(method, tsEncode(url),
       tsEncode(Query([name \in DOMAIN params |-> tsEncode(params[name])])))

tsBuildAuthHeader(method, url, params, key, nonce) ==
  LET oauth == OAuthParams(nonce)
      header == Over(oauth, [oauth_signature |-> Sign(key, tsBaseString(method, url, Over(params, oauth)))])
  IN  Header(Append(Keys(oauth), "oauth_signature"), [name \in DOMAIN header |-> tsEncode(header[name])])

-----------------------------------------------------------------------------
(* nextjs/src/shared/lib/oauth.ts: the header in the order of the names *)

nextEncode(value) == Replace(encodeURIComponent(value), "'", <<"%", "27">>)

nextBaseString(method, url, params) ==
  Base(method, nextEncode(url),
       nextEncode(Query([name \in DOMAIN params |-> nextEncode(params[name])])))

nextAuthHeader(method, url, params, key, nonce) ==
  LET oauth == OAuthParams(nonce)
      header == Over(oauth, [oauth_signature |-> Sign(key, nextBaseString(method, url, Over(params, oauth)))])
  IN  Header(Keys(header), [name \in DOMAIN header |-> nextEncode(header[name])])

-----------------------------------------------------------------------------
(* go-js/oauth.go, and the same file in go-react: byte by byte *)

goEncode(value) == Escape(value, DOMAIN Codes)

goBaseString(method, url, params) ==
  Base(method, goEncode(url),
       goEncode(Query([name \in DOMAIN params |-> goEncode(params[name])])))

goAuthHeader(method, url, params, key, nonce) ==
  LET oauth == OAuthParams(nonce)
      header == Over(oauth, [oauth_signature |-> Sign(key, goBaseString(method, url, Over(params, oauth)))])
  IN  Header(Keys(header), [name \in DOMAIN header |-> goEncode(header[name])])

-----------------------------------------------------------------------------
(* php-js/oauth.php *)

oauth_encode(value) == rawurlencode(value)

oauth_base_string(method, url, params) ==
  Base(method, oauth_encode(url),
       oauth_encode(Query([name \in DOMAIN params |-> oauth_encode(params[name])])))

oauth_auth_header(method, url, params, key, nonce) ==
  LET oauth == OAuthParams(nonce)
      header == Over(oauth,
                     [oauth_signature |-> Sign(key, oauth_base_string(method, url, Over(params, oauth)))])
  IN  Header(Keys(header), [name \in DOMAIN header |-> oauth_encode(header[name])])

-----------------------------------------------------------------------------
(* python-flask-js/oauth.py: quote() would leave a slash alone *)

pyEncode(value) == quote(value, {})

base_string(method, url, params) ==
  Base(method, pyEncode(url),
       pyEncode(Query([name \in DOMAIN params |-> pyEncode(params[name])])))

build_auth_header(method, url, params, key, nonce) ==
  LET oauth == OAuthParams(nonce)
      header == Over(oauth, [oauth_signature |-> Sign(key, base_string(method, url, Over(params, oauth)))])
  IN  Header(Append(Keys(oauth), "oauth_signature"), [name \in DOMAIN header |-> pyEncode(header[name])])

-----------------------------------------------------------------------------
(* ruby-sinatra-js/oauth.rb *)

rubyEncode(value) == url_encode(value)

rubyBaseString(method, url, params) ==
  Base(method, rubyEncode(url),
       rubyEncode(Query([name \in DOMAIN params |-> rubyEncode(params[name])])))

auth_header(method, url, params, key, nonce) ==
  LET oauth == OAuthParams(nonce)
      header == Over(oauth, [oauth_signature |-> Sign(key, rubyBaseString(method, url, Over(params, oauth)))])
  IN  Header(Append(Keys(oauth), "oauth_signature"), [name \in DOMAIN header |-> rubyEncode(header[name])])

-----------------------------------------------------------------------------
(* java-springboot-js/.../OAuth.java *)

javaEncode(value) == Escape(value, DOMAIN Codes)

javaBaseString(method, url, params) ==
  Base(method, javaEncode(url),
       javaEncode(Query([name \in DOMAIN params |-> javaEncode(params[name])])))

javaAuthHeader(method, url, params, key, nonce) ==
  LET oauth == OAuthParams(nonce)
      header == Over(oauth, [oauth_signature |-> Sign(key, javaBaseString(method, url, Over(params, oauth)))])
  IN  Header(Keys(header), [name \in DOMAIN header |-> javaEncode(header[name])])

-----------------------------------------------------------------------------
(* kotlin-ktor-js/.../OAuth.kt *)

kotlinEncode(value) == Escape(value, DOMAIN Codes)

kotlinBaseString(method, url, params) ==
  Base(method, kotlinEncode(url),
       kotlinEncode(Query([name \in DOMAIN params |-> kotlinEncode(params[name])])))

kotlinAuthHeader(method, url, params, key, nonce) ==
  LET oauth == OAuthParams(nonce)
      header == Over(oauth,
                     [oauth_signature |-> Sign(key, kotlinBaseString(method, url, Over(params, oauth)))])
  IN  Header(Keys(header), [name \in DOMAIN header |-> kotlinEncode(header[name])])

-----------------------------------------------------------------------------
(* rust-axum-js/src/oauth.rs *)

rustEncode(value) == Escape(value, DOMAIN Codes)

rustBaseString(method, url, params) ==
  Base(method, rustEncode(url),
       rustEncode(Query([name \in DOMAIN params |-> rustEncode(params[name])])))

rustAuthHeader(method, url, params, key, nonce) ==
  LET oauth == OAuthParams(nonce)
      header == Over(oauth, [oauth_signature |-> Sign(key, rustBaseString(method, url, Over(params, oauth)))])
  IN  Header(Keys(header), [name \in DOMAIN header |-> rustEncode(header[name])])

-----------------------------------------------------------------------------
(* dotnet-aspnetcore-js/OAuth.cs *)

dotnetEncode(value) == Escape(value, DOMAIN Codes)

dotnetBaseString(method, url, params) ==
  Base(method, dotnetEncode(url),
       dotnetEncode(Query([name \in DOMAIN params |-> dotnetEncode(params[name])])))

dotnetHeader(method, url, params, key, nonce) ==
  LET oauth == OAuthParams(nonce)
      header == Over(oauth,
                     [oauth_signature |-> Sign(key, dotnetBaseString(method, url, Over(params, oauth)))])
  IN  Header(Keys(header), [name \in DOMAIN header |-> dotnetEncode(header[name])])

-----------------------------------------------------------------------------
(* e2e-tests/src/emulator: http.ts and oauth-verify.ts *)

formParamsPlus(body) ==   \* a bug: a plus stays a plus
  LET pairs == IF body = <<>> THEN {} ELSE ToSet(Split(body, "&"))
      name(pair) == Split(pair, "=")[1][1]
  IN  [key \in {name(p): p \in pairs} |->
         LET pair == CHOOSE p \in pairs: name(p) = key
         IN  decodeURIComponent(Split(pair, "=")[2])]

(* A name is sent once, so the last one is the only one. *)
formParams(body) ==
  LET pairs == IF body = <<>> THEN {} ELSE ToSet(Split(body, "&"))
      name(pair) == Split(pair, "=")[1][1]
  IN  [key \in {name(p): p \in pairs} |->
         LET pair == CHOOSE p \in pairs: name(p) = key
         IN  decodeURIComponent(Replace(Split(pair, "=")[2], "+", <<" ">>))]

verifierEncode(value) == Replace(encodeURIComponent(value), "'", <<"%", "27">>)

verifierBase(method, url, params) ==
  Base(method, verifierEncode(url),
       verifierEncode(Query([name \in DOMAIN params |-> verifierEncode(params[name])])))

(* `OAuth key="value", key="value"`: what is between the commas, trimmed,   *)
(* up to the first "=", and from quote to quote.                           *)
parseHeader(header) ==
  LET parts == Split(SubSeq(header, 3, Len(header)), ",")
      trimmed == {IF Head(p) = " " THEN Tail(p) ELSE p: p \in ToSet(parts)}
  IN  [key \in {Head(p): p \in trimmed} |->
         LET part == CHOOSE p \in trimmed: Head(p) = key
         IN  decodeURIComponent(SubSeq(part, 4, Len(part) - 1))]

(* "" is ok; without a public key on the disk readFileSync throws. *)
verifyOAuth(method, url, bodyParams, header, pem) ==
  LET oauth == parseHeader(header)
      signedOauth == [key \in DOMAIN oauth \ {"oauth_signature"} |-> oauth[key]]
  IN  IF ~VerifyOAuth THEN ""
      ELSE IF header = <<>> THEN "no Authorization header"
      ELSE IF "oauth_signature" \notin DOMAIN oauth THEN "no oauth_signature"
      ELSE IF oauth["oauth_signature_method"] # <<"RSA-SHA256">> THEN "unexpected method"
      ELSE IF pem = NoKey THEN "throws"
      ELSE IF oauth["oauth_signature"]
                = Sign(pem, verifierBase(method, url, Over(bodyParams, signedOauth))) THEN ""
      ELSE "signature does not verify"
=================================================================================
