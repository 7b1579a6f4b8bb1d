----------------------------- MODULE Compression -----------------------------
(***************************************************************************)
(* The compression a proxy asks for and the one a server answers with.     *)
(* Both are configured by lines for the whole service or for a method.     *)
(* For a proxy, type is the compression of requests and more the one it    *)
(* asks for responses; for a server, type is the compression of responses  *)
(* and more is Forced or Unforced.  Missing is the end of a short line.    *)
(***************************************************************************)
EXTENDS Integers, Sequences

Unspecified == "unspecified"
Missing == "missing"
Forced == "forced"
Unforced == "unforced"

\* translateClientConfiguration and translateServerConfiguration: the last
\* line for the service counts, field by field, and the first for a method.
ReadLine(infos, line, default) ==
  CASE line.scope = "service" ->
         [infos EXCEPT !.service = [type |-> line.type,
                                    more |-> IF line.more = Missing THEN @.more ELSE line.more]]
    [] line.scope = "method" /\ line.method \notin DOMAIN infos.methods ->
         [infos EXCEPT !.methods =
            [n \in DOMAIN @ \union {line.method} |->
               IF n \in DOMAIN @ THEN @[n]
               ELSE [type |-> line.type,
                     more |-> IF line.more = Missing THEN default ELSE line.more]]]
    [] OTHER -> infos

\* One line after the other.
NoInfos(default) ==
  [service |-> [type |-> Unspecified, more |-> default], methods |-> <<>>]

ReadLines(lines, default) ==
  LET infos[k \in 0 .. Len(lines)] ==
        IF k = 0 THEN NoInfos(default) ELSE ReadLine(infos[k - 1], lines[k], default)
  IN  infos[Len(lines)]

ClientInfos(lines) == ReadLines(lines, Unspecified)
ServerInfos(lines) == ReadLines(lines, Unforced)

Prefer(specific, general) == IF specific # Unspecified THEN specific ELSE general

DeduceClient(infos, name) ==
  IF name \in DOMAIN infos.methods
    THEN [type |-> Prefer(infos.methods[name].type, infos.service.type),
          more |-> Prefer(infos.methods[name].more, infos.service.more)]
    ELSE infos.service

\* Faulty: what the server was told counts whenever there is something.
OverridesAlways(asked, told) == told.type # Unspecified

\* What the server was told of the service or of the method counts if it is
\* forced or the client asked for nothing.
Overrides(asked, told) ==
  told.type # Unspecified /\ (told.more = Forced \/ asked = Unspecified)

DeduceServer(asked, infos, name) ==
  CASE name \in DOMAIN infos.methods /\ Overrides(asked, infos.methods[name]) ->
         infos.methods[name].type
    [] Overrides(asked, infos.service) -> infos.service.type
    [] OTHER -> asked
=============================================================================
