------------------------------- MODULE Target -------------------------------
(***************************************************************************)
(* Request-targets: what normalize_target accepts (crate capcurl-grant)    *)
(* and what the URL parser makes of a base with a target behind it.  A     *)
(* path is cut at its slashes into segments and these at their literal     *)
(* backslashes into parts.  A part is what percent-decoding makes of it,   *)
(* so the escaping the parser does of its own leaves it what it is.        *)
(***************************************************************************)
EXTENDS Naturals, SequencesExt

CONSTANT Name  \* decoded parts that have no meaning to the walk

ASSUME TargetAssumption == Name \cap {"", ".", "..", "%2F", "%"} = {}

\* "%2F" is any text that holds an escaped separator, "%" a broken escape.
Part == Name \union {"", ".", "..", "%2F", "%"}

\* A segment in which nothing was escaped away: one part.
seg(part) == <<part>>

RequestTarget ==
  [form  : {"origin", "other"},  \* other: too long, not printable, with a
                                 \* fragment, or not begun by one slash
   path  : Seq(Seq(Part) \ {<<>>}) \ {<<>>},
   query : {"none", "given", "malformed"}]

check_escapes(segment) == \A i \in DOMAIN segment : segment[i] # "%"

Separated(segment) == Len(segment) > 1 \/ segment[1] = "%2F"

\* Mutant: "..", spelled with an escape, is let through.
check_undecoded(path, allow_encoded_separators) ==
  /\ \A i \in DOMAIN path : check_escapes(path[i])
  /\ \A i \in DOMAIN path :
       \/ path[i] = seg("") /\ i = Len(path)
       \/ /\ path[i] \notin {seg(""), seg(".")}
          /\ Separated(path[i]) => allow_encoded_separators

check_path(path, allow_encoded_separators) ==
  /\ \A i \in DOMAIN path : check_escapes(path[i])
  /\ \A i \in DOMAIN path :
       \/ path[i] = seg("") /\ i = Len(path)
       \/ /\ path[i] \notin {seg(""), seg("."), seg("..")}
          /\ Separated(path[i]) => allow_encoded_separators

normalizes(target, allow_encoded_separators) ==
  /\ target.form = "origin"
  /\ check_path(target.path, allow_encoded_separators)
  /\ target.query # "malformed"

-----------------------------------------------------------------------------
(***************************************************************************)
(* URLs, as the parts between the separators of their paths: a base that   *)
(* ends in a slash ends in an empty part.                                  *)
(***************************************************************************)
exact(base) == Last(base) # ""

Assembled(base, target) ==
  IF exact(base) THEN base ELSE Front(base) \o FlattenSeq(target.path)

up(walked) == IF walked = <<>> THEN <<>> ELSE Front(walked)

\* What part i makes of the path walked up to it.  Url::parse resolves dots,
\* escaped or not, and takes a backslash for a slash.
walk(parts, i, walked) ==
  LET slash == IF i = Len(parts) THEN <<"">> ELSE <<>>
  IN  CASE parts[i] = ".."  -> up(walked) \o slash
        [] parts[i] = "."   -> walked \o slash
        [] OTHER            -> Append(walked, parts[i])

Parsed(parts) ==
  LET walked[i \in 0 .. Len(parts)] ==
        IF i = 0 THEN <<>> ELSE walk(parts, i, walked[i - 1])
  IN  walked[Len(parts)]

\* starts_with(base_path), on text that is the base's or has it as directory
StartsWith(url, base) ==
  /\ Len(url) >= Len(base)
  /\ IsPrefix(IF exact(base) THEN base ELSE Front(base), url)
=============================================================================
