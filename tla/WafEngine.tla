------------------------------- MODULE WafEngine -------------------------------
(***************************************************************************)
(* The WAF engine of internal/waf/signature.go at run time: requests scan  *)
(* under the read lock, an administrator's reload of the evolved rules     *)
(* (handleReloadRules) appends to the signatures one write lock per rule   *)
(* and rebuilds the body's prefilter under another, and several reloads    *)
(* may overlap.  A restart builds everything anew before it serves.        *)
(*                                                                         *)
(* A signature is a rule of the constants; its target is the body, where   *)
(* the prefilter applies, or another part of the request.  The literals a  *)
(* rule requires are those Prefilter derives; a body is what it contains   *)
(* of rules that match it and of literals, a matching rule bringing one of *)
(* the literals it requires (SkippedCannotMatch of Prefilter).             *)
(* Reload of the signature file has no caller and is left out.             *)
(***************************************************************************)
EXTENDS Integers, FiniteSetsExt, SequencesExt

CONSTANTS
  Rules,          \* the signatures there are
  Defaults,       \* the built-in ones, in their order
  Broken,         \* rules whose pattern does not compile
  OnBody,         \* rules that look at the body
  OnPath,         \* rules that look at the path
  Literals,
  requiredLiterals,  \* rule -> the literals it requires, {} if none is provable
  RuleScore,      \* rule -> its score, in hundredths
  Files,          \* what evolved-rules.json may hold: sequences of rules, or Unreadable
  Unreadable,
  Admins,         \* reloads that may run at the same time
  blockThreshold, \* in hundredths
  MaxLoads,       \* bound: reloads and restarts
  MaxEdits        \* bound: changes of the file

\* A file that parses is a list of rules.
FilesAssumption == \A f \in Files \ {Unreadable} : f \in Seq(Rules)

VARIABLES
  signatures,     \* e.signatures
  bodyAC,         \* the literals the automaton knows, {} if it is not built
  file,           \* evolved-rules.json
  loader,         \* loader[a]: what reload a is doing
  last,           \* the last scan
  loads, edits    \* how much of the bounds is used

vars == <<signatures, bodyAC, file, loader, last, loads, edits>>

Idle == [pc |-> "idle", todo |-> <<>>]

NoScan == [quiet |-> TRUE, missed |-> {}, blocked |-> FALSE]

-----------------------------------------------------------------------------
\* A signature that does not compile is not added.
AddSignature(sigs, r) == IF r \in Broken THEN sigs ELSE Append(sigs, r)

Compiled(rules) == FoldLeft(AddSignature, <<>>, rules)

\* The built-in signatures, in the order of their categories.
LoadDefaultSignatures == Compiled(Defaults)

\* A mutated form: the literals of the newest signature only.
PrefilterOfNewest(sigs) == UNION {requiredLiterals[r] : r \in {Last(sigs)} \cap OnBody}

\* The literals of the signatures that look at the body.
PrefilterOf(sigs) == UNION {requiredLiterals[r] : r \in ToSet(sigs) \cap OnBody}

\* The program's start: the signature file does not exist, the built-in
\* signatures and then the evolved rules are loaded, before anything is served.
Started(f) == LoadDefaultSignatures \o (IF f = Unreadable THEN <<>> ELSE Compiled(f))

Init ==
  /\ file \in Files
  /\ signatures = Started(file)
  /\ bodyAC = PrefilterOf(Started(file))
  /\ loader = [a \in Admins |-> Idle]
  /\ last = NoScan
  /\ loads = 0
  /\ edits = 0

-----------------------------------------------------------------------------
(* Scanning.                                                               *)

\* The body target of a signature is skipped when the automaton found none
\* of the literals it requires.
Skips(r, body) ==
  /\ r \in OnBody
  /\ bodyAC # {} /\ body # {}
  /\ requiredLiterals[r] # {}
  /\ requiredLiterals[r] \cap body \cap bodyAC = {}

\* The targets a signature matches.
Matched(r, body, path) ==
  {<<r, t>> : t \in {"body", "path"}}
    \cap ((OnBody \cap body) \X {"body"} \cup (OnPath \cap path) \X {"path"})

\* Those the scan looks at.
Reported(r, body, path) ==
  IF Skips(r, body) THEN Matched(r, {}, path) ELSE Matched(r, body, path)

\* The bodies there are: a rule that matches brings a literal it requires.
Bodies ==
  {b \in SUBSET (OnBody \cup Literals) :
     \A r \in b \cap OnBody : requiredLiterals[r] = {} \/ requiredLiterals[r] \cap b # {}}

\* scanWithDeadline, under the read lock all the way; the deadline leaves
\* any part of the shuffled signatures unevaluated.
Scan(body, path) ==
  \E reached \in SUBSET DOMAIN signatures :
    LET sigs == {signatures[i] : i \in reached}
        points == [i \in reached |->
                     RuleScore[signatures[i]] * Cardinality(Reported(signatures[i], body, path))]
    IN /\ last' = [quiet   |-> \A a \in Admins : loader[a] = Idle,
                   missed  |-> UNION {Matched(r, body, path) \ Reported(r, body, path) : r \in sigs},
                   blocked |-> SumFunction(points) >= blockThreshold]
       /\ UNCHANGED <<signatures, bodyAC, file, loader, loads, edits>>

-----------------------------------------------------------------------------
(* Reloading.                                                              *)

\* LoadEvolvedRules reads and parses the file first; an error ends the call.
ReadRules(a) ==
  /\ loader[a] = Idle
  /\ loads < MaxLoads
  /\ loads' = loads + 1
  /\ loader' = IF file = Unreadable THEN loader
               ELSE [loader EXCEPT ![a] = [pc |-> "adding", todo |-> file]]
  /\ UNCHANGED <<signatures, bodyAC, file, last, edits>>

AddRule(a) ==
  /\ loader[a].pc = "adding"
  /\ loader[a].todo # <<>>
  /\ signatures' = AddSignature(signatures, Head(loader[a].todo))
  /\ loader' = [loader EXCEPT ![a].todo = Tail(@)]
  /\ UNCHANGED <<bodyAC, file, last, loads, edits>>

RebuildBodyPrefilter(a) ==
  /\ loader[a].pc = "adding"
  /\ loader[a].todo = <<>>
  /\ bodyAC' = PrefilterOf(signatures)
  /\ loader' = [loader EXCEPT ![a] = Idle]
  /\ UNCHANGED <<signatures, file, last, loads, edits>>

\* The rules are written by another program.
EditFile ==
  /\ edits < MaxEdits
  /\ edits' = edits + 1
  /\ file' \in Files \ {file}
  /\ UNCHANGED <<signatures, bodyAC, loader, last, loads>>

Restart ==
  /\ loads < MaxLoads
  /\ loads' = loads + 1
  /\ signatures' = Started(file)
  /\ bodyAC' = PrefilterOf(Started(file))
  /\ loader' = [a \in Admins |-> Idle]
  /\ last' = NoScan
  /\ UNCHANGED <<file, edits>>

Reload(a) == ReadRules(a) \/ AddRule(a) \/ RebuildBodyPrefilter(a)

Next ==
  \/ \E b \in Bodies : \E p \in SUBSET OnPath : Scan(b, p)
  \/ \E a \in Admins : Reload(a)
  \/ EditFile
  \/ Restart

Spec == Init /\ [][Next]_vars

-----------------------------------------------------------------------------
\* A signature the prefilter skips cannot match: "Scan uses it to skip
\* evaluating a signature's body target only when NONE of that signature's own
\* required literals were found present anywhere in the body -- sound by
\* construction" (internal/waf/signature.go:91-95).
SkipsAreSound == last.missed = {}

\* Between reloads it is so: a scan that meets no reload finds every signature
\* it reaches and the request matches, however the reloads before it
\* overlapped, whatever they loaded twice and whatever did not compile.
QuietScansMissNothing == last.quiet => last.missed = {}
=============================================================================
