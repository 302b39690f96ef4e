----------------------------- MODULE MCDetection -----------------------------
(* All that looks for signs of attack in a request, for model checking: a  *)
(* behaviour is one of a detector's scan, of the prefilter or of the WAF   *)
(* engine (MCScanning), or of the STIX engine (MCStixEngine).  The         *)
(* variables of the ones it is not about stay as they are.                 *)
EXTENDS MCScanning, MCStixEngine

DetectionInit ==
  \/ ScanningInit /\ Stix!Init
  \/ part = "stix" /\ NoScan /\ NoPrefilter /\ NoWaf /\ Stix!Init

DetectionNext ==
  \/ ScanningNext /\ UNCHANGED stixVars
  \/ part = "stix" /\ Stix!Next /\ UNCHANGED <<part, vars, preVars, wafVars>>

DetectionSpec ==
  /\ DetectionInit /\ [][DetectionNext]_<<part, vars, preVars, wafVars, stixVars>>
  /\ Fairness
=============================================================================
