------------------------------ MODULE PalanRun ------------------------------
(***************************************************************************)
(* What a run of palan promises: it ends either failed or with a binary    *)
(* linked from exactly the modules its source needs, itself and what it    *)
(* imports, directly or not; and that outcome is final.                    *)
(***************************************************************************)
CONSTANTS Runs,        \* concurrent runs of palan
          Modules      \* source files

VARIABLES needed,      \* run -> the modules its source needs
          result       \* run -> <<"working">>, <<"failed">> or <<"linked", modules>>

Init ==
  /\ needed \in [Runs -> SUBSET Modules]
  /\ result = [r \in Runs |-> <<"working">>]

Fail(r) == /\ result[r] = <<"working">>
           /\ result' = [result EXCEPT ![r] = <<"failed">>]
           /\ UNCHANGED needed

Link(r) == /\ result[r] = <<"working">>
           /\ result' = [result EXCEPT ![r] = <<"linked", needed[r]>>]
           /\ UNCHANGED needed

Next == \E r \in Runs : Fail(r) \/ Link(r)

vars == <<needed, result>>

Spec == Init /\ [][Next]_vars /\ \A r \in Runs : WF_vars(Fail(r) \/ Link(r))
=============================================================================
