------------------------------ MODULE VarrList ------------------------------
(***************************************************************************)
(* What a variable-length array promises: a list of values.  asked is the  *)
(* call that was made, with what it was given, and decides the step; out   *)
(* is what pop last returned.  What a new element holds is undefined but   *)
(* for the arrays in it, which are empty; a moved one leaves Gone.         *)
(***************************************************************************)
EXTENDS Naturals, Sequences

CONSTANTS Names, Lengths, Values(_), IsNew(_, _), Gone   \* values of an element type

VARIABLES type, lists, out, calls, asked
listVars == <<type, lists, out, calls, asked>>

LInit == lists \in [Names -> Seq(Values(type))] /\ out = << >> /\ calls = 1 /\ asked = << >>

Asked(call) == asked' = call /\ calls' = calls + 1 /\ UNCHANGED type
Becomes(v, list) == lists' = [lists EXCEPT ![v] = list] /\ UNCHANGED out

LPush(v, x) == Asked(<<"push", v, x>>) /\ Becomes(v, Append(lists[v], x))
LPushElement(v, w, i) ==
  /\ Asked(<<"push_element", v, w, i>>)
  /\ i < Len(lists[w]) /\ Becomes(v, Append(lists[v], lists[w][i + 1]))
LResize(v, n) ==
  LET now == lists'[v]
  IN  /\ Asked(<<"resize", v, n>>)
      /\ Len(now) = n /\ Becomes(v, now)
      /\ \A i \in 1..n : IF i <= Len(lists[v]) THEN now[i] = lists[v][i] ELSE IsNew(type, now[i])
LCopy(v, w) == Asked(<<"copy", v, w>>) /\ Becomes(v, lists[w])
LWrite(v, i, x) ==
  Asked(<<"write", v, i, x>>) /\ i < Len(lists[v]) /\ Becomes(v, [lists[v] EXCEPT ![i + 1] = x])
LMove(v, i) ==
  Asked(<<"move", v, i>>) /\ i < Len(lists[v]) /\ Becomes(v, [lists[v] EXCEPT ![i + 1] = Gone])
LPop(v) ==
  LET n == Len(lists[v])
  IN  /\ Asked(<<"pop", v>>)
      /\ n > 0 /\ out' = <<lists[v][n]>>
      /\ lists' = [lists EXCEPT ![v] = SubSeq(lists[v], 1, n - 1)]
LRelease == asked' = <<"release">> /\ lists' = [v \in Names |-> << >>] /\ UNCHANGED <<type, out, calls>>

LNext ==
  \/ \E v \in Names, x \in Values(type) : LPush(v, x) \/ \E i \in Lengths : LWrite(v, i, x)
  \/ \E v \in Names : LPop(v) \/ \E n \in Lengths : LResize(v, n) \/ LMove(v, n)
  \/ \E v, w \in Names : LCopy(v, w) \/ \E i \in Lengths : LPushElement(v, w, i)
  \/ LRelease
LSpec == LInit /\ [][LNext]_listVars
=============================================================================
