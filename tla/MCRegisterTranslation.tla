------------------------ MODULE MCRegisterTranslation ------------------------
(***************************************************************************)
(* Bytes of one bit and words of two.  When the bound on the values is     *)
(* reached and the arms are joined, liveness is asked for what the         *)
(* registers hold, and for an id outside the table; the translation itself *)
(* is forgotten then, because analyze reads the table alone.               *)
(***************************************************************************)
EXTENDS RegisterTranslation, DeadValues

B == INSTANCE Bitwise

MCBitOp(op, a, b) ==
  CASE op = "bit_and" -> B!&(a, b)
    [] op = "bit_or" -> a + b - B!&(a, b)
    [] OTHER -> a + b - 2 * B!&(a, b)

MCInit == Init /\ LivenessIdle

Forget ==
  /\ values' = EntryValues /\ state' = entry_state
  /\ real' \in { EntryRegisters(b) : b \in [Bytes -> EntryBytes] }
  /\ concrete' = Unknown /\ memory' = [a \in Addresses |-> 0] /\ ram' = memory' /\ exact' = TRUE
  /\ path' = "straight" /\ fork' = [state |-> entry_state, real |-> real'] /\ other' = fork'

Eliminate ==
  /\ liveness = "idle" /\ Len(values) >= MaxValues /\ path = "joined"
  /\ \E ids \in {<<state["ax"], state["bx"]>>, <<state["bx"], Len(values) + 1>>} :
       AnalyzeLiveness([i \in DOMAIN values |-> values[i].inputs], ids)
  /\ Forget

MCNext ==
  \/ liveness = "idle" /\ Next /\ UNCHANGED liveness_vars
  \/ Eliminate
  \/ LivenessStep /\ UNCHANGED vars
  \/ liveness \in {"returned", "error"} /\ UNCHANGED <<vars, liveness_vars>>

MCSpec == MCInit /\ [][MCNext]_<<vars, liveness_vars>>
=============================================================================
