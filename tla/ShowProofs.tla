----------------------------- MODULE ShowProofs -----------------------------
(***************************************************************************)
(* Proofs about Show for any processes, rows, interfaces and commands.     *)
(* IInv is inductive; the safety properties follow from it.                *)
(***************************************************************************)
EXTENDS Show, TLAPS

PInv(p) == NothingDropped(p) /\ Turns(p) /\ Accounted(p)

\* Everything PInv(p) speaks of besides the table.
Local(p) == <<active[p], visited[p], dirty[p], rx[p], cmd[p], pc[p], buf[p],
              shown[p], kept[p], seen[p]>>

LEMMA InitTypeOK == Init => TypeOK
<1> SUFFICES ASSUME Init PROVE TypeOK
  OBVIOUS
<1>1. NoDatagram \in Datagram
  BY DEF NoDatagram, Datagram
<1> QED
  BY <1>1, ShowAssumption DEF Init, TypeOK

\* A datagram the kernel fills is a datagram, and only p's part of the dump
\* state moves.
LEMMA FillType ==
    ASSUME TypeOK, NEW p \in Proc, NEW old \in SUBSET Row, NEW d \in BOOLEAN,
           Fill(p, old, d)
    PROVE  /\ rx' \in [Proc -> Datagram]
           /\ visited' \in [Proc -> SUBSET Row]
           /\ active' \in [Proc -> BOOLEAN]
<1>1. PICK S \in SUBSET (Covered(p, table) \ old), last \in {"more", "done", "failed"} :
        /\ rx' = [rx EXCEPT ![p] =
                    [rows |-> S, last |-> last,
                     intr |-> GenerationChecked(cmd[p]) /\ d]]
        /\ visited' = [visited EXCEPT ![p] = old \union S]
        /\ active' = [active EXCEPT ![p] = (last = "more")]
  BY DEF Fill
<1>2. S \subseteq Row
  BY <1>1 DEF Covered, TypeOK
<1>3. (GenerationChecked(cmd[p]) /\ d) \in BOOLEAN
  BY DEF GenerationChecked
<1>4. [rows |-> S, last |-> last, intr |-> GenerationChecked(cmd[p]) /\ d] \in Datagram
  BY <1>2, <1>3 DEF Datagram
<1> QED
  BY <1>1, <1>2, <1>4 DEF TypeOK

LEMMA ExitType ==
    ASSUME TypeOK, NEW p \in Proc, NEW ret, Exit(p, ret)
    PROVE  /\ pc' \in [Proc -> {"open", "send", "recv", "run", "success", "failure"}]
           /\ active' \in [Proc -> BOOLEAN]
           /\ rx' \in [Proc -> Datagram]
<1>1. NoDatagram \in Datagram
  BY DEF NoDatagram, Datagram
<1>2. (IF ExitsWithFailure(ret) THEN "failure" ELSE "success") \in {"success", "failure"}
  OBVIOUS
<1> QED
  BY <1>1, <1>2 DEF TypeOK, Exit

LEMMA ChangeType ==
    ASSUME TypeOK, NEW T \in SUBSET Row, NEW I \in SUBSET Iface, ChangeTables(T, I)
    PROVE  TypeOK'
<1>1. changes' \in 0..MaxChanges
  BY ShowAssumption DEF TypeOK, ChangeTables
<1>2. dirty' \in [Proc -> BOOLEAN]
  BY DEF TypeOK, ChangeTables
<1>3. kept' \in [Proc -> SUBSET Row]
  BY DEF TypeOK, ChangeTables
<1>4. seen' \in [Proc -> SUBSET Row]
  BY DEF TypeOK, ChangeTables, Covered
<1> QED
  BY <1>1, <1>2, <1>3, <1>4 DEF TypeOK, ChangeTables, output

LEMMA NextTypeOK == TypeOK /\ [Next]_vars => TypeOK'
<1> SUFFICES ASSUME TypeOK, [Next]_vars PROVE TypeOK'
  OBVIOUS
<1> USE DEF kernel, dump, output, history
<1>1. ASSUME NEW p \in Proc, Open(p) \/ OpenFails(p) \/ SendFails(p) PROVE TypeOK'
  BY <1>1 DEF TypeOK, Open, OpenFails, SendFails
<1>2. ASSUME NEW p \in Proc, Send(p) PROVE TypeOK'
  <2>1. Covered(p, table) \subseteq Row
    BY DEF Covered, TypeOK
  <2>2. /\ rx' \in [Proc -> Datagram]
        /\ visited' \in [Proc -> SUBSET Row]
        /\ active' \in [Proc -> BOOLEAN]
    BY <1>2, FillType DEF Send
  <2> QED
    BY <1>2, <2>1, <2>2 DEF TypeOK, Send
<1>3. ASSUME NEW p \in Proc, SendRefused(p) PROVE TypeOK'
  <2>1. Refusal \in Datagram
    BY DEF Refusal, Datagram
  <2> QED
    BY <1>3, <2>1 DEF TypeOK, SendRefused
<1>4. ASSUME NEW p \in Proc, Recv(p) PROVE TypeOK'
  <2>1. NoDatagram \in Datagram
    BY DEF NoDatagram, Datagram
  <2>2. /\ rx' \in [Proc -> Datagram]
        /\ visited' \in [Proc -> SUBSET Row]
        /\ active' \in [Proc -> BOOLEAN]
    <3>1. CASE active[p] /\ Fill(p, visited[p], dirty[p])
      BY <3>1, FillType DEF TypeOK
    <3>2. CASE rx' = [rx EXCEPT ![p] = NoDatagram] /\ UNCHANGED <<visited, active>>
      BY <3>2, <2>1 DEF TypeOK
    <3> QED
      BY <1>4, <3>1, <3>2 DEF Recv
  <2> QED
    BY <1>4, <2>2 DEF TypeOK, Recv
<1>5. ASSUME NEW p \in Proc, RecvFails(p) \/ Return(p) PROVE TypeOK'
  <2>1. CASE \E ret : Exit(p, ret)
    <3>1. /\ pc' \in [Proc -> {"open", "send", "recv", "run", "success", "failure"}]
          /\ active' \in [Proc -> BOOLEAN]
          /\ rx' \in [Proc -> Datagram]
      BY <2>1, ExitType
    <3> QED
      BY <1>5, <3>1 DEF TypeOK, RecvFails, Return
  <2>2. CASE pc' = [pc EXCEPT ![p] = "recv"] /\ UNCHANGED <<active, rx>>
    BY <1>5, <2>2 DEF TypeOK, RecvFails, Return
  <2> QED
    BY <1>5, <2>1, <2>2 DEF RecvFails, Return
<1>6. ASSUME NEW p \in Proc, Callback(p) PROVE TypeOK'
  <2>1. PICK r \in buf[p].rows : buf' = [buf EXCEPT ![p].rows = @ \ {r}] /\ Display(p, r)
    BY <1>6 DEF Callback
  <2>2. r \in Row
    BY <2>1 DEF TypeOK, Datagram
  <2>3. buf' \in [Proc -> Datagram]
    <3>1. buf[p] \in Datagram /\ buf[p].rows \ {r} \in SUBSET Row
      BY DEF TypeOK, Datagram
    <3>2. [buf[p] EXCEPT !.rows = @ \ {r}] \in Datagram
      BY <3>1 DEF Datagram
    <3> QED
      BY <2>1, <3>2 DEF TypeOK
  <2>4. shown' \in [Proc -> [Row -> Nat]] /\ lost' \in [Proc -> SUBSET Row]
    BY <2>1, <2>2 DEF TypeOK, Display
  <2> QED
    BY <1>6, <2>3, <2>4 DEF TypeOK, Callback
<1>7. ASSUME OtherPrograms PROVE TypeOK'
  <2>1. ASSUME NEW r \in Row, AddRow(r) \/ DelRow(r) PROVE TypeOK'
    BY <2>1, ChangeType DEF AddRow, DelRow, TypeOK
  <2>2. ASSUME NEW i \in Iface, AddIface(i) PROVE TypeOK'
    <3>1. (table \union {r \in Row : RowKind[r] = "link" /\ RowIface[r] = i}) \in SUBSET Row
      BY DEF TypeOK
    <3>2. ifaces \union {i} \in SUBSET Iface
      BY DEF TypeOK
    <3> QED
      BY <2>2, <3>1, <3>2, ChangeType DEF AddIface
  <2>3. ASSUME NEW i \in Iface, DelIface(i) PROVE TypeOK'
    <3>1. {r \in table : RowIface[r] # i} \in SUBSET Row
      BY DEF TypeOK
    <3>2. ifaces \ {i} \in SUBSET Iface
      BY DEF TypeOK
    <3> QED
      BY <2>3, <3>1, <3>2, ChangeType DEF DelIface
  <2> QED
    BY <1>7, <2>1, <2>2, <2>3 DEF OtherPrograms
<1>8. CASE UNCHANGED vars
  BY <1>8 DEF vars, TypeOK
<1> QED
  BY <1>1, <1>2, <1>3, <1>4, <1>5, <1>6, <1>7, <1>8 DEF Next, Process, Finished

\* Every variable of Show keeps its type, for any constants.
THEOREM TypeCorrect == Spec => []TypeOK
BY InitTypeOK, NextTypeOK, PTL DEF Spec

-----------------------------------------------------------------------------
(* IInv is inductive. *)

LEMMA InitIInv == Init => IInv
<1> SUFFICES ASSUME Init, NEW p \in Proc PROVE PInv(p)
  BY InitTypeOK DEF IInv, PInv
<1> QED
  BY DEF Init, PInv, NothingDropped, Turns, Accounted, DumpOver, Unflagged,
         Exited, Shown, NoDatagram

\* A step that leaves the table and p's own state alone preserves PInv(p).
LEMMA OtherProc ==
    ASSUME NEW p \in Proc, PInv(p), UNCHANGED <<table, Local(p)>>
    PROVE  PInv(p)'
BY DEF Local, PInv, NothingDropped, Turns, Accounted, DumpOver, Unflagged,
       Exited, Shown, Covered

\* What the kernel's next datagram does to the state of p.
Filled(p, old, d) ==
    /\ rx'[p].last \in {"more", "done", "failed"}
    /\ rx'[p].rows \intersect old = {}
    /\ rx'[p].rows \subseteq Covered(p, table)
    /\ rx'[p].last = "done" => Covered(p, table) \subseteq visited'[p]
    /\ rx'[p].intr <=> (GenerationChecked(cmd[p]) /\ d)
    /\ visited'[p] = old \union rx'[p].rows
    /\ active'[p] <=> rx'[p].last = "more"

LEMMA FillEffect ==
    ASSUME TypeOK, NEW p \in Proc, NEW old, NEW d, Fill(p, old, d)
    PROVE  Filled(p, old, d)
<1>1. PICK S \in SUBSET (Covered(p, table) \ old), last \in {"more", "done", "failed"} :
        /\ last = "done" => S = Covered(p, table) \ old
        /\ rx' = [rx EXCEPT ![p] =
                    [rows |-> S, last |-> last,
                     intr |-> GenerationChecked(cmd[p]) /\ d]]
        /\ visited' = [visited EXCEPT ![p] = old \union S]
        /\ active' = [active EXCEPT ![p] = (last = "more")]
  BY DEF Fill
<1>2. rx'[p] = [rows |-> S, last |-> last, intr |-> GenerationChecked(cmd[p]) /\ d]
  BY <1>1 DEF TypeOK
<1>3. visited'[p] = old \union S
  BY <1>1 DEF TypeOK
<1>4. active'[p] <=> last = "more"
  BY <1>1 DEF TypeOK
<1>5. /\ rx'[p].rows = S /\ rx'[p].last = last
      /\ rx'[p].intr = (GenerationChecked(cmd[p]) /\ d)
  BY <1>2
<1>6. rx'[p].intr <=> (GenerationChecked(cmd[p]) /\ d)
  BY <1>5
<1> QED
  BY <1>1, <1>3, <1>4, <1>5, <1>6 DEF Filled

\* The steps of p, one lemma each for those that move messages.
LEMMA SendStep ==
    ASSUME IInv, NEW p \in Proc, Send(p)
    PROVE  PInv(p)'
<1>1. TypeOK /\ PInv(p)
  BY DEF IInv, PInv
<1>2. Fill(p, {}, FALSE)
  BY DEF Send
<1>3. Filled(p, {}, FALSE)
  BY <1>1, <1>2, FillEffect
<1>4. /\ pc[p] = "send" /\ pc'[p] = "recv" /\ buf' = buf /\ shown' = shown
      /\ table' = table /\ cmd' = cmd
      /\ kept'[p] = Covered(p, table) /\ seen'[p] = Covered(p, table)
  BY <1>1 DEF Send, TypeOK, kernel, output
<1>5. NothingDropped(p)'
  BY <1>1, <1>3, <1>4 DEF Filled, PInv, NothingDropped, Shown, NoDatagram
<1>6. Turns(p)'
  BY <1>1, <1>3, <1>4 DEF Filled, PInv, NothingDropped, Turns, NoDatagram, Exited
<1>7. Accounted(p)'
  BY <1>1, <1>3, <1>4 DEF Filled, PInv, Accounted, DumpOver, Unflagged, Covered
<1> QED
  BY <1>5, <1>6, <1>7 DEF PInv

LEMMA RecvStep ==
    ASSUME IInv, NEW p \in Proc, Recv(p)
    PROVE  PInv(p)'
<1>1. TypeOK /\ PInv(p)
  BY DEF IInv, PInv
<1>2. /\ pc[p] = "recv" /\ pc'[p] = "run" /\ buf'[p] = rx[p] /\ shown' = shown
      /\ table' = table /\ cmd' = cmd /\ kept' = kept /\ seen' = seen
      /\ dirty' = dirty
  BY <1>1 DEF Recv, TypeOK, kernel, output, history
<1>3. CASE active[p] /\ Fill(p, visited[p], dirty[p])
  <2>1. Filled(p, visited[p], dirty[p])
    BY <1>1, <1>3, FillEffect
  <2>3. rx[p].last = "more" /\ buf[p].rows = {}
    BY <1>1, <1>2, <1>3 DEF PInv, Turns
  <2>4. NothingDropped(p)'
    BY <1>1, <1>2, <2>1, <2>3 DEF Filled, PInv, NothingDropped, Shown
  <2>5. Turns(p)'
    BY <1>1, <1>2, <2>1, <2>3 DEF Filled, PInv, Turns, Exited
  <2>6. Accounted(p)'
    BY <1>1, <1>2, <1>3, <2>1, <2>3 DEF Filled, PInv, Accounted, DumpOver, Unflagged, Covered
  <2> QED
    BY <2>4, <2>5, <2>6 DEF PInv
<1>4. CASE ~active[p] /\ rx' = [rx EXCEPT ![p] = NoDatagram] /\ UNCHANGED <<visited, active>>
  <2>1. rx'[p] = NoDatagram
    BY <1>1, <1>4 DEF TypeOK
  <2>2. rx[p].last \in {"done", "failed", "error"} /\ buf[p].rows = {}
    BY <1>1, <1>2, <1>4 DEF PInv, Turns, TypeOK, Datagram
  <2>3. NothingDropped(p)'
    BY <1>1, <1>2, <1>4, <2>1, <2>2 DEF PInv, NothingDropped, Shown, NoDatagram
  <2>4. Turns(p)'
    BY <1>1, <1>2, <1>4, <2>1, <2>2 DEF PInv, Turns, Exited, NoDatagram
  <2>5. Accounted(p)'
    BY <1>1, <1>2, <1>4, <2>1, <2>2
       DEF PInv, Accounted, DumpOver, Unflagged, Covered, NoDatagram
  <2> QED
    BY <2>3, <2>4, <2>5 DEF PInv
<1> QED
  BY <1>3, <1>4 DEF Recv

LEMMA CallbackStep ==
    ASSUME IInv, NEW p \in Proc, Callback(p)
    PROVE  PInv(p)'
<1>1. TypeOK /\ PInv(p)
  BY DEF IInv, PInv
<1>2. PICK r \in buf[p].rows : buf' = [buf EXCEPT ![p].rows = @ \ {r}] /\ Display(p, r)
  BY DEF Callback
<1>3. r \in Row /\ buf[p] \in Datagram
  BY <1>1, <1>2 DEF TypeOK, Datagram
<1>4. /\ buf'[p].rows = buf[p].rows \ {r}
      /\ buf'[p].last = buf[p].last /\ buf'[p].intr = buf[p].intr
  BY <1>1, <1>2, <1>3 DEF TypeOK, Datagram
<1>5. /\ shown'[p] = [shown[p] EXCEPT ![r] = @ + 1]
      /\ shown[p] \in [Row -> Nat]
  BY <1>1, <1>2, <1>3 DEF TypeOK, Display
<1>6. Shown(p)' = Shown(p) \union {r}
  BY <1>3, <1>5 DEF Shown
<1>7. \A s \in Row : shown'[p][s] <= 1
  <2>1. r \notin Shown(p)
    BY <1>1, <1>2 DEF PInv, NothingDropped
  <2>2. shown[p][r] = 0
    BY <1>3, <1>5, <2>1 DEF Shown
  <2> QED
    BY <1>1, <1>3, <1>5, <2>2 DEF PInv, NothingDropped
<1>8. /\ pc[p] = "run" /\ pc' = pc /\ rx' = rx /\ active' = active /\ visited' = visited
      /\ table' = table /\ cmd' = cmd /\ kept' = kept /\ seen' = seen
      /\ dirty' = dirty
  BY DEF Callback, kernel, dump, history
<1>9. NothingDropped(p)'
  BY <1>1, <1>2, <1>4, <1>6, <1>7, <1>8 DEF PInv, NothingDropped
<1>10. Turns(p)'
  BY <1>1, <1>4, <1>8 DEF PInv, Turns, Exited
<1>11. Accounted(p)'
  BY <1>1, <1>4, <1>8 DEF PInv, Accounted, DumpOver, Unflagged, Covered
<1> QED
  BY <1>9, <1>10, <1>11 DEF PInv

LEMMA RefusedStep ==
    ASSUME IInv, NEW p \in Proc, SendRefused(p)
    PROVE  PInv(p)'
<1>1. TypeOK /\ PInv(p)
  BY DEF IInv, PInv
<1>2. /\ pc[p] = "send" /\ pc'[p] = "recv" /\ rx'[p] = Refusal
      /\ buf' = buf /\ shown' = shown /\ visited' = visited /\ active' = active
      /\ table' = table /\ cmd' = cmd /\ kept' = kept /\ seen' = seen /\ dirty' = dirty
  BY <1>1 DEF SendRefused, TypeOK, kernel, output, history
<1>3. ~active[p] /\ buf[p].rows = {} /\ visited[p] = {} /\ Shown(p) = {}
  BY <1>1, <1>2 DEF PInv, NothingDropped, Turns, NoDatagram
<1> QED
  BY <1>1, <1>2, <1>3
     DEF PInv, NothingDropped, Turns, Accounted, DumpOver, Unflagged, Exited,
         Shown, Covered, Refusal

\* Leaving the process with nothing in flight.  A success needs the last
\* datagram of the dump, walked to its end.
LEMMA ExitStep ==
    ASSUME IInv, NEW p \in Proc, NEW ret, Exit(p, ret),
           UNCHANGED <<kernel, visited, dirty, cmd, buf, output, history>>,
           pc[p] \in {"recv", "run"},
           ~ExitsWithFailure(ret) =>
             /\ pc[p] = "run" /\ buf[p].last \in {"done", "failed"}
             /\ ~buf[p].intr /\ buf[p].rows = {}
    PROVE  PInv(p)'
<1>1. TypeOK /\ PInv(p)
  BY DEF IInv, PInv
<1>2. /\ pc'[p] = IF ExitsWithFailure(ret) THEN "failure" ELSE "success"
      /\ active'[p] = FALSE /\ rx'[p] = NoDatagram
  BY <1>1 DEF Exit, TypeOK
<1>3. /\ buf' = buf /\ shown' = shown /\ visited' = visited /\ dirty' = dirty
      /\ table' = table /\ cmd' = cmd /\ kept' = kept /\ seen' = seen
  BY DEF kernel, output, history
<1>4. Shown(p)' = Shown(p)
  BY <1>3 DEF Shown
<1>5. CASE ExitsWithFailure(ret)
  <2>1. pc'[p] = "failure"
    BY <1>2, <1>5
  <2> QED
    BY <1>1, <1>2, <1>3, <1>4, <2>1
       DEF PInv, NothingDropped, Turns, Accounted, DumpOver, Unflagged, Exited, NoDatagram
<1>6. CASE ~ExitsWithFailure(ret)
  <2>1. pc'[p] = "success" /\ pc[p] = "run" /\ buf[p].last \in {"done", "failed"}
        /\ ~buf[p].intr /\ buf[p].rows = {}
    BY <1>2, <1>6
  <2>2. rx[p].last = "none" /\ rx[p].rows = {}
    BY <1>1, <2>1 DEF PInv, Turns
  <2>3. NothingDropped(p)'
    BY <1>1, <1>2, <1>3, <1>4, <2>1, <2>2 DEF PInv, NothingDropped, NoDatagram
  <2>4. Turns(p)'
    BY <1>1, <1>2, <1>3, <2>1 DEF PInv, Turns, Exited, NoDatagram
  <2>5. Accounted(p)'
    BY <1>1, <1>2, <1>3, <2>1
       DEF PInv, Accounted, DumpOver, Unflagged, NoDatagram
  <2> QED
    BY <2>3, <2>4, <2>5 DEF PInv
<1> QED
  BY <1>5, <1>6

LEMMA ReturnStep ==
    ASSUME IInv, NEW p \in Proc, Return(p)
    PROVE  PInv(p)'
<1>1. TypeOK /\ PInv(p)
  BY DEF IInv, PInv
<1> DEFINE ret == CbReturn(buf[p])
<1>2. /\ pc[p] = "run" /\ (buf[p].intr \/ buf[p].rows = {})
      /\ UNCHANGED <<kernel, visited, dirty, cmd, buf, output, history>>
  BY DEF Return
<1>3. buf[p].last \in {"more", "done", "failed", "error"} /\ buf[p].intr \in BOOLEAN
  BY <1>1, <1>2 DEF PInv, Turns, TypeOK, Datagram
<1>4. CASE Again(ret) /\ pc' = [pc EXCEPT ![p] = "recv"] /\ UNCHANGED <<active, rx>>
  <2>1. ~buf[p].intr /\ buf[p].last = "more"
    BY <1>3, <1>4 DEF Again, CbReturn, MNL_CB_ERROR, MNL_CB_STOP, MNL_CB_OK
  <2>2. rx[p].last # "none" /\ buf[p].rows = {} /\ pc'[p] = "recv"
    BY <1>1, <1>2, <1>4, <2>1 DEF PInv, Turns, TypeOK
  <2>3. /\ buf' = buf /\ shown' = shown /\ visited' = visited /\ dirty' = dirty
        /\ table' = table /\ cmd' = cmd /\ kept' = kept /\ seen' = seen
        /\ active' = active /\ rx' = rx
    BY <1>2, <1>4 DEF kernel, output, history
  <2>4. NothingDropped(p)'
    BY <1>1, <1>2, <2>2, <2>3 DEF PInv, NothingDropped, Shown
  <2>5. Turns(p)'
    BY <1>1, <1>2, <2>1, <2>2, <2>3 DEF PInv, Turns, Exited
  <2>6. Accounted(p)'
    BY <1>1, <1>2, <2>1, <2>2, <2>3
       DEF PInv, Accounted, DumpOver, Unflagged, Covered
  <2> QED
    BY <2>4, <2>5, <2>6 DEF PInv
<1>5. CASE ~Again(ret) /\ Exit(p, ret)
  <2>1. ~ExitsWithFailure(ret) =>
          buf[p].last \in {"done", "failed"} /\ ~buf[p].intr /\ buf[p].rows = {}
    BY <1>2, <1>3, <1>5
       DEF Again, ExitsWithFailure, CbReturn, MNL_CB_ERROR, MNL_CB_STOP, MNL_CB_OK
  <2> QED
    BY <1>2, <1>5, <2>1, ExitStep
<1> QED
  BY <1>4, <1>5 DEF Return

LEMMA RecvFailsStep ==
    ASSUME IInv, NEW p \in Proc, RecvFails(p)
    PROVE  PInv(p)'
<1>1. ExitsWithFailure(-1)
  BY DEF ExitsWithFailure
<1> QED
  BY <1>1, ExitStep DEF RecvFails

\* Another program's change: it marks the dumps it touches.
LEMMA ChangeStep ==
    ASSUME IInv, NEW p \in Proc, NEW T \in SUBSET Row, NEW I, ChangeTables(T, I)
    PROVE  PInv(p)'
<1>1. TypeOK /\ PInv(p)
  BY DEF IInv, PInv
<1> DEFINE changed == (table \ T) \union (T \ table)
<1>2. /\ table' = T
      /\ dirty'[p] <=> (dirty[p] \/ (active[p] /\ Covered(p, changed) # {}))
      /\ kept'[p] = IF active[p] THEN kept[p] \intersect T ELSE kept[p]
      /\ seen'[p] = IF active[p] THEN seen[p] \union Covered(p, T) ELSE seen[p]
  BY <1>1 DEF ChangeTables, TypeOK
<1>3. /\ rx' = rx /\ buf' = buf /\ pc' = pc /\ cmd' = cmd /\ visited' = visited
      /\ active' = active /\ shown' = shown
  BY DEF ChangeTables, output
<1>4. NothingDropped(p)' /\ Turns(p)'
  BY <1>1, <1>3 DEF PInv, NothingDropped, Turns, Exited, Shown
<1>5. CASE ~active[p]
  BY <1>1, <1>2, <1>3, <1>4, <1>5 DEF PInv, Accounted, DumpOver, Unflagged
<1>6. CASE active[p]
  <2>1. Accounted(p) /\ ~DumpOver(p) /\ ~Unflagged(p)
    BY <1>1, <1>6 DEF PInv, Turns, DumpOver, Unflagged, Exited, NoDatagram
  <2>2. ~DumpOver(p)' /\ ~Unflagged(p)'
    BY <1>3, <2>1 DEF DumpOver, Unflagged
  <2>3. Covered(p, table)' = Covered(p, T)
    BY <1>2, <1>3 DEF Covered
  <2>4. kept'[p] \subseteq Covered(p, T) /\ Covered(p, T) \subseteq seen'[p]
    BY <1>2, <1>6, <2>1 DEF Accounted, Covered
  <2>5. ASSUME GenerationChecked(cmd[p]), ~dirty'[p] PROVE kept'[p] = seen'[p]
    <3>1. Covered(p, changed) = {} /\ ~dirty[p]
      BY <1>2, <1>6, <2>5
    <3>2. Covered(p, T) = Covered(p, table)
      BY <3>1 DEF Covered
    <3>3. kept[p] = seen[p] /\ kept[p] \subseteq Covered(p, T)
      BY <1>6, <2>1, <2>5, <3>1, <3>2 DEF Accounted
    <3> QED
      BY <1>2, <1>6, <3>2, <3>3, <2>1 DEF Accounted, Covered
  <2>6. seen[p] \subseteq seen'[p]
    BY <1>2
  <2> QED
    BY <1>3, <1>6, <2>1, <2>2, <2>3, <2>4, <2>5, <2>6, <1>4 DEF PInv, Accounted
<1> QED
  BY <1>4, <1>5, <1>6 DEF PInv

\* Opening, binding and a request that cannot be sent move pc alone.
LEMMA OpenStep ==
    ASSUME IInv, NEW p \in Proc, Open(p) \/ OpenFails(p) \/ SendFails(p)
    PROVE  PInv(p)'
<1>1. TypeOK /\ PInv(p)
  BY DEF IInv, PInv
<1>2. /\ pc[p] \in {"open", "send"} /\ pc'[p] \in {"send", "failure"}
      /\ rx' = rx /\ active' = active /\ visited' = visited /\ dirty' = dirty
      /\ buf' = buf /\ shown' = shown /\ table' = table /\ cmd' = cmd
      /\ kept' = kept /\ seen' = seen
  BY <1>1 DEF Open, OpenFails, SendFails, TypeOK, kernel, dump, output, history
<1>3. Shown(p)' = Shown(p)
  BY <1>2 DEF Shown
<1>4. NothingDropped(p)'
  BY <1>1, <1>2, <1>3 DEF PInv, NothingDropped
<1>5. Turns(p)'
  BY <1>1, <1>2 DEF PInv, Turns, NothingDropped, Exited, NoDatagram
<1>6. Accounted(p)'
  BY <1>1, <1>2 DEF PInv, Accounted, DumpOver, Unflagged, Covered
<1> QED
  BY <1>4, <1>5, <1>6 DEF PInv

\* A process's step leaves the other processes and the table alone.
LEMMA ProcessFrame ==
    ASSUME TypeOK, NEW p \in Proc, NEW q \in Proc, q # p, Process(p)
    PROVE  UNCHANGED <<table, Local(q)>>
<1> USE DEF Local, TypeOK, kernel, dump, output, history
<1>1. CASE Open(p) \/ OpenFails(p) \/ SendFails(p)
  BY <1>1 DEF Open, OpenFails, SendFails
<1>2. CASE Send(p)
  BY <1>2 DEF Send, Fill
<1>3. CASE SendRefused(p)
  BY <1>3 DEF SendRefused
<1>4. CASE Recv(p)
  BY <1>4 DEF Recv, Fill
<1>5. CASE RecvFails(p)
  BY <1>5 DEF RecvFails, Exit
<1>6. CASE Callback(p)
  BY <1>6 DEF Callback, Display
<1>7. CASE Return(p)
  BY <1>7 DEF Return, Exit
<1> QED
  BY <1>1, <1>2, <1>3, <1>4, <1>5, <1>6, <1>7 DEF Process

\* Every step of another program is a change of the tables.
LEMMA OtherProgramsChange ==
    ASSUME TypeOK, OtherPrograms
    PROVE  \E T \in SUBSET Row, I \in SUBSET Iface : ChangeTables(T, I)
<1>1. ASSUME NEW r \in Row, AddRow(r) \/ DelRow(r)
      PROVE  \E T \in SUBSET Row, I \in SUBSET Iface : ChangeTables(T, I)
  BY <1>1 DEF AddRow, DelRow, TypeOK
<1>2. ASSUME NEW i \in Iface, AddIface(i)
      PROVE  \E T \in SUBSET Row, I \in SUBSET Iface : ChangeTables(T, I)
  <2>1. (table \union {r \in Row : RowKind[r] = "link" /\ RowIface[r] = i}) \in SUBSET Row
    BY DEF TypeOK
  <2>2. ifaces \union {i} \in SUBSET Iface
    BY DEF TypeOK
  <2> QED
    BY <1>2, <2>1, <2>2 DEF AddIface
<1>3. ASSUME NEW i \in Iface, DelIface(i)
      PROVE  \E T \in SUBSET Row, I \in SUBSET Iface : ChangeTables(T, I)
  <2>1. {r \in table : RowIface[r] # i} \in SUBSET Row
    BY DEF TypeOK
  <2>2. ifaces \ {i} \in SUBSET Iface
    BY DEF TypeOK
  <2> QED
    BY <1>3, <2>1, <2>2 DEF DelIface
<1> QED
  BY <1>1, <1>2, <1>3 DEF OtherPrograms

LEMMA NextIInv == IInv /\ [Next]_vars => IInv'
<1> SUFFICES ASSUME IInv, [Next]_vars, NEW q \in Proc PROVE PInv(q)'
  BY NextTypeOK DEF IInv, PInv
<1>1. TypeOK /\ PInv(q)
  BY DEF IInv, PInv
<1>2. ASSUME NEW p \in Proc, Process(p) PROVE PInv(q)'
  <2>1. CASE p = q
    BY <1>2, <2>1, OpenStep, SendStep, RefusedStep, RecvStep, RecvFailsStep,
       CallbackStep, ReturnStep DEF Process
  <2>2. CASE p # q
    BY <1>1, <1>2, <2>2, ProcessFrame, OtherProc
  <2> QED
    BY <2>1, <2>2
<1>3. ASSUME OtherPrograms PROVE PInv(q)'
  <2>1. PICK T \in SUBSET Row, I \in SUBSET Iface : ChangeTables(T, I)
    BY <1>1, <1>3, OtherProgramsChange
  <2> QED
    BY <2>1, ChangeStep
<1>4. CASE UNCHANGED vars
  BY <1>1, <1>4, OtherProc DEF vars, kernel, dump, output, history, Local
<1> QED
  BY <1>2, <1>3, <1>4 DEF Next, Finished

\* IInv holds in every reachable state, whatever the processes, the rows and
\* the changes other programs make.
THEOREM Invariant == Spec => []IInv
BY InitIInv, NextIInv, PTL DEF Spec

LEMMA IInvImplies ==
    IInv => SuccessIsComplete /\ SuccessIsSnapshot /\ NeverStuckInRecv
<1> SUFFICES ASSUME IInv, NEW p \in Proc
    PROVE  /\ pc[p] = "success" =>
                 /\ ToldOfFailure(p) \/ kept[p] \subseteq Shown(p)
                 /\ Shown(p) \subseteq seen[p]
                 /\ \A r \in Row : shown[p][r] <= 1
           /\ pc[p] = "success" /\ GenerationChecked(cmd[p]) /\ ~ToldOfFailure(p) =>
                 Shown(p) = kept[p] /\ kept[p] = seen[p]
           /\ pc[p] = "recv" => rx[p] # NoDatagram
  BY DEF SuccessIsComplete, SuccessIsSnapshot, NeverStuckInRecv
<1>1. NothingDropped(p) /\ Turns(p) /\ Accounted(p)
  BY DEF IInv
<1>2. ASSUME pc[p] = "success" PROVE Shown(p) = visited[p]
  <2>1. rx[p].rows = {}
    BY <1>1, <1>2 DEF Turns, Exited, NoDatagram
  <2>2. buf[p].rows = {}
    BY <1>1, <1>2 DEF Turns
  <2> QED
    BY <1>1, <1>2, <2>1, <2>2 DEF NothingDropped
<1>3. pc[p] = "success" /\ ~ToldOfFailure(p) => DumpOver(p) /\ Unflagged(p)
  BY <1>1 DEF Turns, ToldOfFailure, DumpOver, Unflagged
<1>4. /\ pc[p] = "success" => Shown(p) \subseteq seen[p]
      /\ pc[p] = "success" /\ ~ToldOfFailure(p) => kept[p] \subseteq Shown(p)
  BY <1>1, <1>2, <1>3 DEF Accounted
<1>5. pc[p] = "success" /\ GenerationChecked(cmd[p]) /\ ~ToldOfFailure(p)
        => kept[p] = seen[p]
  BY <1>1, <1>3 DEF Accounted
<1>6. pc[p] = "recv" => rx[p] # NoDatagram
  BY <1>1 DEF Turns, NoDatagram
<1> QED
  BY <1>1, <1>4, <1>5, <1>6 DEF NothingDropped

LEMMA IInvImpliesNext == IInv' => SuccessIsComplete' /\ SuccessIsSnapshot'
BY IInvImplies, PTL

\* Exit 0 of a dump command means a complete display, unless the dump failed: no
\* row that stayed in the table is missing, none is invented or repeated.
THEOREM CompleteOnSuccess == Spec => []SuccessIsComplete
BY Invariant, IInvImplies, PTL

\* Exit 0 of an address or link dump of one family means, unless the dump failed,
\* that the display is the table at one moment.
THEOREM SnapshotOnSuccess == Spec => []SuccessIsSnapshot
BY Invariant, IInvImplies, PTL

\* No process waits in recvfrom for a datagram that will not come.
THEOREM NoLostWakeup == Spec => []NeverStuckInRecv
BY Invariant, IInvImplies, PTL

-----------------------------------------------------------------------------
(* The commands are listings. *)

\* What a process is to the promise hangs on its own part of the state.
LEMMA PhaseFrame ==
    ASSUME NEW p, UNCHANGED <<pc[p], rx[p], buf[p]>>
    PROVE  Phase(p)' = Phase(p)
BY DEF Phase

\* The phase of p moves, and the others' stay.
LEMMA PhaseMoves ==
    ASSUME TypeOK, NEW p \in Proc, Process(p)
    PROVE  [q \in Proc |-> Phase(q)]' = [[q \in Proc |-> Phase(q)] EXCEPT ![p] = Phase(p)']
<1>1. \A q \in Proc \ {p} : Phase(q)' = Phase(q)
  BY ProcessFrame, PhaseFrame DEF Local
<1> QED
  BY <1>1

\* What a command asks for is what its dump covers.
LEMMA PresentIsCovered ==
    ASSUME TypeOK, NEW p \in Proc, NEW rows \in SUBSET Row
    PROVE  Promise!Present(p, rows) = Covered(p, rows)
BY DEF TypeOK, Promise!Present, Covered

LEMMA InitRefines == Init => Promise!Init
<1> SUFFICES ASSUME Init PROVE Promise!Init
  OBVIOUS
<1>1. \A p \in Proc : Phase(p) = "asked"
  BY DEF Init, Phase
<1> QED
  BY <1>1 DEF Init, Promise!Init

\* A step in which p moves on, and that shows nothing.
Moves(p, from, to) ==
    /\ Phase(p) = from /\ Phase(p)' = to
    /\ UNCHANGED <<table, cmd, shown, kept, seen>>

\* What p has still to walk, when it fails, receives or returns.
LEMMA QuietSteps ==
    ASSUME IInv, NEW p \in Proc,
           Open(p) \/ OpenFails(p) \/ SendRefused(p) \/ SendFails(p) \/ Recv(p) \/ RecvFails(p) \/ Return(p)
    PROVE  \/ Moves(p, Phase(p), Phase(p))
           \/ Moves(p, "asked", "refused")
           \/ Moves(p, "reading", "read") \/ Moves(p, "reading", "cut")
           \/ Phase(p) \notin {"success", "failure"} /\ Moves(p, Phase(p), "failure")
           \/ Return(p) /\ \E from \in {"read", "cut"} : Moves(p, from, "success")
<1> USE DEF kernel, dump, output, history
<1>1. TypeOK /\ PInv(p)
  BY DEF IInv, PInv
<1>2. CASE Open(p) \/ OpenFails(p) \/ SendFails(p)
  BY <1>1, <1>2 DEF Open, OpenFails, SendFails, Moves, Phase, TypeOK
<1>3. CASE SendRefused(p)
  BY <1>1, <1>3 DEF SendRefused, Moves, Phase, TypeOK, Refusal
<1>4. CASE Recv(p)
  <2>1. /\ pc[p] = "recv" /\ pc'[p] = "run" /\ buf'[p] = rx[p]
        /\ rx[p].last \in {"more", "done", "failed", "error"}
        /\ UNCHANGED <<table, cmd, shown, kept, seen>>
    BY <1>1, <1>4 DEF Recv, PInv, Turns, TypeOK, Datagram
  <2>2. CASE active[p] /\ Fill(p, visited[p], dirty[p])
    <3>1. rx'[p].last \in {"more", "done", "failed"}
      BY <1>1, <2>2, FillEffect DEF Filled
    <3>2. Phase(p) = "reading"
      BY <1>1, <2>1, <2>2 DEF Phase, PInv, Turns
    <3>3. Phase(p)' \in {"reading", "read", "cut"}
      BY <2>1, <3>1 DEF Phase
    <3> QED
      BY <2>1, <3>2, <3>3 DEF Moves
  <2>3. CASE rx' = [rx EXCEPT ![p] = NoDatagram]
    <3>1. rx'[p] = NoDatagram
      BY <1>1, <2>3 DEF TypeOK
    <3> QED
      BY <2>1, <3>1 DEF Moves, Phase, NoDatagram
  <2> QED
    BY <1>4, <2>2, <2>3 DEF Recv
<1>5. CASE RecvFails(p)
  BY <1>1, <1>5 DEF RecvFails, Exit, ExitsWithFailure, Moves, Phase, TypeOK
<1>6. CASE Return(p)
  <2> DEFINE ret == CbReturn(buf[p])
  <2>1. /\ pc[p] = "run" /\ UNCHANGED <<table, cmd, shown, kept, seen>> /\ buf' = buf
        /\ buf[p].last \in {"more", "done", "failed", "error"} /\ buf[p].intr \in BOOLEAN
    BY <1>1, <1>6 DEF Return, PInv, Turns, TypeOK, Datagram
  <2>2. CASE Again(ret) /\ pc' = [pc EXCEPT ![p] = "recv"] /\ UNCHANGED <<active, rx>>
    BY <1>1, <2>1, <2>2 DEF Moves, Phase, TypeOK
  <2>3. CASE ~Again(ret) /\ Exit(p, ret) /\ ExitsWithFailure(ret)
    <3>1. pc'[p] = "failure"
      BY <1>1, <2>3 DEF Exit, TypeOK
    <3> QED
      BY <2>1, <3>1 DEF Moves, Phase
  <2>4. CASE ~Again(ret) /\ Exit(p, ret) /\ ~ExitsWithFailure(ret)
    <3>1. pc'[p] = "success"
      BY <1>1, <2>4 DEF Exit, TypeOK
    <3>2. buf[p].last \in {"done", "failed"}
      BY <2>1, <2>4 DEF Again, ExitsWithFailure, CbReturn, MNL_CB_ERROR, MNL_CB_STOP, MNL_CB_OK
    <3>3. rx[p].last = "none"
      BY <1>1, <2>1, <3>2 DEF PInv, Turns
    <3>4. Phase(p) \in {"read", "cut"} /\ Phase(p)' = "success"
      BY <2>1, <3>1, <3>2, <3>3 DEF Phase
    <3> QED
      BY <1>6, <2>1, <3>4 DEF Moves
  <2> QED
    BY <1>6, <2>2, <2>3, <2>4 DEF Return
<1> QED
  BY <1>2, <1>3, <1>4, <1>5, <1>6

\* The kernel starts to read the table when it gets the request.
LEMMA SendBegins ==
    ASSUME IInv, NEW p \in Proc, Send(p)
    PROVE  Promise!Begin(p)
<1>1. TypeOK /\ PInv(p) /\ Process(p)
  BY DEF IInv, PInv, Process
<1>2. Filled(p, {}, FALSE)
  BY <1>1, FillEffect DEF Send
<1>3. pc[p] = "send" /\ pc'[p] = "recv"
  BY <1>1 DEF Send, TypeOK
<1>4. Phase(p) = "asked" /\ Phase(p)' \in {"reading", "read", "cut"}
  BY <1>2, <1>3 DEF Filled, Phase
<1>5. Covered(p, table) = Promise!Present(p, table)
  BY <1>1, PresentIsCovered DEF TypeOK
<1>6. /\ kept' = [kept EXCEPT ![p] = Covered(p, table)]
      /\ seen' = [seen EXCEPT ![p] = Covered(p, table)]
      /\ table' = table /\ cmd' = cmd /\ shown' = shown
  BY DEF Send, kernel, output
<1> QED
  BY <1>1, <1>4, <1>5, <1>6, PhaseMoves DEF Promise!Begin

\* A row in hand was in the table, and was not listed yet.
LEMMA CallbackLists ==
    ASSUME IInv, NEW p \in Proc, Callback(p)
    PROVE  Promise!List(p)
<1>1. TypeOK /\ PInv(p) /\ Process(p)
  BY DEF IInv, PInv, Process
<1>2. PICK r \in buf[p].rows : buf' = [buf EXCEPT ![p].rows = @ \ {r}] /\ Display(p, r)
  BY DEF Callback
<1>3. pc[p] = "run" /\ pc' = pc /\ rx' = rx /\ UNCHANGED <<table, cmd, kept, seen>>
  BY DEF Callback, kernel, dump, history
<1>4. r \in Row /\ r \in visited[p] /\ r \notin Shown(p)
  BY <1>1, <1>2, <1>3 DEF PInv, NothingDropped, TypeOK, Datagram
<1>5. r \in seen[p] /\ shown[p][r] = 0
  BY <1>1, <1>3, <1>4 DEF PInv, Accounted, Shown, TypeOK
<1>6. shown' = [shown EXCEPT ![p][r] = 1]
  BY <1>1, <1>2, <1>4, <1>5 DEF Display, TypeOK
<1>7. buf'[p].last = buf[p].last
  BY <1>1, <1>2 DEF TypeOK, Datagram
<1>8. Phase(p)' = Phase(p)
  BY <1>3, <1>7 DEF Phase
<1>9. Phase(p) \in {"reading", "read", "cut"}
  <2>1. buf[p].last # "error"
    BY <1>1, <1>2 DEF PInv, Turns
  <2> QED
    BY <1>1, <1>3, <2>1 DEF Phase, PInv, Turns, TypeOK, Datagram
<1>10. [q \in Proc |-> Phase(q)]' = [q \in Proc |-> Phase(q)]
  BY <1>1, <1>8, PhaseMoves
<1> QED
  BY <1>3, <1>5, <1>6, <1>9, <1>10 DEF Promise!List

\* Success is reported of a dump that is complete, or failed half way.
LEMMA ReturnSucceeds ==
    ASSUME IInv, NEW p \in Proc, Return(p), NEW from \in {"read", "cut"},
           Moves(p, from, "success")
    PROVE  Promise!Succeed(p)
<1>1. TypeOK /\ PInv(p) /\ Process(p)
  BY DEF IInv, PInv, Process
<1>2. IInv'
  BY <1>1, NextIInv DEF Next
<1>3. SuccessIsComplete' /\ SuccessIsSnapshot'
  BY <1>2, IInvImpliesNext
<1>4. pc'[p] = "success" /\ buf' = buf
  <2>1. pc'[p] \in {"open", "send", "recv", "run", "success", "failure"}
    BY <1>2 DEF IInv, TypeOK
  <2>2. Phase(p)' = "success"
    BY DEF Moves
  <2> QED
    BY <2>1, <2>2 DEF Phase, Return
<1>5. Shown(p)' = Shown(p) /\ Shown(p) = Promise!Listed(p)
  <2>1. Shown(p) = Promise!Listed(p)
    BY DEF Shown, Promise!Listed
  <2>2. shown' = shown
    BY DEF Moves
  <2> QED
    BY <2>1, <2>2 DEF Shown
<1>6. from = "read" => ~ToldOfFailure(p)'
  <2>1. pc[p] = "run" /\ rx[p].last \in {"none", "more", "done", "failed"}
    BY <1>1 DEF Return, PInv, Turns, TypeOK, Datagram
  <2>2. ASSUME buf[p].last = "failed" PROVE Phase(p) = "cut"
    BY <1>1, <2>1, <2>2 DEF Phase, PInv, Turns
  <2> QED
    BY <1>4, <2>2 DEF Moves, ToldOfFailure
<1>7. from = "read" => kept[p] \subseteq Promise!Listed(p)
  BY <1>3, <1>4, <1>5, <1>6 DEF SuccessIsComplete, Moves
<1>8. from = "read" /\ GenerationChecked(cmd[p]) => kept[p] = seen[p]
  BY <1>3, <1>4, <1>6 DEF SuccessIsSnapshot, Moves
<1>9. [q \in Proc |-> Phase(q)]' = [[q \in Proc |-> Phase(q)] EXCEPT ![p] = "success"]
  BY <1>1, PhaseMoves DEF Moves
<1> QED
  BY <1>7, <1>8, <1>9 DEF Promise!Succeed, Moves

\* What the steps of a process come to.
LEMMA ProcessRefines ==
    ASSUME IInv, NEW p \in Proc, Process(p)
    PROVE  [Promise!Next]_Promise!listing
<1> DEFINE phase == [q \in Proc |-> Phase(q)]
<1>1. phase' = [phase EXCEPT ![p] = Phase(p)'] /\ phase[p] = Phase(p)
  BY PhaseMoves DEF IInv
<1>2. CASE Send(p)
  BY <1>2, SendBegins DEF Promise!Next
<1>3. CASE Callback(p)
  BY <1>3, CallbackLists DEF Promise!Next
<1>4. CASE Moves(p, Phase(p), Phase(p))
  <2>1. phase' = phase
    BY <1>1, <1>4 DEF Moves
  <2> QED
    BY <1>4, <2>1 DEF Moves, Promise!listing
<1>5. CASE Moves(p, "asked", "refused")
  <2>1. Promise!Refuse(p)
    BY <1>1, <1>5 DEF Moves, Promise!Refuse
  <2> QED
    BY <2>1 DEF Promise!Next
<1>6. CASE Moves(p, "reading", "read") \/ Moves(p, "reading", "cut")
  <2>1. Promise!End(p)
    BY <1>1, <1>6 DEF Moves, Promise!End
  <2> QED
    BY <2>1 DEF Promise!Next
<1>7. CASE Phase(p) \notin {"success", "failure"} /\ Moves(p, Phase(p), "failure")
  <2>1. Promise!Fail(p)
    BY <1>1, <1>7 DEF Moves, Promise!Fail
  <2> QED
    BY <2>1 DEF Promise!Next
<1>8. CASE Return(p) /\ \E from \in {"read", "cut"} : Moves(p, from, "success")
  BY <1>8, ReturnSucceeds DEF Promise!Next
<1> QED
  BY <1>2, <1>3, <1>4, <1>5, <1>6, <1>7, <1>8, QuietSteps DEF Process

\* A change by other programs is seen by the commands that are reading.
LEMMA ChangeRefines ==
    ASSUME IInv, NEW T \in SUBSET Row, NEW I, ChangeTables(T, I)
    PROVE  Promise!OthersChange
<1>1. TypeOK
  BY DEF IInv
<1>2. \A p \in Proc : Phase(p)' = Phase(p)
  BY PhaseFrame DEF ChangeTables
<1>3. ASSUME NEW p \in Proc PROVE active[p] <=> Phase(p) = "reading"
  <2>1. PInv(p) /\ rx[p] \in Datagram /\ buf[p] \in Datagram /\ active[p] \in BOOLEAN
        /\ pc[p] \in {"open", "send", "recv", "run", "success", "failure"}
    BY <1>1 DEF IInv, PInv, TypeOK
  <2>2. CASE pc[p] \in {"open", "send"} \/ Exited(p)
    BY <2>1, <2>2 DEF PInv, Turns, NothingDropped, Phase, Exited, NoDatagram
  <2>3. CASE pc[p] \in {"recv", "run"}
    BY <2>1, <2>3 DEF PInv, Turns, Phase
  <2> QED
    BY <2>1, <2>2, <2>3 DEF Exited
<1>4. \A p \in Proc : Promise!Present(p, T) = Covered(p, T)
  BY <1>1, PresentIsCovered
<1>5. /\ table' = T
      /\ kept' = [p \in Proc |-> IF active[p] THEN kept[p] \intersect T ELSE kept[p]]
      /\ seen' = [p \in Proc |-> IF active[p] THEN seen[p] \union Covered(p, T) ELSE seen[p]]
      /\ cmd' = cmd /\ shown' = shown
  BY DEF ChangeTables, output
<1>6. kept' = [p \in Proc |-> IF Phase(p) = "reading" THEN kept[p] \intersect T ELSE kept[p]]
  BY <1>3, <1>5
<1>7. seen' = [p \in Proc |-> IF Phase(p) = "reading" THEN seen[p] \union Promise!Present(p, T)
                                                     ELSE seen[p]]
  BY <1>3, <1>4, <1>5
<1> QED
  BY <1>2, <1>5, <1>6, <1>7 DEF Promise!OthersChange, Promise!Present

LEMMA NextRefines == IInv /\ [Next]_vars => [Promise!Next]_Promise!listing
<1> SUFFICES ASSUME IInv, [Next]_vars PROVE [Promise!Next]_Promise!listing
  OBVIOUS
<1>1. ASSUME NEW p \in Proc, Process(p) PROVE [Promise!Next]_Promise!listing
  BY <1>1, ProcessRefines
<1>2. ASSUME OtherPrograms PROVE [Promise!Next]_Promise!listing
  <2>1. PICK T \in SUBSET Row, I \in SUBSET Iface : ChangeTables(T, I)
    BY <1>2, OtherProgramsChange DEF IInv
  <2> QED
    BY <2>1, ChangeRefines DEF Promise!Next
<1>3. CASE UNCHANGED vars
  <2>1. \A p \in Proc : Phase(p)' = Phase(p)
    BY <1>3, PhaseFrame DEF vars, dump
  <2> QED
    BY <1>3, <2>1 DEF vars, kernel, output, history, Promise!listing
<1> QED
  BY <1>1, <1>2, <1>3 DEF Next, Finished

\* Datagrams, the cursor in the kernel and what other programs do meanwhile hide
\* nothing from who types a command: the table is read over a stretch of time,
\* what was read is listed once, and success leaves nothing out.
THEOREM Refinement == Spec => Implements
<1>1. Spec => Promise!Spec
  BY InitRefines, NextRefines, Invariant, PTL DEF Spec, Promise!Spec
<1> QED
  BY <1>1 DEF Implements

=============================================================================
