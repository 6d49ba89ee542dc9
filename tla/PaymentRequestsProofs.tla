----------------------- MODULE PaymentRequestsProofs -----------------------
(***************************************************************************)
(* Proofs about PaymentRequests: what IdempotencyKeysProofs proves of the  *)
(* key holds with other requests and the payment's transaction around it,  *)
(* and the charges given to clients are recorded, for any number of        *)
(* requests, bookings and charges.                                         *)
(***************************************************************************)
EXTENDS PaymentRequests, IdempotencyKeysProofs

-----------------------------------------------------------------------------
(* The key's protocol. *)

\* A step of this specification is, for the key, one of its own, or another
\* request of the user.
LEMMA KeyStepOrOther ==
  ASSUME KInv, [PayNext]_allVars
  PROVE  \/ [Next]_vars
         \/ sent' \in Nat /\ UNCHANGED <<now, row, effects, sess, answers, unsaved>>
<1>1. sent \in Nat /\ sent + 1 \in Nat
  BY DEF KInv, TypeOK
<1>2. ASSUME NEW s \in Sessions, KeyStep(s) \/ AnswerCharge(s) \/ NotPayable(s)
      PROVE  Next
  BY <1>2 DEF KeyStep, AnswerCharge, NotPayable, Next, Progress
<1>3. ASSUME NEW c \in Callers, NEW b \in Bodies, Begin(c, b)
      PROVE  \/ UNCHANGED vars
             \/ sent' \in Nat /\ UNCHANGED <<now, row, effects, sess, answers, unsaved>>
  BY <1>1, <1>3 DEF Begin
<1>4. ASSUME NEW c \in Callers, CreateCharge(c) \/ ChargeFails(c) \/ Conflict(c) \/ CrashTx(c)
      PROVE  Next \/ UNCHANGED vars
  BY <1>4 DEF CreateCharge, ChargeFails, Conflict, Throws, CrashTx, Next, Progress
<1>5. ASSUME NEW c \in Callers, Record(c) \/ RecordUnknown(c)
      PROVE  Next \/ UNCHANGED vars
  BY <1>5 DEF Record, RecordUnknown, Next, Progress, vars
<1>6. ASSUME NEW b \in Bodies, LimitPasses(b) \/ BookingEnds(b)
      PROVE  UNCHANGED vars
  BY <1>6 DEF LimitPasses, BookingEnds
<1>7. CASE Tick
  BY <1>7 DEF Next
<1>8. CASE UNCHANGED allVars
  BY <1>8 DEF allVars
<1>9. QED BY <1>2, <1>3, <1>4, <1>5, <1>6, <1>7, <1>8 DEF PayNext

LEMMA KeyKept == KInv /\ [PayNext]_allVars => KInv'
BY KeyStepOrOther, NextInv, ClockInv DEF KInv, TypeOK

-----------------------------------------------------------------------------
(* The payments. *)

\* A charge that some booking's row records.
InTable(g) == \E b \in Bodies : payment[b] = g

\* The transaction of a caller: what it has, and that its booking is not ended.
TxShape(c) ==
  /\ tx[c].stage # "none" => tx[c].booking \in Bodies
  /\ tx[c].stage = "charged" => tx[c].charge \in Charges
  /\ tx[c].booking \in Bodies => life[tx[c].booking] # "ended"

PInv ==
  /\ PayTypeOK /\ KInv
  /\ ShownIsRecorded
  /\ \A i \in 1 .. Len(refs) : InTable(refs[i])
  /\ \A c \in Callers : TxShape(c)

LEMMA NoTxShape == NoTx \in Tx /\ NoTx.stage = "none" /\ NoTx.booking \notin Bodies
BY NamesAssumption DEF NoTx, Tx

\* A transaction that ends, or one that is at work.
LEMMA EndedTx ==
  ASSUME PInv, NEW c \in Callers, Ended(c), life' = life
  PROVE  tx' \in [Callers -> Tx] /\ \A d \in Callers : TxShape(d)'
<1>1. tx \in [Callers -> Tx] /\ tx' = [tx EXCEPT ![c] = NoTx]
  BY DEF PInv, PayTypeOK, Ended
<1>2. tx' \in [Callers -> Tx] /\ tx'[c] = NoTx /\ \A d \in Callers \ {c} : tx'[d] = tx[d]
  BY <1>1, NoTxShape
<1>3. QED BY <1>2, NoTxShape DEF PInv, TxShape

LEMMA WorksTx ==
  ASSUME PInv, NEW c \in Callers, NEW new \in Tx, tx' = [tx EXCEPT ![c] = new], life' = life,
         new.stage \in {"locked", "charged"}, new.booking \in Bodies,
         life[new.booking] # "ended", new.stage = "charged" => new.charge \in Charges
  PROVE  tx' \in [Callers -> Tx] /\ \A d \in Callers : TxShape(d)'
<1>1. tx \in [Callers -> Tx]
  BY DEF PInv, PayTypeOK
<1>2. tx' \in [Callers -> Tx] /\ tx'[c] = new /\ \A d \in Callers \ {c} : tx'[d] = tx[d]
  BY <1>1
<1>3. QED BY <1>2 DEF PInv, TxShape

\* Steps that record nothing and show nothing.
LEMMA Unrecorded ==
  ASSUME PInv, KInv', life' \in [Bodies -> {"open", "over", "ended"}],
         tx' \in [Callers -> Tx], \A d \in Callers : TxShape(d)',
         created' \subseteq Charges, Len(effects') = Len(effects),
         UNCHANGED <<payment, refs, shown>>
  PROVE  PInv'
<1>1. PayTypeOK'
  BY DEF PInv, PayTypeOK, KInv
<1>2. QED BY <1>1 DEF PInv, ShownIsRecorded, InTable

LEMMA BeginInv ==
  ASSUME PInv, KInv', NEW c \in Callers, NEW b \in Bodies, Begin(c, b)
  PROVE  PInv'
<1> DEFINE new == [stage |-> "locked", booking |-> b, charge |-> NoCharge]
<1>1. /\ new \in Tx /\ tx' = [tx EXCEPT ![c] = new] /\ life[b] # "ended"
      /\ UNCHANGED <<life, payment, created, refs, shown>> /\ effects' = effects
  BY DEF Begin, Tx, vars
<1>2. tx' \in [Callers -> Tx] /\ \A d \in Callers : TxShape(d)'
  BY <1>1, WorksTx
<1>3. QED BY <1>1, <1>2, Unrecorded DEF PInv, PayTypeOK

LEMMA ChargeInv ==
  ASSUME PInv, KInv', NEW c \in Callers, CreateCharge(c)
  PROVE  PInv'
<1>1. PICK g \in Charges : /\ created' = created \cup {g}
                           /\ tx' = [tx EXCEPT ![c] = [tx[c] EXCEPT !.stage = "charged", !.charge = g]]
  BY DEF CreateCharge
<1>2. /\ tx[c].stage = "locked" /\ tx[c] \in Tx /\ tx[c].booking \in Bodies
      /\ life[tx[c].booking] # "ended"
      /\ UNCHANGED <<life, payment, refs, shown>> /\ effects' = effects
  BY DEF CreateCharge, PInv, PayTypeOK, TxShape, vars
<1> DEFINE new == [tx[c] EXCEPT !.stage = "charged", !.charge = g]
<1>3. new \in Tx /\ new.stage = "charged" /\ new.booking = tx[c].booking /\ new.charge = g
  BY <1>2 DEF Tx
<1> HIDE DEF new
<1>4. tx' = [tx EXCEPT ![c] = new]
  BY <1>1 DEF new
<1>5. tx' \in [Callers -> Tx] /\ \A d \in Callers : TxShape(d)'
  BY <1>2, <1>3, <1>4, WorksTx
<1>6. QED BY <1>1, <1>2, <1>5, Unrecorded DEF PInv, PayTypeOK

LEMMA ThrowsInv ==
  ASSUME PInv, KInv', NEW c \in Callers, ChargeFails(c) \/ Conflict(c) \/ CrashTx(c)
  PROVE  PInv'
<1>1. /\ Ended(c) /\ UNCHANGED <<life, payment, refs, shown>> /\ effects' = effects
      /\ created' \subseteq Charges
  BY DEF ChargeFails, Conflict, CrashTx, Throws, ExecuteThrows, Crash, vars, PInv, PayTypeOK
<1>2. tx' \in [Callers -> Tx] /\ \A d \in Callers : TxShape(d)'
  BY <1>1, EndedTx
<1>3. QED BY <1>1, <1>2, Unrecorded DEF PInv, PayTypeOK

\* The limit of a booking passes, or the booking ends when no transaction has it.
LEMMA BookingInv ==
  ASSUME PInv, KInv', NEW b \in Bodies, LimitPasses(b) \/ BookingEnds(b)
  PROVE  PInv'
<1>1. /\ life \in [Bodies -> {"open", "over", "ended"}] /\ tx \in [Callers -> Tx]
      /\ UNCHANGED <<payment, created, refs, tx, shown>> /\ effects' = effects
  BY DEF LimitPasses, BookingEnds, PInv, PayTypeOK, vars
<1>2. PICK l \in {"over", "ended"} : /\ life' = [life EXCEPT ![b] = l]
                                     /\ l = "ended" => RowFree(b)
  BY DEF LimitPasses, BookingEnds
<1>3. life' \in [Bodies -> {"open", "over", "ended"}] /\ life'[b] = l
      /\ \A x \in Bodies \ {b} : life'[x] = life[x]
  BY <1>1, <1>2
<1>4. \A c \in Callers : TxShape(c)'
  BY <1>1, <1>2, <1>3 DEF PInv, TxShape, RowFree
<1>5. QED BY <1>1, <1>3, <1>4, Unrecorded DEF PInv, PayTypeOK

\* The payment's row: what was in the table stays, and the new charge is there.
LEMMA RecordInv ==
  ASSUME PInv, KInv', NEW c \in Callers, Record(c) \/ RecordUnknown(c)
  PROVE  PInv'
<1> DEFINE g == tx[c].charge
<1> DEFINE b == tx[c].booking
<1>1. /\ tx[c].stage = "charged" /\ payment[b] = NoCharge /\ Ended(c)
      /\ payment' = [payment EXCEPT ![b] = g] /\ UNCHANGED <<life, created>>
  BY DEF Record, RecordUnknown, Recorded
<1>2. b \in Bodies /\ g \in Charges /\ payment \in [Bodies -> Charges \cup {NoCharge}]
      /\ refs \in Seq(Charges) /\ Len(refs) = Len(effects) /\ shown \subseteq Charges
  BY <1>1 DEF PInv, PayTypeOK, TxShape
<1>3. /\ payment' \in [Bodies -> Charges \cup {NoCharge}] /\ payment'[b] = g
      /\ \A x \in Bodies \ {b} : payment'[x] = payment[x]
  BY <1>1, <1>2
<1>4. \A h \in Charges : h = g \/ InTable(h) => \E x \in Bodies : payment'[x] = h
  BY <1>1, <1>2, <1>3, PayNamesAssumption DEF InTable
<1>5. tx' \in [Callers -> Tx] /\ \A d \in Callers : TxShape(d)'
  BY <1>1, EndedTx
<1>6. shown' \in {shown, shown \cup {g}}
  BY DEF Record, RecordUnknown
<1>7. /\ refs' \in Seq(Charges) /\ Len(refs') = Len(effects')
      /\ \A i \in 1 .. Len(refs') : refs'[i] = g \/ (i \in 1 .. Len(refs) /\ refs'[i] = refs[i])
  <2>1. CASE c \in Sessions
    <3>1. refs' = Append(refs, g) /\ effects' = Append(effects, sess[c].body)
      BY <2>1 DEF Record, RecordUnknown, Returned, Execute, ExecuteUnknown
    <3>2. effects \in Seq(Bodies) /\ sess[c].body \in Bodies
      BY <2>1 DEF PInv, KInv, TypeOK, BodyKept, Record, RecordUnknown, Execute, ExecuteUnknown, In
    <3>3. QED BY <1>2, <3>1, <3>2
  <2>2. CASE c \notin Sessions
    <3>1. refs' = refs /\ effects' = effects
      BY <2>2 DEF Record, RecordUnknown, vars
    <3>2. QED BY <1>2, <3>1
  <2>3. QED BY <2>1, <2>2
<1>8. PayTypeOK'
  BY <1>1, <1>2, <1>3, <1>5, <1>6, <1>7 DEF PInv, PayTypeOK, KInv
<1>9. \A h \in shown' : \E x \in Bodies : payment'[x] = h
  <2>1. \A h \in shown : h \in Charges /\ InTable(h)
    BY <1>2 DEF PInv, ShownIsRecorded, InTable
  <2>2. QED BY <1>2, <1>4, <1>6, <2>1
<1>10. \A i \in 1 .. Len(refs') : \E x \in Bodies : payment'[x] = refs'[i]
  <2>1. \A i \in 1 .. Len(refs) : refs[i] \in Charges /\ InTable(refs[i])
    BY <1>2 DEF PInv
  <2>2. QED BY <1>2, <1>4, <1>7, <2>1
<1>11. ShownIsRecorded' /\ (\A i \in 1 .. Len(refs) : InTable(refs[i]))'
  BY <1>9, <1>10 DEF ShownIsRecorded, InTable
<1>12. QED BY <1>5, <1>8, <1>11 DEF PInv

\* What is answered is the charge of an effect.
LEMMA ShowInv ==
  ASSUME PInv, KInv', NEW s \in Sessions, AnswerCharge(s)
  PROVE  PInv'
<1>1. /\ In(s, "answer") \/ In(s, "replay")
      /\ shown' = shown \cup {refs[sess[s].result]} /\ effects' = effects
      /\ UNCHANGED <<life, payment, created, refs, tx>>
  BY DEF AnswerCharge, Answer
<1>2. sess[s].result \in 1 .. Len(refs)
  BY <1>1 DEF PInv, PayTypeOK, KInv, Results, Stored, In
<1>3. refs[sess[s].result] \in Charges /\ InTable(refs[sess[s].result])
  BY <1>2 DEF PInv, PayTypeOK
<1>4. PayTypeOK'
  BY <1>1, <1>3 DEF PInv, PayTypeOK, KInv
<1>5. ShownIsRecorded'
  BY <1>1, <1>3 DEF PInv, ShownIsRecorded, InTable
<1>6. QED BY <1>1, <1>4, <1>5 DEF PInv, InTable, TxShape

LEMMA PayNextInv == PInv /\ [PayNext]_allVars => PInv'
<1> SUFFICES ASSUME PInv, [PayNext]_allVars PROVE PInv' OBVIOUS
<1>1. KInv'
  BY KeyKept DEF PInv
<1>2. ASSUME NEW s \in Sessions, KeyStep(s) \/ NotPayable(s)
      PROVE  UNCHANGED payVars /\ effects' = effects
  BY <1>2 DEF KeyStep, NotPayable, ExecuteThrows, Find, Insert, Refind, RefuseInProgress,
              Complete, CompleteFails, AnswerThrows, Undo, Send
<1>3. CASE UNCHANGED payVars /\ effects' = effects
  BY <1>1, <1>3 DEF PInv, payVars, PayTypeOK, KInv, ShownIsRecorded, InTable, TxShape
<1>4. CASE UNCHANGED allVars \/ (Tick /\ UNCHANGED payVars)
  BY <1>3, <1>4 DEF allVars, vars, Tick
<1>5. ASSUME NEW s \in Sessions, KeyStep(s) \/ AnswerCharge(s) \/ NotPayable(s)
      PROVE  PInv'
  BY <1>1, <1>2, <1>3, <1>5, ShowInv
<1>6. ASSUME NEW c \in Callers,
             \/ \E b \in Bodies : Begin(c, b)
             \/ CreateCharge(c) \/ ChargeFails(c)
             \/ Record(c) \/ RecordUnknown(c) \/ Conflict(c) \/ CrashTx(c)
      PROVE  PInv'
  BY <1>1, <1>6, BeginInv, ChargeInv, ThrowsInv, RecordInv
<1>7. ASSUME NEW b \in Bodies, LimitPasses(b) \/ BookingEnds(b)
      PROVE  PInv'
  BY <1>1, <1>7, BookingInv
<1>8. QED BY <1>4, <1>5, <1>6, <1>7 DEF PayNext

LEMMA PayInitInv == PayInit => PInv
<1> SUFFICES ASSUME PayInit PROVE PInv OBVIOUS
<1>1. KInv /\ effects = <<>>
  BY InitInv DEF PayInit, Init
<1>2. tx \in [Callers -> Tx] /\ \A c \in Callers : TxShape(c)
  BY NoTxShape DEF PayInit, TxShape
<1>3. refs = <<>> /\ refs \in Seq(Charges) /\ Len(refs) = 0
  BY DEF PayInit
<1>4. PayTypeOK
  BY <1>1, <1>2, <1>3 DEF PayInit, PayTypeOK, KInv
<1>5. QED BY <1>1, <1>2, <1>3, <1>4 DEF PInv, PayInit, ShownIsRecorded

\* A payment is recorded while its transaction has the booking's row.
LEMMA HeldStep ==
  ASSUME PInv, [PayNext]_allVars, NEW b \in Bodies, payment'[b] # payment[b]
  PROVE  life[b] # "ended"
<1>1. \E c \in Callers : Recorded(c)
  BY DEF PayNext, allVars, payVars, KeyStep, AnswerCharge, NotPayable, Begin, CreateCharge,
         ChargeFails, Conflict, CrashTx, Throws, Record, RecordUnknown, LimitPasses, BookingEnds
<1>2. PICK c \in Callers : Recorded(c)
  BY <1>1
<1>3. /\ payment \in [Bodies -> Charges \cup {NoCharge}] /\ tx[c].booking \in Bodies
      /\ life[tx[c].booking] # "ended"
  BY <1>2 DEF Recorded, PInv, PayTypeOK, TxShape
<1>4. QED BY <1>2, <1>3 DEF Recorded

-----------------------------------------------------------------------------
(* The theorems. *)

\* The protocol of the key and the tables of the payments agree at every moment, for
\* any number of requests, bookings and charges: what a transaction has locked
\* stays as it was read, and what the key stores is what was recorded.
THEOREM PayInvariance == PaySpec => []PInv
<1>1. QED BY PayInitInv, PayNextInv, PTL DEF PaySpec

\* Every variable keeps its type.
THEOREM PayTypes == PaySpec => []PayTypeOK
<1>1. PInv => PayTypeOK BY DEF PInv
<1>2. QED BY <1>1, PayInvariance, PTL

\* One request with the key executes at a time, whatever expires meanwhile.
THEOREM OneExecutorKept == PaySpec => []OneExecutor
<1>1. PInv => OneExecutor BY DEF PInv, KInv
<1>2. QED BY <1>1, PayInvariance, PTL

\* All answers given with the key are about one effect.
THEOREM AnswersAgreeKept == PaySpec => []AnswersAgree
<1>1. PInv => AnswersAgree BY KInvAgrees DEF PInv
<1>2. QED BY <1>1, PayInvariance, PTL

\* A request sent again with its key repeats no effect, whenever the process dies.
THEOREM EffectOnceKept == PaySpec => []EffectOnce
<1>1. PInv => EffectOnce BY KInvOnce DEF PInv
<1>2. QED BY <1>1, PayInvariance, PTL

\* A client is never given a charge to pay that no payment records.
THEOREM ShownKept == PaySpec => []ShownIsRecorded
<1>1. PInv => ShownIsRecorded BY DEF PInv
<1>2. QED BY <1>1, PayInvariance, PTL

\* A key that has been answered is spent, in this composition too.
THEOREM PayKeyIsFinal == PaySpec => AnsweredIsFinal
<1>1. PInv /\ [PayNext]_allVars => [answers # {} => effects' = effects]_vars
  BY KeyStepOrOther, AnsweredStep DEF PInv, vars
<1>2. QED BY <1>1, PayInvariance, PTL DEF PaySpec, AnsweredIsFinal

\* No payment is recorded for a booking somebody has expired, cancelled or sold.
THEOREM RecordedHeldKept == PaySpec => RecordedWhileHeld
<1>1. PInv /\ [PayNext]_allVars =>
        [\A b \in Bodies : payment'[b] # payment[b] => life[b] # "ended"]_allVars
  BY HeldStep
<1>2. QED BY <1>1, PayInvariance, PTL DEF PaySpec, RecordedWhileHeld

\* With the transactions of the payments and the other requests around it, the key keeps its
\* promise: an effect is the row of a payment, and each answer is about the one remembered.
THEOREM PayKeepsPromise == PaySpec => KeyPromise
<1>1. KInv /\ Exact /\ [PayNext]_allVars => KInv' /\ Exact'
  <2>1. ASSUME Exact, sent' \in Nat, UNCHANGED <<now, row, effects, sess, answers, unsaved>>
        PROVE  Exact'
    BY <2>1, ExactKept
  <2>2. QED BY <2>1, KeyKept, KeyStepOrOther, NextExact
<1>2. KInv /\ Exact /\ [PayNext]_allVars => [Promise!Next]_(Promise!vars)
  BY KeyStepOrOther, PromiseStep DEF Promise!vars
<1>3. PayInit => KInv /\ Exact /\ Promise!Init
  BY InitInv, InitExact, PromiseInit DEF PayInit
<1>4. QED BY <1>1, <1>2, <1>3, PTL DEF PaySpec, KeyPromise, Promise!Spec

-----------------------------------------------------------------------------
(* The payment and those who end bookings keep out of each other's way.    *)

\* Two transactions are never on one booking.
RowsApart ==
  \A c, d \in Callers : c # d /\ tx[c].booking = tx[d].booking => tx[c].booking = NoBody

HeldBookings == {tx[c].booking : c \in Callers} \ {NoBody}
EndedBookings == {b \in Bodies : life[b] = "ended"}
RecordedBookings == {b \in Bodies : payment[b] # NoCharge}

\* What a step does to the transactions: one begins on a free row, one goes on with its
\* row, or one ends.
LEMMA TxSteps ==
  ASSUME PInv, [PayNext]_allVars
  PROVE  \/ tx' = tx
         \/ \E c \in Callers, b \in Bodies : Begin(c, b)
         \/ \E c \in Callers : CreateCharge(c)
         \/ \E c \in Callers : Ended(c)
BY DEF PayNext, allVars, payVars, KeyStep, AnswerCharge, NotPayable, ChargeFails, Throws, Record,
       RecordUnknown, Recorded, Conflict, CrashTx, LimitPasses, BookingEnds

\* The set of bookings held follows the transactions.
LEMMA HeldBegins ==
  ASSUME PInv, NEW c \in Callers, NEW b \in Bodies, Begin(c, b)
  PROVE  /\ HeldBookings' = HeldBookings \cup {b} /\ b \notin HeldBookings
         /\ tx'[c].booking = b /\ \A d \in Callers \ {c} : tx'[d] = tx[d]
<1>1. /\ tx[c] = NoTx /\ \A d \in Callers : tx[d].booking # b
      /\ tx' = [tx EXCEPT ![c] = [stage |-> "locked", booking |-> b, charge |-> NoCharge]]
      /\ tx \in [Callers -> Tx] /\ NoBody \notin Bodies
  BY NamesAssumption DEF Begin, RowFree, PInv, PayTypeOK
<1>2. tx'[c].booking = b /\ \A d \in Callers \ {c} : tx'[d] = tx[d]
  BY <1>1
<1>3. tx[c].booking = NoBody
  BY <1>1 DEF NoTx
<1>4. HeldBookings' = HeldBookings \cup {b} /\ b \notin HeldBookings
  BY <1>1, <1>2, <1>3 DEF HeldBookings
<1>5. QED BY <1>2, <1>4

LEMMA HeldCharges ==
  ASSUME PInv, NEW c \in Callers, CreateCharge(c)
  PROVE  HeldBookings' = HeldBookings /\ \A d \in Callers : tx'[d].booking = tx[d].booking
<1>1. tx \in [Callers -> Tx]
  BY DEF PInv, PayTypeOK
<1>2. \A d \in Callers : tx'[d].booking = tx[d].booking
  BY <1>1 DEF CreateCharge, Tx
<1>3. QED BY <1>2 DEF HeldBookings

LEMMA HeldEnds ==
  ASSUME PInv, RowsApart, NEW c \in Callers, Ended(c)
  PROVE  /\ HeldBookings' = HeldBookings \ {tx[c].booking}
         /\ tx'[c].booking = NoBody /\ \A d \in Callers \ {c} : tx'[d] = tx[d]
<1>1. /\ tx' = [tx EXCEPT ![c] = NoTx] /\ tx \in [Callers -> Tx] /\ NoBody \notin Bodies
      /\ \A d \in Callers : tx[d].booking \in Bodies \cup {NoBody}
  BY NamesAssumption DEF Ended, PInv, PayTypeOK, Tx
<1>2. tx'[c].booking = NoBody /\ \A d \in Callers \ {c} : tx'[d] = tx[d]
  BY <1>1 DEF NoTx
<1>3. \A d \in Callers \ {c} : tx[d].booking # NoBody => tx[d].booking # tx[c].booking
  BY <1>1 DEF RowsApart
<1>4. HeldBookings' = HeldBookings \ {tx[c].booking}
  BY <1>2, <1>3 DEF HeldBookings
<1>5. QED BY <1>2, <1>4

LEMMA ApartStep == PInv /\ RowsApart /\ [PayNext]_allVars => RowsApart'
<1> SUFFICES ASSUME PInv, RowsApart, [PayNext]_allVars PROVE RowsApart' OBVIOUS
<1>1. CASE tx' = tx
  BY <1>1 DEF RowsApart
<1>2. ASSUME NEW c \in Callers, NEW b \in Bodies, Begin(c, b) PROVE RowsApart'
  <2>1. \A d \in Callers : tx[d].booking # b
    BY <1>2 DEF Begin, RowFree
  <2>2. QED BY <1>2, <2>1, HeldBegins DEF RowsApart
<1>3. ASSUME NEW c \in Callers, CreateCharge(c) PROVE RowsApart'
  BY <1>3, HeldCharges DEF RowsApart
<1>4. ASSUME NEW c \in Callers, Ended(c) PROVE RowsApart'
  <2>1. NoBody \notin Bodies
    BY NamesAssumption
  <2>2. QED BY <1>4, <2>1, HeldEnds DEF RowsApart
<1>5. QED BY <1>1, <1>2, <1>3, <1>4, TxSteps

\* A transaction records its payment, or ends without.
LEMMA EndSteps ==
  ASSUME PInv, RowsApart, NEW c \in Callers, Ended(c), life' = life,
         payment' = payment \/ Recorded(c)
  PROVE  [Payable!Next]_(Payable!vars)
<1> PICK b \in Bodies \cup {NoBody} : b = tx[c].booking
  BY DEF PInv, PayTypeOK, Tx
<1>1. HeldBookings' = HeldBookings \ {b} /\ EndedBookings' = EndedBookings
  BY HeldEnds DEF EndedBookings
<1>2. b = NoBody => HeldBookings' = HeldBookings
  BY <1>1 DEF HeldBookings
<1>3. b \in Bodies => b \in HeldBookings
  BY NamesAssumption DEF HeldBookings
<1>4. CASE payment' = payment
  <2>1. RecordedBookings' = RecordedBookings
    BY <1>4 DEF RecordedBookings
  <2>2. CASE b \in Bodies
    <3>1. Payable!Release(b)
      BY <1>1, <1>3, <2>1, <2>2
      DEF Payable!Release, HeldBookings, EndedBookings, RecordedBookings
    <3>2. Payable!Next
      BY <2>2, <3>1 DEF Payable!Next
    <3>3. QED BY <3>2
  <2>3. CASE b = NoBody
    BY <1>1, <1>2, <2>1, <2>3 DEF Payable!vars, HeldBookings, EndedBookings, RecordedBookings
  <2>4. QED BY <2>2, <2>3
<1>5. CASE Recorded(c)
  <2>1. /\ payment[b] = NoCharge /\ payment' = [payment EXCEPT ![b] = tx[c].charge]
        /\ tx[c].stage = "charged"
    BY <1>5 DEF Recorded
  <2>2. /\ b \in Bodies /\ tx[c].charge \in Charges
        /\ payment \in [Bodies -> Charges \cup {NoCharge}]
    BY <2>1 DEF PInv, PayTypeOK, TxShape
  <2>3. RecordedBookings' = RecordedBookings \cup {b} /\ b \notin RecordedBookings
    BY <2>1, <2>2, PayNamesAssumption DEF RecordedBookings
  <2>4. Payable!Record(b, {})
    BY <1>1, <1>3, <2>2, <2>3
    DEF Payable!Record, HeldBookings, EndedBookings, RecordedBookings
  <2>5. Payable!Next
    BY <2>2, <2>4 DEF Payable!Next
  <2>6. QED BY <2>5
<1>6. QED BY <1>4, <1>5

LEMMA PayableStep == PInv /\ RowsApart /\ [PayNext]_allVars => [Payable!Next]_(Payable!vars)
<1> SUFFICES ASSUME PInv, RowsApart, [PayNext]_allVars
             PROVE  [Payable!Next]_(Payable!vars)
  OBVIOUS
<1> USE DEF HeldBookings, EndedBookings, RecordedBookings
<1>1. ASSUME UNCHANGED <<life, payment>>, HeldBookings' = HeldBookings
      PROVE  UNCHANGED Payable!vars
  BY <1>1 DEF Payable!vars
<1>2. ASSUME NEW c \in Callers, NEW b \in Bodies, Begin(c, b)
      PROVE  Payable!Next
  <2>1. life[b] = "open" /\ UNCHANGED <<life, payment>>
    BY <1>2 DEF Begin
  <2>2. HeldBookings' = HeldBookings \cup {b} /\ b \notin HeldBookings
    BY <1>2, HeldBegins
  <2>3. Payable!Begin(b)
    BY <2>1, <2>2 DEF Payable!Begin
  <2>4. QED BY <2>3 DEF Payable!Next
<1>3. ASSUME NEW c \in Callers, CreateCharge(c)
      PROVE  UNCHANGED Payable!vars
  BY <1>1, <1>3, HeldCharges DEF CreateCharge
<1>4. ASSUME NEW c \in Callers,
             ChargeFails(c) \/ Record(c) \/ RecordUnknown(c) \/ Conflict(c) \/ CrashTx(c)
      PROVE  [Payable!Next]_(Payable!vars)
  <2>1. Ended(c) /\ life' = life /\ (payment' = payment \/ Recorded(c))
    BY <1>4 DEF ChargeFails, Throws, Record, RecordUnknown, Recorded, Conflict, CrashTx
  <2>2. QED BY <2>1, EndSteps
<1>5. ASSUME NEW b \in Bodies, LimitPasses(b)
      PROVE  UNCHANGED Payable!vars
  <2>1. /\ \A c \in Bodies : life'[c] = "ended" <=> life[c] = "ended"
        /\ UNCHANGED <<payment, tx>>
    BY <1>5 DEF LimitPasses, PInv, PayTypeOK
  <2>2. QED BY <2>1 DEF Payable!vars
<1>6. ASSUME NEW b \in Bodies, BookingEnds(b)
      PROVE  Payable!Next
  <2>1. /\ EndedBookings' = EndedBookings \cup {b} /\ UNCHANGED <<payment, tx>>
        /\ b \notin HeldBookings
    BY <1>6 DEF BookingEnds, RowFree, PInv, PayTypeOK
  <2>2. Payable!End({b})
    BY <2>1 DEF Payable!End
  <2>3. QED BY <2>2 DEF Payable!Next
<1>7. ASSUME UNCHANGED payVars PROVE UNCHANGED Payable!vars
  BY <1>1, <1>7 DEF payVars
<1>8. ASSUME NEW s \in Sessions, AnswerCharge(s) PROVE UNCHANGED Payable!vars
  BY <1>1, <1>8 DEF AnswerCharge
<1>9. QED
  BY <1>2, <1>3, <1>4, <1>5, <1>6, <1>7, <1>8 DEF PayNext, allVars, KeyStep, NotPayable

\* For any number of requests, with and without the key: a payment holds its booking while
\* it calls the provider (createPendingPaymentForBooking, inside one transaction).
THEOREM PayHoldsBookings == PaySpec => PaymentsHold
<1>1. PayInit => RowsApart /\ Payable!Init
  BY NamesAssumption DEF PayInit, RowsApart, NoTx, Payable!Init
<1>2. QED BY <1>1, ApartStep, PayableStep, PayInvariance, PTL DEF PaySpec, PaymentsHold, Payable!Spec

\* The abstraction is enough: whatever implements it records the first payment of a booking
\* only while the booking is held by nobody else and has not ended.
THEOREM PayableSuffices ==
  PaymentsHold => [][\A b \in Bodies :
                       b \in RecordedBookings' \ RecordedBookings =>
                         b \in HeldBookings \ EndedBookings]_allVars
<1> DEFINE Open == HeldBookings \cap EndedBookings = {}
<1> USE DEF HeldBookings, EndedBookings, RecordedBookings
<1>1. Payable!Init => Open
  BY DEF Payable!Init
<1>2. Open /\ [Payable!Next]_(Payable!vars) => Open'
  BY DEF Payable!Next, Payable!vars, Payable!Begin, Payable!Release, Payable!Record, Payable!End
<1>3. Open /\ [Payable!Next]_(Payable!vars) =>
        [\A b \in Bodies : b \in RecordedBookings' \ RecordedBookings =>
                             b \in HeldBookings \ EndedBookings]_allVars
  <2>1. UNCHANGED Payable!vars => RecordedBookings' = RecordedBookings
    BY DEF Payable!vars
  <2>2. QED
    BY <2>1 DEF Payable!Next, Payable!Begin, Payable!Release, Payable!Record, Payable!End
<1>4. QED BY <1>1, <1>2, <1>3, PTL DEF PaymentsHold, Payable!Spec

=============================================================================
