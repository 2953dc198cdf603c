-------------------------- MODULE PayRenewalsProofs --------------------------
(* Theorems about PayRenewals, for any bookings, calendar and number of    *)
(* faults: what holds of every reachable state.                            *)
EXTENDS PayRenewals, SequenceTheorems, FiniteSetTheorems, TLAPS

USE DEF db, world, bill, cursor, ghosts, Resting, Working, NoBooking, Never

-----------------------------------------------------------------------------
(* The two ways a booking's renewals change                                *)

(* A renewal is added.                                                     *)
LEMMA Added ==
    ASSUME NEW R \in [Bookings -> Seq(Renewals)], NEW b \in Bookings, NEW e \in Renewals,
           NEW R2, R2 = [R EXCEPT ![b] = Append(@, e)]
    PROVE  /\ R2 \in [Bookings -> Seq(Renewals)]
           /\ Len(R2[b]) = Len(R[b]) + 1
           /\ R2[b][Len(R[b]) + 1] = e
           /\ \A i \in 1..Len(R[b]) : R2[b][i] = R[b][i]
           /\ \A c \in Bookings : c # b => R2[c] = R[c]
<1>1. /\ Append(R[b], e) \in Seq(Renewals)
      /\ Len(Append(R[b], e)) = Len(R[b]) + 1
      /\ \A i \in 1..Len(R[b]) : Append(R[b], e)[i] = R[b][i]
      /\ Append(R[b], e)[Len(R[b]) + 1] = e
  BY AppendProperties
<1>2. R2[b] = Append(R[b], e)
  OBVIOUS
<1> QED
  BY <1>1, <1>2

(* A renewal is replaced.                                                  *)
LEMMA Replaced ==
    ASSUME NEW R \in [Bookings -> Seq(Renewals)], NEW b \in Bookings,
           NEW i \in 1..Len(R[b]), NEW e \in Renewals,
           NEW R2, R2 = [R EXCEPT ![b][i] = e]
    PROVE  /\ R2 \in [Bookings -> Seq(Renewals)]
           /\ Len(R2[b]) = Len(R[b])
           /\ R2[b][i] = e
           /\ \A j \in 1..Len(R[b]) : j # i => R2[b][j] = R[b][j]
           /\ \A c \in Bookings : c # b => R2[c] = R[c]
<1>1. /\ [R[b] EXCEPT ![i] = e] \in Seq(Renewals)
      /\ Len([R[b] EXCEPT ![i] = e]) = Len(R[b])
      /\ \A j \in 1..Len(R[b]) : [R[b] EXCEPT ![i] = e][j] = IF j = i THEN e ELSE R[b][j]
  BY ExceptSeq
<1>2. R2[b] = [R[b] EXCEPT ![i] = e]
  OBVIOUS
<1> QED
  BY <1>1, <1>2

-----------------------------------------------------------------------------
(* Where the job is and what its variables are then                        *)

Billing == {"opened", "charged", "written", "record", "refund", "undo", "note"}

Shape ==
    /\ pc \in Billing \cup {"looking"} => at \in Bookings
    /\ pc = "looking" => row <= Len(rows[at]) + 1
    /\ pc \notin Billing => ~fresh /\ ~charged /\ ~committing
    /\ pc \in {"charged", "written"} => charged
    /\ charged => pc \in {"charged", "written", "record", "refund"}
    /\ committing => pc \in {"record", "refund", "undo"}
    /\ pc = "record" => fresh
    /\ pc = "note" => ~fresh

(* The old renewal that is billed again.                                   *)
OldRow ==
    pc \in Billing /\ ~fresh =>
        /\ row \in 1..Len(rows[at])
        /\ rows[at][row].month = month
        /\ committing \/ rows[at][row].status = "FAILED"

Adds(e) == e \in Renewals /\ rows' = [rows EXCEPT ![at] = Append(@, e)]
Replaces(e) == e \in Renewals /\ rows' = [rows EXCEPT ![at][row] = e]

(* A renewal the job writes is one.                                        *)
LEMMA RenewalType ==
    ASSUME TypeOK, NEW s \in {"PAID", "FAILED"}, NEW d \in Nat \cup {Never}
    PROVE  /\ Renewal(s, d) \in Renewals
           /\ Renewal(s, d).month = month
           /\ Renewal(s, d).status = s
           /\ Renewal(s, d).last = d
BY DEF TypeOK, Renewal, Renewals

(* How a step may change the renewals.                                     *)
RowsKept == UNCHANGED <<rows, transactions, unheard>>

Books ==
    /\ pc = "written"
    /\ transactions' = Once(transactions)
    /\ unheard' \in {unheard, Once(unheard)}
    /\ unheard' = unheard => fresh' = FALSE /\ ~charged' /\ pc' \in {"looking", "choosing"}
    /\ IF fresh THEN Adds(Renewal("PAID", Never)) ELSE Replaces(Renewal("PAID", today))

Fails ==
    /\ pc = "record"
    /\ UNCHANGED <<transactions, unheard>>
    /\ Adds(Renewal("FAILED", today))

Notes ==
    /\ pc = "note"
    /\ UNCHANGED <<transactions, unheard>>
    /\ Replaces([rows[at][row] EXCEPT !.last = today])

(* Every step is one of these.                                             *)
LEMMA RowSteps ==
    ASSUME TypeOK, Shape, OldRow, [Next]_vars
    PROVE  RowsKept \/ Books \/ Fails \/ Notes
<1>0. /\ Renewal("PAID", Never) \in Renewals
      /\ Renewal("PAID", today) \in Renewals
      /\ Renewal("FAILED", today) \in Renewals
  BY RenewalType DEF TypeOK
<1>1. CASE Commit
  BY <1>0, <1>1 DEF Commit, Booked, PaidRows, BookedTransactions, Books, Adds, Replaces,
     Onward, NoBill
<1>2. CASE CommitFails
  <2>1. Once(unheard)[at][month] # unheard[at][month]
    <3>1. at \in Bookings /\ month \in Months
      BY <1>2 DEF CommitFails, Shape, Billing, TypeOK
    <3>2. unheard[at][month] \in Nat
      BY <3>1 DEF TypeOK
    <3>3. Once(unheard)[at][month] = unheard[at][month] + 1
      BY <3>1 DEF Once, TypeOK
    <3> QED
      BY <3>2, <3>3
  <2>2. Once(unheard) # unheard
    BY <2>1
  <2> QED
    BY <1>0, <1>2, <2>2 DEF CommitFails, Booked, PaidRows, BookedTransactions, Books, Adds,
       Replaces, RowsKept
<1>3. CASE Record
  BY <1>0, <1>3 DEF Record, Recorded, Goto, Fails, Adds
<1>4. CASE RecordBreaks
  BY <1>0, <1>4 DEF RecordBreaks, Recorded, RowsKept, Fails, Adds
<1>5. CASE Note
  <2>1. rows[at][row] \in Renewals
    BY <1>5 DEF Note, TypeOK, Shape, OldRow, Billing
  <2>2. [rows[at][row] EXCEPT !.last = today] \in Renewals
    BY <2>1 DEF Renewals, TypeOK
  <2> QED
    BY <1>5, <2>2 DEF Note, Notes, Replaces
<1>6. CASE ~(Commit \/ CommitFails \/ Record \/ RecordBreaks \/ Note)
  BY <1>6 DEF Next, vars, RowsKept, RunSteps, Mishaps, NextRun, Restart, Read, Close, Choose,
     SkipRow, OpenRetry, NothingDue, OpenNew, Decline, Charge, Write, Refund, Undo,
     UndoThrows, Killed, ReadFails, OpenFails, ChargeUnheard, WriteFails, RecordFails,
     RefundFails, TidyFails, RequestTermination
<1> QED
  BY <1>1, <1>2, <1>3, <1>4, <1>5, <1>6

(* What the changes have in common: a booking's renewals only grow and     *)
(* keep their months.                                                      *)
Grow ==
    /\ rows' \in [Bookings -> Seq(Renewals)]
    /\ \A b \in Bookings :
        /\ Len(rows'[b]) >= Len(rows[b])
        /\ \A i \in 1..Len(rows[b]) : rows'[b][i].month = rows[b][i].month

(* Every step is such a change.                                            *)
LEMMA RowsGrow ==
    ASSUME TypeOK, Shape, OldRow, [Next]_vars
    PROVE  Grow
<1>0. rows \in [Bookings -> Seq(Renewals)]
  BY DEF TypeOK
<1>1. CASE RowsKept
  BY <1>0, <1>1 DEF RowsKept, Grow
<1>2. ASSUME NEW e, Adds(e), at \in Bookings
      PROVE  Grow
  <2>1. /\ rows' \in [Bookings -> Seq(Renewals)]
        /\ Len(rows'[at]) = Len(rows[at]) + 1
        /\ \A i \in 1..Len(rows[at]) : rows'[at][i] = rows[at][i]
        /\ \A c \in Bookings : c # at => rows'[c] = rows[c]
    BY <1>0, <1>2, Added DEF Adds
  <2> QED
    BY <1>0, <2>1 DEF Grow
<1>3. ASSUME NEW e, Replaces(e), at \in Bookings, row \in 1..Len(rows[at]),
             e.month = rows[at][row].month
      PROVE  Grow
  <2>1. /\ rows' \in [Bookings -> Seq(Renewals)]
        /\ Len(rows'[at]) = Len(rows[at])
        /\ rows'[at][row] = e
        /\ \A j \in 1..Len(rows[at]) : j # row => rows'[at][j] = rows[at][j]
        /\ \A c \in Bookings : c # at => rows'[c] = rows[c]
    BY <1>0, <1>3, Replaced DEF Replaces
  <2>2. ASSUME NEW i \in 1..Len(rows[at])
        PROVE  rows'[at][i].month = rows[at][i].month
    <3>1. CASE i = row
      BY <1>3, <2>1, <3>1
    <3>2. CASE i # row
      BY <2>1, <3>2
    <3> QED
      BY <3>1, <3>2
  <2>3. \A c \in Bookings : Len(rows[c]) \in Nat
    BY <1>0
  <2>4. ASSUME NEW c \in Bookings
        PROVE  /\ Len(rows'[c]) >= Len(rows[c])
               /\ \A i \in 1..Len(rows[c]) : rows'[c][i].month = rows[c][i].month
    <3>1. CASE c = at
      BY <2>1, <2>2, <2>3, <3>1
    <3>2. CASE c # at
      BY <2>1, <2>3, <3>2
    <3> QED
      BY <3>1, <3>2
  <2> QED
    BY <2>1, <2>4 DEF Grow
<1>4. CASE Books
  <2>1. at \in Bookings
    BY <1>4 DEF Books, Shape, Billing
  <2>2. CASE fresh
    BY <1>2, <1>4, <2>1, <2>2 DEF Books
  <2>3. CASE ~fresh
    <3>1. row \in 1..Len(rows[at]) /\ rows[at][row].month = month
      BY <1>4, <2>3 DEF Books, OldRow, Billing
    <3>2. Renewal("PAID", today).month = month
      BY DEF Renewal
    <3> QED
      BY <1>3, <1>4, <2>1, <2>3, <3>1, <3>2 DEF Books
  <2> QED
    BY <2>2, <2>3
<1>5. CASE Fails
  BY <1>2, <1>5 DEF Fails, Shape, Billing
<1>6. CASE Notes
  <2>1. at \in Bookings /\ row \in 1..Len(rows[at])
    BY <1>6 DEF Notes, Shape, OldRow, Billing
  <2>2. rows[at][row] \in Renewals
    BY <1>0, <2>1
  <2>3. [rows[at][row] EXCEPT !.last = today].month = rows[at][row].month
    BY <2>2 DEF Renewals
  <2> QED
    BY <1>3, <1>6, <2>1, <2>3 DEF Notes
<1> QED
  BY <1>1, <1>4, <1>5, <1>6, RowSteps

(* Types                                                                   *)

OtherTypes ==
    /\ transactions \in [Bookings -> [Months -> Nat]]
    /\ requested \subseteq Bookings
    /\ dues \in [Bookings -> SUBSET (Nat \ {0})]
    /\ pc \in Resting \cup Working
    /\ todo \subseteq Bookings
    /\ at \in Bookings \cup {NoBooking}
    /\ row \in Nat \ {0}
    /\ fresh \in BOOLEAN
    /\ month \in Months
    /\ charged \in BOOLEAN
    /\ committing \in BOOLEAN
    /\ today \in Nat
    /\ faults \in Nat
    /\ stray \in [Bookings -> [Months -> Nat]]
    /\ unheard \in [Bookings -> [Months -> Nat]]

(* What Once changes.                                                      *)
LEMMA OnceType ==
    ASSUME NEW f \in [Bookings -> [Months -> Nat]], at \in Bookings, month \in Months
    PROVE  /\ Once(f) \in [Bookings -> [Months -> Nat]]
           /\ Once(f)[at][month] = f[at][month] + 1
           /\ \A b \in Bookings, m \in Months :
                b # at \/ m # month => Once(f)[b][m] = f[b][m]
BY DEF Once

(* The values a run leaves behind that rests, ...                          *)
LEMMA RestTypes ==
    ASSUME NEW how, Rest(how)
    PROVE  /\ pc' = how
           /\ todo' = {} /\ at' = NoBooking /\ row' = 1
           /\ todo' \subseteq Bookings
           /\ at' \in Bookings \cup {NoBooking}
           /\ row' \in Nat \ {0}
           /\ fresh' = FALSE /\ charged' = FALSE /\ committing' = FALSE
           /\ month' \in Months
BY CalendarAssumption DEF Rest, NoBill, Months

(* ... and one that goes on.                                               *)
LEMMA OnwardTypes ==
    ASSUME TypeOK, Onward
    PROVE  /\ pc' \in {"choosing", "looking"}
           /\ todo' \subseteq Bookings
           /\ at' \in Bookings \cup {NoBooking}
           /\ row' \in Nat \ {0}
           /\ fresh' = FALSE /\ charged' = FALSE /\ committing' = FALSE
           /\ month' \in Months
BY CalendarAssumption DEF Onward, NoBill, TypeOK, Months

(* Every step keeps the types of all but the renewals and what is kept.    *)
LEMMA NextKeepsTypes ==
    ASSUME TypeOK, Shape, OldRow, Next
    PROVE  OtherTypes'
<1> USE DEF TypeOK, OtherTypes
<1>i. 1 \in Months
  BY CalendarAssumption DEF Months
<1>m. Mishap => faults' \in Nat
  BY DEF Mishap
<1>0. /\ pc \in Billing => at \in Bookings
      /\ at \in Bookings => /\ Once(stray) \in [Bookings -> [Months -> Nat]]
                            /\ Once(unheard) \in [Bookings -> [Months -> Nat]]
                            /\ Once(transactions) \in [Bookings -> [Months -> Nat]]
  BY OnceType DEF Shape
<1>l. LosesCharge => stray' \in [Bookings -> [Months -> Nat]]
  BY <1>0 DEF LosesCharge, Shape, Billing
<1>1. CASE NextRun
  BY <1>1 DEF NextRun
<1>2. CASE Restart
  BY <1>0, <1>i, <1>2 DEF Restart, Goto
<1>3. CASE Read
  BY <1>0, <1>i, <1>3 DEF Read, Goto, Listed
<1>4. CASE ReadFails
  BY <1>m, RestTypes, <1>4 DEF ReadFails
<1>5. CASE Close
  BY RestTypes, <1>5 DEF Close
<1>6. CASE Killed
  BY <1>m, <1>l, RestTypes, <1>6 DEF Killed
<1>7. CASE SkipRow
  BY <1>0, <1>i, <1>7, SMTT(30) DEF SkipRow
<1>8. CASE NothingDue
  BY <1>0, <1>i, <1>8 DEF NothingDue, Goto
<1>9. CASE OpenNew
  BY <1>0, <1>i, <1>9 DEF OpenNew, Goto, Due
<1>10. CASE OpenFails
  BY <1>m, RestTypes, <1>10 DEF OpenFails
<1>11. CASE Decline
  BY <1>0, <1>i, <1>11 DEF Decline, Catch
<1>12. CASE Charge
  BY <1>0, <1>i, <1>12 DEF Charge, Goto
<1>13. CASE Write
  BY <1>0, <1>i, <1>13 DEF Write, Goto
<1>14. CASE WriteFails
  BY <1>m, <1>0, <1>i, <1>14 DEF WriteFails, Catch
<1>15. CASE ChargeUnheard
  BY <1>m, <1>0, <1>i, <1>15 DEF ChargeUnheard, Catch, Billing
<1>16. CASE Commit
  BY <1>0, <1>i, OnwardTypes, <1>16 DEF Commit, Booked, BookedTransactions, Billing
<1>17. CASE CommitFails
  BY <1>m, <1>0, <1>i, <1>17 DEF CommitFails, Booked, BookedTransactions, Catch, Billing
<1>18. CASE Record
  BY <1>0, <1>i, <1>18 DEF Record, Goto
<1>19. CASE RecordFails
  BY <1>m, <1>0, <1>i, <1>19 DEF RecordFails, Goto
<1>20. CASE RecordBreaks
  BY <1>m, <1>l, RestTypes, <1>20 DEF RecordBreaks
<1>21. CASE Refund
  BY <1>0, <1>i, <1>21 DEF Refund, Goto
<1>22. CASE RefundFails
  <2>1. stray' \in [Bookings -> [Months -> Nat]]
    BY <1>0, <1>22 DEF RefundFails, Billing
  <2> QED
    BY <1>m, RestTypes, <1>22, <2>1 DEF RefundFails
<1>23. CASE Undo
  BY <1>0, OnwardTypes, <1>23 DEF Undo
<1>24. CASE UndoThrows
  BY RestTypes, <1>24 DEF UndoThrows
<1>25. CASE Note
  BY <1>0, <1>i, OnwardTypes, <1>25 DEF Note
<1>26. CASE TidyFails
  BY <1>m, RestTypes, <1>26 DEF TidyFails
<1>27. CASE \E b \in todo : Choose(b)
  BY <1>27 DEF Choose, Goto
<1>28. CASE OpenRetry
  <2>1. rows[at][row] \in Renewals
    BY <1>28 DEF OpenRetry, Goto, Shape
  <2> QED
    BY <1>28, <2>1 DEF OpenRetry, Goto, Renewals
<1>29. CASE \E b \in Bookings : RequestTermination(b)
  <2>1. PICK b \in Bookings : RequestTermination(b)
    BY <1>29
  <2>2. DOMAIN rows[b] = 1..Len(rows[b])
    OBVIOUS
  <2> QED
    BY <2>1, <2>2 DEF RequestTermination
<1> QED
  BY <1>1, <1>2, <1>3, <1>4, <1>5, <1>6, <1>7, <1>8, <1>9, <1>10, <1>11, <1>12,
     <1>13, <1>14, <1>15, <1>16, <1>17, <1>18, <1>19, <1>20, <1>21, <1>22, <1>23,
     <1>24, <1>25, <1>26, <1>27, <1>28, <1>29 DEF Next, RunSteps, Mishaps

(* A run that rests is in shape.                                           *)
LEMMA RestShape ==
    ASSUME NEW how \in Resting, Rest(how)
    PROVE  Shape'
BY DEF Rest, NoBill, Shape, Billing

(* Every step keeps Shape.                                                 *)
LEMMA NextKeepsShape ==
    ASSUME TypeOK, Shape, OldRow, Next
    PROVE  Shape'
<1> USE DEF TypeOK, Shape, Billing
<1>g. \A b \in Bookings :
        /\ Len(rows[b]) \in Nat
        /\ Len(rows'[b]) \in Nat
        /\ Len(rows'[b]) >= Len(rows[b])
  BY RowsGrow, SMTT(30) DEF Grow
<1>1. CASE NextRun
  BY <1>1 DEF NextRun
<1>2. CASE Restart
  BY <1>2 DEF Restart, Goto
<1>3. CASE Read
  BY <1>3 DEF Read, Goto
<1>4. CASE ReadFails
  BY RestShape, <1>4 DEF ReadFails
<1>5. CASE Close
  BY RestShape, <1>5 DEF Close
<1>6. CASE Killed
  BY RestShape, <1>6 DEF Killed
<1>7. CASE SkipRow
  BY <1>g, <1>7 DEF SkipRow
<1>8. CASE NothingDue
  BY <1>8 DEF NothingDue, Goto
<1>9. CASE OpenRetry
  BY <1>9 DEF OpenRetry, Goto
<1>10. CASE OpenNew
  BY <1>10 DEF OpenNew, Goto
<1>11. CASE OpenFails
  BY RestShape, <1>11 DEF OpenFails
<1>12. CASE Decline
  BY <1>12 DEF Decline, Catch
<1>13. CASE Charge
  BY <1>13 DEF Charge, Goto
<1>14. CASE ChargeUnheard
  BY <1>14 DEF ChargeUnheard, Catch
<1>15. CASE Write
  BY <1>15 DEF Write, Goto
<1>16. CASE WriteFails
  BY <1>16 DEF WriteFails, Catch
<1>17. CASE CommitFails
  BY <1>17 DEF CommitFails, Catch
<1>18. CASE Record
  BY <1>18 DEF Record, Goto
<1>19. CASE RecordFails
  BY <1>19 DEF RecordFails, Goto
<1>20. CASE RecordBreaks
  BY RestShape, <1>20 DEF RecordBreaks
<1>21. CASE Refund
  BY <1>21 DEF Refund, Goto
<1>22. CASE RefundFails
  BY RestShape, <1>22 DEF RefundFails
<1>23. CASE UndoThrows
  BY RestShape, <1>23 DEF UndoThrows
<1>24. CASE TidyFails
  BY RestShape, <1>24 DEF TidyFails
<1>25. CASE \E b \in todo : Choose(b)
  <2>1. \A b \in Bookings : 1 <= Len(rows'[b]) + 1
    BY <1>g
  <2> QED
    BY <1>25, <2>1 DEF Choose, Goto
<1>26. CASE Commit
  <2>1. /\ fresh' = FALSE /\ charged' = FALSE /\ committing' = FALSE
        /\ pc' \in {"choosing", "looking"}
        /\ at' = at
        /\ pc' = "looking" => ~fresh /\ row' = row + 1
    BY <1>26 DEF Commit, Onward, NoBill
  <2>2. pc' = "looking" => row' <= Len(rows'[at]) + 1
    BY <1>g, <2>1, <1>26 DEF OldRow, Billing, Commit
  <2> QED
    BY <2>1, <2>2, <1>26 DEF Commit
<1>27. CASE Undo
  <2>1. CASE fresh
    BY <1>27, <2>1 DEF Undo, Onward, NoBill
  <2>2. CASE ~fresh
    BY <1>27, <2>2 DEF Undo
  <2> QED
    BY <2>1, <2>2
<1>28. CASE Note
  <2>1. /\ fresh' = FALSE /\ charged' = FALSE /\ committing' = FALSE
        /\ pc' \in {"choosing", "looking"}
        /\ at' = at
        /\ pc' = "looking" => ~fresh /\ row' = row + 1
    BY <1>28 DEF Note, Onward, NoBill
  <2>2. pc' = "looking" => row' <= Len(rows'[at]) + 1
    BY <1>g, <2>1, <1>28 DEF OldRow, Billing, Note
  <2> QED
    BY <2>1, <2>2, <1>28 DEF Note
<1>29. CASE \E b \in Bookings : RequestTermination(b)
  BY <1>29 DEF RequestTermination
<1> QED
  BY <1>1, <1>2, <1>3, <1>4, <1>5, <1>6, <1>7, <1>8, <1>9, <1>10, <1>11,
     <1>12, <1>13, <1>14, <1>15, <1>16, <1>17, <1>18, <1>19, <1>20, <1>21,
     <1>22, <1>23, <1>24, <1>25, <1>26, <1>27, <1>28, <1>29 DEF Next, RunSteps, Mishaps

(* It bills no old renewal, ...                                            *)
LEMMA RestOldRow ==
    ASSUME NEW how \in Resting, Rest(how)
    PROVE  OldRow'
BY DEF Rest, OldRow, Billing

(* Every step keeps OldRow.                                                *)
LEMMA NextKeepsOldRow ==
    ASSUME TypeOK, Shape, OldRow, Next
    PROVE  OldRow'
<1> USE DEF OldRow, Billing
<1>g. Grow
  BY RowsGrow
<1>1. CASE NextRun
  BY <1>1 DEF NextRun
<1>2. CASE Restart
  BY <1>2 DEF Restart, Goto
<1>3. CASE Read
  BY <1>3 DEF Read, Goto
<1>4. CASE ReadFails
  BY RestOldRow, <1>4 DEF ReadFails
<1>5. CASE Close
  BY RestOldRow, <1>5 DEF Close
<1>6. CASE Killed
  BY RestOldRow, <1>6 DEF Killed
<1>7. CASE SkipRow
  BY <1>7 DEF SkipRow
<1>8. CASE NothingDue
  BY <1>8 DEF NothingDue, Goto
<1>9. CASE OpenNew
  BY <1>9 DEF OpenNew, Goto
<1>10. CASE OpenFails
  BY RestOldRow, <1>10 DEF OpenFails
<1>11. CASE Decline
  BY <1>11 DEF Decline, Catch
<1>12. CASE Charge
  BY <1>12 DEF Charge, Goto
<1>13. CASE ChargeUnheard
  BY <1>13 DEF ChargeUnheard, Catch
<1>14. CASE Write
  BY <1>14 DEF Write, Goto
<1>15. CASE WriteFails
  BY <1>15 DEF WriteFails, Catch
<1>16. CASE Record
  BY <1>16 DEF Record, Goto, Shape
<1>17. CASE RecordFails
  BY <1>17 DEF RecordFails, Goto, Shape
<1>18. CASE RecordBreaks
  BY RestOldRow, <1>18 DEF RecordBreaks
<1>19. CASE Refund
  BY <1>19 DEF Refund, Goto
<1>20. CASE RefundFails
  BY RestOldRow, <1>20 DEF RefundFails
<1>21. CASE UndoThrows
  BY RestOldRow, <1>21 DEF UndoThrows
<1>22. CASE TidyFails
  BY RestOldRow, <1>22 DEF TidyFails
<1>23. CASE \E b \in todo : Choose(b)
  BY <1>23 DEF Choose, Goto
<1>24. CASE OpenRetry
  <2>1. rows[at][row] \in Renewals /\ row \in 1..Len(rows[at])
    BY <1>24 DEF OpenRetry, Goto, Shape, TypeOK
  <2> QED
    BY <1>24, <2>1 DEF OpenRetry, Goto, MayRetry, Renewals
<1>25. CASE Commit
  BY <1>25 DEF Commit, Onward, NoBill
<1>26. CASE CommitFails
  <2>1. ASSUME ~fresh
        PROVE  row \in 1..Len(rows'[at]) /\ rows'[at][row].month = month
    <3>1. row \in 1..Len(rows[at]) /\ rows[at][row].month = month /\ at \in Bookings
      BY <1>26, <2>1 DEF CommitFails, Shape
    <3>2. Len(rows[at]) \in Nat /\ Len(rows'[at]) \in Nat
      BY <1>g, <3>1 DEF Grow, TypeOK
    <3> QED
      BY <1>g, <3>1, <3>2 DEF Grow
  <2> QED
    BY <1>26, <2>1 DEF CommitFails
<1>27. CASE Undo
  BY <1>27 DEF Undo, Onward, NoBill
<1>28. CASE Note
  BY <1>28 DEF Note, Onward, NoBill
<1>29. CASE \E b \in Bookings : RequestTermination(b)
  BY <1>29 DEF RequestTermination
<1> QED
  BY <1>1, <1>2, <1>3, <1>4, <1>5, <1>6, <1>7, <1>8, <1>9, <1>10, <1>11,
     <1>12, <1>13, <1>14, <1>15, <1>16, <1>17, <1>18, <1>19, <1>20, <1>21,
     <1>22, <1>23, <1>24, <1>25, <1>26, <1>27, <1>28, <1>29 DEF Next, RunSteps, Mishaps

-----------------------------------------------------------------------------
(* The order of a booking's renewals                                       *)

Ordered ==
    \A b \in Bookings : \A i, j \in 1..Len(rows[b]) :
        i <= j => rows[b][i].month <= rows[b][j].month

OneFailed ==
    \A b \in Bookings : \A i, j \in 1..Len(rows[b]) :
        /\ rows[b][i].status = "FAILED"
        /\ rows[b][j].status = "FAILED"
        /\ rows[b][i].month = rows[b][j].month
        => i = j

RowsInv == MonthsInOrder /\ NoMonthAfterMoveOut /\ Ordered /\ OneFailed

(* The month of a new renewal: the one after the latest, or the latest     *)
(* itself when its COMMIT was applied unheard.                             *)
Again(b, m) ==
    /\ LatestRow(b).month = m
    /\ LatestRow(b).status = "PAID"
    /\ \A i \in 1..Len(rows[b]) : rows[b][i].month = m => rows[b][i].status = "PAID"

NewRow ==
    pc \in {"opened", "charged", "written", "record"} /\ fresh =>
        /\ at \notin OpenEnded => StartDay(month) <= MoveOut[at]
        /\ \/ month = LatestRow(at).month + 1
           \/ pc = "record" /\ Again(at, month) /\ unheard[at][month] > 0

(* MonthsInOrder, a booking and two renewals at a time.                    *)
Follows(this, that, u) ==
    \/ that.month = this.month + 1
    \/ /\ that.month = this.month
       /\ this.status = "PAID"
       /\ u[this.month] > 0

InOrder(s, u) ==
    /\ s[1].month = 1
    /\ \A i \in 1..(Len(s) - 1) : Follows(s[i], s[i + 1], u)

(* MonthsInOrder, restated so.                                             *)
LEMMA RowsInOrder ==
    /\ MonthsInOrder <=> \A b \in Bookings : InOrder(rows[b], unheard[b])
    /\ MonthsInOrder' <=> \A b \in Bookings : InOrder(rows'[b], unheard'[b])
BY DEF MonthsInOrder, InOrder, Follows

(* unheard only grows.                                                     *)
UnheardGrows ==
    \A b \in Bookings, m \in Months :
        unheard'[b][m] \in Nat /\ unheard'[b][m] >= unheard[b][m]

(* Every step does so.                                                     *)
LEMMA UnheardOnlyGrows ==
    ASSUME TypeOK, Shape, OldRow, Next
    PROVE  UnheardGrows
<1>1. CASE unheard' = unheard
  <2>1. \A b \in Bookings, m \in Months : unheard[b][m] \in Nat
    BY DEF TypeOK
  <2> QED
    BY <1>1, <2>1 DEF UnheardGrows
<1>2. CASE Books /\ unheard' = Once(unheard)
  <2>1. at \in Bookings /\ month \in Months /\ unheard \in [Bookings -> [Months -> Nat]]
    BY <1>2 DEF Books, Shape, Billing, TypeOK
  <2>2. /\ unheard'[at][month] = unheard[at][month] + 1
        /\ \A b \in Bookings, m \in Months :
            b # at \/ m # month => unheard'[b][m] = unheard[b][m]
    BY <1>2, <2>1, OnceType
  <2>3. \A b \in Bookings, m \in Months : unheard[b][m] \in Nat
    BY <2>1
  <2> QED
    BY <2>1, <2>2, <2>3 DEF UnheardGrows
<1> QED
  BY <1>1, <1>2, RowSteps DEF RowsKept, Books, Fails, Notes

(* What the elements of a sequence of renewals are.                        *)
LEMMA RowFacts ==
    ASSUME NEW R \in [Bookings -> Seq(Renewals)], NEW b \in Bookings
    PROVE  /\ Len(R[b]) \in Nat
           /\ DOMAIN R[b] = 1..Len(R[b])
           /\ \A i \in 1..Len(R[b]) :
                /\ R[b][i] \in Renewals
                /\ R[b][i].month \in Nat
                /\ R[b][i].status \in {"PAID", "FAILED"}
<1>1. R[b] \in Seq(Renewals)
  OBVIOUS
<1>2. /\ Len(R[b]) \in Nat
      /\ DOMAIN R[b] = 1..Len(R[b])
      /\ \A i \in 1..Len(R[b]) : R[b][i] \in Renewals
  BY <1>1
<1>3. \A e \in Renewals : e.month \in Nat /\ e.status \in {"PAID", "FAILED"}
  BY CalendarAssumption DEF Renewals, Months
<1> QED
  BY <1>2, <1>3

(* unheard does not matter once it is positive.                            *)
LEMMA FollowsStays ==
    ASSUME TypeOK, UnheardGrows, NEW b \in Bookings, NEW i \in 1..Len(rows[b]), NEW that,
           Follows(rows[b][i], that, unheard[b])
    PROVE  Follows(rows[b][i], that, unheard'[b])
<1>1. rows[b][i].month \in Months
  BY RowFacts DEF TypeOK, Renewals
<1>2. /\ unheard[b][rows[b][i].month] \in Nat
      /\ unheard'[b][rows[b][i].month] \in Nat
      /\ unheard'[b][rows[b][i].month] >= unheard[b][rows[b][i].month]
  BY <1>1, SMTT(30) DEF TypeOK, UnheardGrows
<1>3. unheard[b][rows[b][i].month] > 0 => unheard'[b][rows[b][i].month] > 0
  BY <1>2
<1> QED
  BY <1>3 DEF Follows

(* A renewal of the next month, or a FAILED one after an unheard COMMIT,   *)
(* keeps RowsInv.                                                          *)
LEMMA AddKeepsRows ==
    ASSUME TypeOK, RowsInv, UnheardGrows, at \in Bookings,
           NEW e, Adds(e),
           at \notin OpenEnded => StartDay(e.month) <= MoveOut[at],
           \/ e.month = LatestRow(at).month + 1
           \/ Again(at, e.month) /\ unheard'[at][e.month] > 0
    PROVE  RowsInv'
<1> DEFINE n == Len(rows[at])
<1>0. rows \in [Bookings -> Seq(Renewals)]
  BY DEF TypeOK
<1>1. /\ rows' \in [Bookings -> Seq(Renewals)]
      /\ Len(rows'[at]) = n + 1
      /\ rows'[at][n + 1] = e
      /\ \A i \in 1..n : rows'[at][i] = rows[at][i]
      /\ \A c \in Bookings : c # at => rows'[c] = rows[c]
  BY <1>0, Added DEF Adds
<1>2. n \in Nat \ {0} /\ rows[at][n] = LatestRow(at)
  BY <1>0, RowFacts DEF TypeOK, LatestRow
<1>3. /\ \A i \in 1..n : rows[at][i].month \in Nat /\ rows[at][i].month <= rows[at][n].month
      /\ e.month \in Nat
      /\ \A i \in 1..n : rows[at][i].month <= e.month
  <2>1. \A i \in 1..n : rows[at][i].month \in Nat
    BY <1>0, RowFacts
  <2>2. n \in 1..n
    BY <1>2
  <2>3. \A i \in 1..n : rows[at][i].month <= rows[at][n].month
    BY <1>2, <2>2 DEF RowsInv, Ordered
  <2>4. e.month = rows[at][n].month \/ e.month = rows[at][n].month + 1
    BY <1>2 DEF Again
  <2>5. /\ rows[at][n].month \in Nat
        /\ e.month \in Nat
        /\ rows[at][n].month <= e.month
    BY <2>1, <2>2, <2>4
  <2> QED
    BY <2>1, <2>3, <2>5
<1>4. MonthsInOrder'
  <2>1. ASSUME NEW b \in Bookings, b # at
        PROVE  InOrder(rows'[b], unheard'[b])
    <3>1. InOrder(rows[b], unheard[b]) /\ rows'[b] = rows[b]
      BY <1>1, <2>1, RowsInOrder DEF RowsInv
    <3>2. ASSUME NEW i \in 1..(Len(rows[b]) - 1)
          PROVE  Follows(rows[b][i], rows[b][i + 1], unheard'[b])
      <4>1. Len(rows[b]) \in Nat
        BY <1>0, RowFacts
      <4>2. i \in 1..Len(rows[b])
        BY <3>2, <4>1
      <4> QED
        BY <3>1, <3>2, <4>2, FollowsStays DEF InOrder
    <3> QED
      BY <3>1, <3>2 DEF InOrder
  <2>2. InOrder(rows'[at], unheard'[at])
    <3>1. rows'[at][1].month = 1
      BY <1>1, <1>2 DEF RowsInv, MonthsInOrder
    <3>2. ASSUME NEW i \in 1..n
          PROVE  Follows(rows'[at][i], rows'[at][i + 1], unheard'[at])
      <4>1. CASE i < n
        <5>1. i \in 1..(n - 1) /\ i \in 1..n /\ i + 1 \in 1..n
          BY <1>2, <4>1
        <5>2. Follows(rows[at][i], rows[at][i + 1], unheard[at])
          BY <5>1, RowsInOrder DEF RowsInv, InOrder
        <5> QED
          BY <1>0, <1>1, <5>1, <5>2, FollowsStays
      <4>2. CASE i = n
        BY <1>1, <1>2, <4>2 DEF Follows, Again
      <4> QED
        BY <1>2, <4>1, <4>2
    <3> QED
      BY <1>1, <1>2, <3>1, <3>2 DEF InOrder
  <2> QED
    BY <2>1, <2>2, RowsInOrder
<1>5. NoMonthAfterMoveOut'
  <2>1. ASSUME NEW b \in Bookings \ OpenEnded, NEW i \in DOMAIN rows'[b]
        PROVE  StartDay(rows'[b][i].month) <= MoveOut[b]
    <3>1. DOMAIN rows[b] = 1..Len(rows[b]) /\ DOMAIN rows'[b] = 1..Len(rows'[b])
      BY <1>0, <1>1, RowFacts
    <3>2. CASE b # at
      BY <1>1, <2>1, <3>1, <3>2 DEF RowsInv, NoMonthAfterMoveOut
    <3>3. CASE b = at /\ i \in 1..n
      BY <1>1, <2>1, <3>1, <3>3 DEF RowsInv, NoMonthAfterMoveOut
    <3>4. CASE b = at /\ i = n + 1
      BY <1>1, <2>1, <3>4
    <3> QED
      BY <1>1, <1>2, <2>1, <3>1, <3>2, <3>3, <3>4
  <2> QED
    BY <2>1 DEF NoMonthAfterMoveOut
<1>6. Ordered'
  <2>1. \A i, j \in 1..(n + 1) : i <= j => rows'[at][i].month <= rows'[at][j].month
    <3>1. SUFFICES ASSUME NEW i \in 1..(n + 1), NEW j \in 1..(n + 1), i <= j
                   PROVE  rows'[at][i].month <= rows'[at][j].month
      OBVIOUS
    <3>2. CASE i \in 1..n /\ j \in 1..n
      BY <1>1, <3>1, <3>2 DEF RowsInv, Ordered
    <3>3. CASE i \in 1..n /\ j = n + 1
      BY <1>1, <1>2, <1>3, <3>3
    <3>4. CASE i = n + 1 /\ j = n + 1
      BY <1>1, <1>3, <3>4
    <3> QED
      BY <1>2, <3>1, <3>2, <3>3, <3>4
  <2> QED
    BY <1>1, <2>1 DEF RowsInv, Ordered
<1>7. OneFailed'
  <2>1. \A i \in 1..n : rows[at][i].status = "FAILED" => rows[at][i].month # e.month
    BY <1>2, <1>3 DEF Again
  <2>2. \A i, j \in 1..(n + 1) :
            /\ rows'[at][i].status = "FAILED"
            /\ rows'[at][j].status = "FAILED"
            /\ rows'[at][i].month = rows'[at][j].month
            => i = j
    BY <1>1, <1>2, <2>1 DEF RowsInv, OneFailed
  <2> QED
    BY <1>1, <2>2 DEF RowsInv, OneFailed
<1> QED
  BY <1>4, <1>5, <1>6, <1>7 DEF RowsInv

(* So does one that replaces a renewal of its month, unless it un-pays it. *)
LEMMA ReplaceKeepsRows ==
    ASSUME TypeOK, RowsInv, UnheardGrows, at \in Bookings, row \in 1..Len(rows[at]),
           NEW e, Replaces(e),
           e.month = rows[at][row].month,
           e.status \in {rows[at][row].status, "PAID"}
    PROVE  RowsInv'
<1>0. rows \in [Bookings -> Seq(Renewals)]
  BY DEF TypeOK
<1>1. /\ rows' \in [Bookings -> Seq(Renewals)]
      /\ Len(rows'[at]) = Len(rows[at])
      /\ rows'[at][row] = e
      /\ \A j \in 1..Len(rows[at]) : j # row => rows'[at][j] = rows[at][j]
      /\ \A c \in Bookings : c # at => rows'[c] = rows[c]
  BY <1>0, Replaced DEF Replaces
<1>2. ASSUME NEW b \in Bookings
      PROVE  /\ Len(rows'[b]) = Len(rows[b])
             /\ \A i \in 1..Len(rows[b]) :
                    /\ rows'[b][i].month = rows[b][i].month
                    /\ rows'[b][i].status \in {rows[b][i].status, "PAID"}
  <2>1. CASE b # at
    BY <1>1, <2>1
  <2>2. ASSUME b = at, NEW i \in 1..Len(rows[at])
        PROVE  /\ rows'[at][i].month = rows[at][i].month
               /\ rows'[at][i].status \in {rows[at][i].status, "PAID"}
    <3>1. CASE i = row
      BY <1>1, <3>1
    <3>2. CASE i # row
      BY <1>1, <3>2
    <3> QED
      BY <3>1, <3>2
  <2> QED
    BY <1>1, <2>1, <2>2
<1>3. MonthsInOrder'
  <2>1. SUFFICES ASSUME NEW b \in Bookings
                 PROVE  InOrder(rows'[b], unheard'[b])
    BY RowsInOrder
  <2>2. InOrder(rows[b], unheard[b])
    BY RowsInOrder DEF RowsInv
  <2>3. Len(rows[b]) \in Nat \ {0}
    BY <1>0, RowFacts DEF TypeOK
  <2>4. ASSUME NEW i \in 1..(Len(rows[b]) - 1)
        PROVE  Follows(rows'[b][i], rows'[b][i + 1], unheard'[b])
    <3>1. i \in 1..Len(rows[b]) /\ i + 1 \in 1..Len(rows[b])
      BY <2>3
    <3>2. Follows(rows[b][i], rows[b][i + 1], unheard'[b])
      BY <2>2, <3>1, FollowsStays DEF InOrder
    <3> QED
      BY <1>2, <3>1, <3>2 DEF Follows
  <2>5. rows'[b][1].month = 1
    BY <1>2, <2>2, <2>3 DEF InOrder
  <2> QED
    BY <1>2, <2>4, <2>5 DEF InOrder
<1>4. NoMonthAfterMoveOut'
  <2>1. \A b \in Bookings : DOMAIN rows[b] = 1..Len(rows[b]) /\ DOMAIN rows'[b] = 1..Len(rows'[b])
    BY <1>0, <1>1, RowFacts
  <2> QED
    BY <1>2, <2>1 DEF RowsInv, NoMonthAfterMoveOut
<1>5. Ordered'
  BY <1>2 DEF RowsInv, Ordered
<1>6. OneFailed'
  BY <1>2 DEF RowsInv, OneFailed
<1> QED
  BY <1>3, <1>4, <1>5, <1>6 DEF RowsInv

(* Every step keeps RowsInv.                                               *)
LEMMA NextKeepsRows ==
    ASSUME TypeOK, Shape, OldRow, RowsInv, NewRow, Next
    PROVE  RowsInv'
<1>0. UnheardGrows
  BY UnheardOnlyGrows
<1>t. /\ Renewal("PAID", Never).month = month
      /\ Renewal("PAID", today).month = month
      /\ Renewal("PAID", today).status = "PAID"
      /\ Renewal("FAILED", today).month = month
  BY DEF Renewal
<1>1. CASE RowsKept
  BY <1>1 DEF RowsKept, RowsInv, MonthsInOrder, NoMonthAfterMoveOut, Ordered, OneFailed
<1>2. CASE Books
  <2>1. at \in Bookings
    BY <1>2 DEF Books, Shape, Billing
  <2>2. CASE fresh
    <3>1. /\ at \notin OpenEnded => StartDay(month) <= MoveOut[at]
          /\ month = LatestRow(at).month + 1
      BY <1>2, <2>2 DEF Books, NewRow
    <3> QED
      BY <1>0, <1>t, <1>2, <2>1, <2>2, <3>1, AddKeepsRows DEF Books
  <2>3. CASE ~fresh
    <3>1. row \in 1..Len(rows[at]) /\ rows[at][row].month = month
      BY <1>2, <2>3 DEF Books, OldRow, Billing
    <3> QED
      BY <1>0, <1>t, <1>2, <2>1, <2>3, <3>1, ReplaceKeepsRows DEF Books
  <2> QED
    BY <2>2, <2>3
<1>3. CASE Fails
  <2>1. /\ at \in Bookings
        /\ at \notin OpenEnded => StartDay(month) <= MoveOut[at]
        /\ \/ month = LatestRow(at).month + 1
           \/ Again(at, month) /\ unheard[at][month] > 0
    BY <1>3 DEF Fails, Shape, Billing, NewRow
  <2>2. unheard' = unheard
    BY <1>3 DEF Fails
  <2> QED
    BY <1>0, <1>t, <1>3, <2>1, <2>2, AddKeepsRows DEF Fails
<1>4. CASE Notes
  <2>1. at \in Bookings /\ row \in 1..Len(rows[at])
    BY <1>4 DEF Notes, Shape, OldRow, Billing
  <2>2. rows[at][row] \in Renewals
    BY <2>1 DEF TypeOK
  <2>3. /\ [rows[at][row] EXCEPT !.last = today].month = rows[at][row].month
        /\ [rows[at][row] EXCEPT !.last = today].status = rows[at][row].status
    BY <2>2 DEF Renewals
  <2> QED
    BY <1>0, <1>4, <2>1, <2>3, ReplaceKeepsRows DEF Notes
<1> QED
  BY <1>1, <1>2, <1>3, <1>4, RowSteps

(* A run that rests bills no new renewal.                                  *)
LEMMA RestNewRow ==
    ASSUME NEW how \in Resting, Rest(how)
    PROVE  NewRow'
BY DEF Rest, NewRow

(* A month more starts before the move-out day.                            *)
LEMMA NextStart ==
    ASSUME NEW m \in Nat, NEW d \in Nat, d + 1 - StartDay(m) >= 2 * MonthDays
    PROVE  StartDay(m + 1) <= d
<1> DEFINE k == m - 1
<1>1. k \in Int /\ MonthDays \in Nat
  BY CalendarAssumption
<1>2. (k + 1) * MonthDays = k * MonthDays + MonthDays
  BY <1>1
<1>3. StartDay(m) = k * MonthDays /\ StartDay(m + 1) = (k + 1) * MonthDays
  BY DEF StartDay
<1>4. k * MonthDays \in Int
  BY <1>1
<1> HIDE DEF k
<1>5. CASE MonthDays >= 1
  BY <1>1, <1>2, <1>3, <1>4, <1>5
<1>6. CASE MonthDays = 0
  BY <1>1, <1>2, <1>3, <1>4, <1>6
<1> QED
  BY <1>1, <1>5, <1>6

(* Every step keeps NewRow.                                                *)
LEMMA NextKeepsNewRow ==
    ASSUME TypeOK, Shape, OldRow, RowsInv, NewRow, Next
    PROVE  NewRow'
<1> USE DEF NewRow, Billing
<1>1. CASE NextRun
  BY <1>1 DEF NextRun
<1>2. CASE Restart
  BY <1>2 DEF Restart, Goto
<1>3. CASE Read
  BY <1>3 DEF Read, Goto
<1>4. CASE ReadFails
  BY RestNewRow, <1>4 DEF ReadFails
<1>5. CASE Close
  BY RestNewRow, <1>5 DEF Close
<1>6. CASE Killed
  BY RestNewRow, <1>6 DEF Killed
<1>7. CASE SkipRow
  BY <1>7 DEF SkipRow
<1>8. CASE NothingDue
  BY <1>8 DEF NothingDue, Goto
<1>9. CASE OpenRetry
  BY <1>9 DEF OpenRetry, Goto, Shape
<1>10. CASE OpenFails
  BY RestNewRow, <1>10 DEF OpenFails
<1>11. CASE Decline
  BY <1>11 DEF Decline, Catch, LatestRow, Again
<1>12. CASE Charge
  BY <1>12 DEF Charge, Goto, LatestRow, Again
<1>13. CASE ChargeUnheard
  BY <1>13 DEF ChargeUnheard, Catch, LatestRow, Again
<1>14. CASE Write
  BY <1>14 DEF Write, Goto, LatestRow, Again
<1>15. CASE WriteFails
  BY <1>15 DEF WriteFails, Catch, LatestRow, Again
<1>16. CASE Commit
  BY <1>16 DEF Commit, Onward
<1>17. CASE Record
  BY <1>17 DEF Record, Goto
<1>18. CASE RecordFails
  BY <1>18 DEF RecordFails, Goto
<1>19. CASE RecordBreaks
  BY RestNewRow, <1>19 DEF RecordBreaks
<1>20. CASE Refund
  BY <1>20 DEF Refund, Goto
<1>21. CASE RefundFails
  BY RestNewRow, <1>21 DEF RefundFails
<1>22. CASE Undo
  BY <1>22 DEF Undo, Onward
<1>23. CASE UndoThrows
  BY RestNewRow, <1>23 DEF UndoThrows
<1>24. CASE Note
  BY <1>24 DEF Note, Onward
<1>25. CASE TidyFails
  BY RestNewRow, <1>25 DEF TidyFails
<1>26. CASE \E b \in todo : Choose(b)
  BY <1>26 DEF Choose, Goto
<1>27. CASE OpenNew
  <2>1. /\ at \in Bookings
        /\ month' = LatestRow(at).month + 1
        /\ HasNext(at, LatestRow(at).month)
        /\ UNCHANGED <<rows, at>>
    BY <1>27 DEF OpenNew, Goto, Due, NextMonth, Shape
  <2>2. LatestRow(at).month \in Nat
    <3>1. /\ rows[at] \in Seq(Renewals) /\ rows[at] # <<>>
          /\ rows \in [Bookings -> Seq(Renewals)]
      BY <2>1 DEF TypeOK
    <3>2. Len(rows[at]) \in 1..Len(rows[at])
      BY <3>1
    <3> QED
      BY <2>1, <3>1, <3>2, RowFacts DEF LatestRow
  <2>3. at \notin OpenEnded => StartDay(month') <= MoveOut[at]
    <3>1. SUFFICES ASSUME at \notin OpenEnded
                   PROVE  StartDay(LatestRow(at).month + 1) <= MoveOut[at]
      BY <2>1
    <3>2. MoveOut[at] \in Nat /\ MoveOut[at] + 1 - StartDay(LatestRow(at).month) >= 2 * MonthDays
      BY <2>1, <3>1, BookingsAssumption DEF HasNext
    <3> QED
      BY <2>2, <3>2, NextStart
  <2> QED
    BY <1>27, <2>1, <2>3 DEF OpenNew, LatestRow
<1>28. CASE CommitFails
  <2>1. SUFFICES ASSUME fresh
                 PROVE  NewRow'
    BY <1>28 DEF CommitFails
  <2>2. /\ at \in Bookings /\ month \in Months
        /\ pc' = "record"
        /\ at \notin OpenEnded => StartDay(month) <= MoveOut[at]
        /\ month = LatestRow(at).month + 1
        /\ UNCHANGED <<at, month, fresh>>
    BY <1>28, <2>1 DEF CommitFails, Catch, Shape, TypeOK
  <2>3. CASE UNCHANGED <<rows, unheard>>
    BY <2>2, <2>3 DEF LatestRow
  <2>4. CASE Booked /\ unheard' = Once(unheard)
    <3> DEFINE n == Len(rows[at])
    <3>1. Renewal("PAID", Never) \in Renewals
      BY RenewalType
    <3>2. rows' = [rows EXCEPT ![at] = Append(rows[at], Renewal("PAID", Never))]
      BY <2>1, <2>4 DEF Booked, PaidRows
    <3>3. rows \in [Bookings -> Seq(Renewals)]
      BY DEF TypeOK
    <3>4. /\ rows' \in [Bookings -> Seq(Renewals)]
          /\ Len(rows'[at]) = n + 1
          /\ rows'[at][n + 1] = Renewal("PAID", Never)
          /\ \A i \in 1..n : rows'[at][i] = rows[at][i]
      BY <2>2, <3>1, <3>2, <3>3, Added
    <3>5. n \in Nat \ {0} /\ LatestRow(at) = rows[at][n]
      BY <2>2, <3>3, RowFacts DEF TypeOK, LatestRow
    <3>6. \A i \in 1..n : rows[at][i].month \in Nat /\ rows[at][i].month # month
      <4>1. \A i \in 1..n : rows[at][i].month \in Nat
        BY <2>2, <3>3, RowFacts
      <4>2. \A i \in 1..n : rows[at][i].month <= rows[at][n].month
        BY <2>2, <3>5 DEF RowsInv, Ordered
      <4>3. n \in 1..n
        BY <3>5
      <4> QED
        BY <2>2, <3>5, <4>1, <4>2, <4>3
    <3>7. LatestRow(at)' = Renewal("PAID", Never)
      BY <2>2, <3>4 DEF LatestRow
    <3>8. Again(at, month)'
      <4>1. LatestRow(at)'.month = month /\ LatestRow(at)'.status = "PAID"
        BY <3>7 DEF Renewal
      <4>2. ASSUME NEW i \in 1..Len(rows'[at]), rows'[at][i].month = month
            PROVE  rows'[at][i].status = "PAID"
        <5>1. CASE i = n + 1
          BY <3>4, <5>1 DEF Renewal
        <5>2. CASE i # n + 1
          <6>1. i \in 1..n
            BY <3>4, <3>5, <5>2
          <6> QED
            BY <3>4, <3>6, <4>2, <6>1
        <5> QED
          BY <5>1, <5>2
      <4> QED
        BY <2>2, <4>1, <4>2 DEF Again, LatestRow
    <3>9. unheard'[at][month] > 0
      BY <2>2, <2>4, OnceType DEF TypeOK
    <3> QED
      BY <2>2, <3>8, <3>9
  <2> QED
    BY <1>28, <2>3, <2>4 DEF CommitFails
<1>29. CASE \E b \in Bookings : RequestTermination(b)
  BY <1>29 DEF RequestTermination, Again, LatestRow
<1> QED
  BY <1>1, <1>2, <1>3, <1>4, <1>5, <1>6, <1>7, <1>8, <1>9, <1>10, <1>11,
     <1>12, <1>13, <1>14, <1>15, <1>16, <1>17, <1>18, <1>19, <1>20, <1>21,
     <1>22, <1>23, <1>24, <1>25, <1>26, <1>27, <1>28, <1>29 DEF Next, RunSteps, Mishaps

-----------------------------------------------------------------------------
(* The money: how a step may change what is kept, lost, booked and in hand *)

SameCharge == IF charged THEN charged' /\ at' = at /\ month' = month ELSE ~charged'
BooksSame == UNCHANGED <<transactions, unheard>>
MayHold == at \in Bookings /\ month \in Months
Moves(keep, lose) == kept' = keep /\ stray' = lose

NoMoney == SameCharge /\ BooksSame /\ Moves(kept, stray)
Charges == MayHold /\ ~charged /\ charged' /\ at' = at /\ month' = month
           /\ BooksSame /\ Moves(Once(kept), stray)
ChargesInVain == MayHold /\ ~charged /\ ~charged' /\ BooksSame /\ Moves(Once(kept), Once(stray))
Loses == MayHold /\ charged /\ ~charged' /\ BooksSame /\ Moves(kept, Once(stray))
GivesBack == MayHold /\ charged /\ ~charged' /\ BooksSame
             /\ Moves([kept EXCEPT ![at][month] = @ - 1], stray)
BooksHeard == MayHold /\ charged /\ ~charged' /\ transactions' = Once(transactions)
              /\ unheard' = unheard /\ Moves(kept, stray)
BooksUnheard == MayHold /\ SameCharge /\ transactions' = Once(transactions)
                /\ unheard' = Once(unheard) /\ Moves(kept, stray)

MoneyStep ==
    \/ NoMoney \/ Charges \/ ChargesInVain \/ Loses
    \/ GivesBack \/ BooksHeard \/ BooksUnheard

(* A run that rests holds no charge: it lost the one it had, or had none.  *)
LEMMA RestMoney ==
    ASSUME TypeOK, Shape, NEW how, Rest(how), BooksSame, kept' = kept,
           \/ LosesCharge
           \/ ~charged /\ stray' = stray
    PROVE  MoneyStep
<1>1. ~charged'
  BY DEF Rest, NoBill
<1>2. charged => MayHold
  BY DEF MayHold, Shape, Billing, TypeOK
<1> QED
  BY <1>1, <1>2 DEF LosesCharge, MoneyStep, NoMoney, Loses, SameCharge, Moves

(* A run that goes on to the next renewal has no charge in hand.           *)
LEMMA OnwardMoney ==
    ASSUME TypeOK, Shape, Onward, ~charged, BooksSame, kept' = kept, stray' = stray
    PROVE  MoneyStep
BY DEF Onward, NoBill, MoneyStep, NoMoney, SameCharge, Moves

(* Every step is one of these.                                             *)
LEMMA MoneySteps ==
    ASSUME TypeOK, Shape, Next
    PROVE  MoneyStep
<1> USE DEF BooksSame
<1>h. pc \in Billing => MayHold
  BY DEF MayHold, Shape, TypeOK
<1>c. charged \in BOOLEAN
  BY DEF TypeOK
<1>1. CASE NextRun
  BY <1>c, <1>1 DEF NextRun, MoneyStep, NoMoney, SameCharge, Moves
<1>2. CASE Restart
  BY <1>c, <1>2 DEF Restart, MoneyStep, NoMoney, SameCharge, Moves, Goto
<1>3. CASE Read
  BY <1>c, <1>3 DEF Read, MoneyStep, NoMoney, SameCharge, Moves, Goto
<1>4. CASE ReadFails
  BY RestMoney, <1>4 DEF ReadFails, Shape, Billing
<1>5. CASE Close
  BY RestMoney, <1>5 DEF Close, Shape, Billing
<1>6. CASE Killed
  BY RestMoney, <1>6 DEF Killed
<1>7. CASE SkipRow
  BY <1>c, <1>7 DEF SkipRow, MoneyStep, NoMoney, SameCharge, Moves
<1>8. CASE NothingDue
  BY <1>c, <1>8 DEF NothingDue, MoneyStep, NoMoney, SameCharge, Moves, Goto
<1>9. CASE OpenRetry
  BY <1>c, <1>9 DEF OpenRetry, MoneyStep, NoMoney, SameCharge, Moves, Goto, Shape, Billing
<1>10. CASE OpenNew
  BY <1>c, <1>10 DEF OpenNew, MoneyStep, NoMoney, SameCharge, Moves, Goto, Shape, Billing
<1>11. CASE OpenFails
  BY RestMoney, <1>11 DEF OpenFails, Shape, Billing
<1>12. CASE Decline
  BY <1>c, <1>12 DEF Decline, MoneyStep, NoMoney, SameCharge, Moves
<1>13. CASE Charge
  BY <1>h, <1>13 DEF Charge, Goto, Shape, Billing, MoneyStep, Charges, Moves
<1>14. CASE ChargeUnheard
  BY <1>h, <1>14 DEF ChargeUnheard, Shape, Billing, MoneyStep, ChargesInVain, Moves
<1>15. CASE Write
  BY <1>c, <1>15 DEF Write, MoneyStep, NoMoney, SameCharge, Moves, Goto
<1>16. CASE WriteFails
  BY <1>c, <1>16 DEF WriteFails, MoneyStep, NoMoney, SameCharge, Moves
<1>17. CASE Commit
  BY <1>h, <1>17 DEF Commit, Onward, NoBill, Booked, BookedTransactions, Shape, Billing, 
     MoneyStep, BooksHeard, Moves
<1>18. CASE Record
  BY <1>c, <1>18 DEF Record, MoneyStep, NoMoney, SameCharge, Moves, Goto
<1>19. CASE RecordFails
  BY <1>c, <1>19 DEF RecordFails, MoneyStep, NoMoney, SameCharge, Moves, Goto
<1>20. CASE RecordBreaks
  BY RestMoney, <1>20 DEF RecordBreaks
<1>21. CASE UndoThrows
  BY <1>c, <1>21 DEF UndoThrows, MoneyStep, NoMoney, SameCharge, Moves, Rest, NoBill, Shape
<1>22. CASE TidyFails
  BY <1>c, <1>22 DEF TidyFails, MoneyStep, NoMoney, SameCharge, Moves, Rest, NoBill, Shape
<1>23. CASE Note
  BY OnwardMoney, <1>23 DEF Note, Shape
<1>24. CASE \E b \in todo : Choose(b)
  BY <1>c, <1>24 DEF Choose, Goto, Shape, Billing, MoneyStep, NoMoney, SameCharge, Moves
<1>25. CASE CommitFails
  <2>1. SameCharge
    BY <1>c, <1>25 DEF CommitFails, SameCharge
  <2>2. CASE UNCHANGED <<db, unheard>>
    BY <1>25, <2>1, <2>2 DEF CommitFails, MoneyStep, NoMoney, Moves
  <2>3. CASE Booked /\ unheard' = Once(unheard)
    BY <1>25, <1>h, <2>1, <2>3 DEF CommitFails, Billing, Booked, BookedTransactions,
       MoneyStep, BooksUnheard, Moves
  <2> QED
    BY <1>25, <2>2, <2>3 DEF CommitFails
<1>26. CASE Refund
  <2>1. CASE charged
    BY <1>26, <1>h, <2>1 DEF Refund, Goto, GivenBack, Billing, MoneyStep, GivesBack, Moves
  <2>2. CASE ~charged
    BY <1>26, <2>2 DEF Refund, Goto, GivenBack, MoneyStep, NoMoney, SameCharge, Moves
  <2> QED
    BY <2>1, <2>2
<1>27. CASE RefundFails
  <2>1. ~charged'
    BY <1>27 DEF RefundFails, Rest, NoBill
  <2> QED
    BY <1>27, <1>h, <2>1 DEF RefundFails, GivenBack, Billing, MoneyStep, Loses, GivesBack, Moves
<1>28. CASE Undo
  <2>1. CASE fresh
    BY <1>28, <2>1, OnwardMoney DEF Undo, Shape
  <2>2. CASE ~fresh
    BY <1>c, <1>28, <2>2 DEF Undo, MoneyStep, NoMoney, SameCharge, Moves
  <2> QED
    BY <2>1, <2>2
<1>29. CASE \E b \in Bookings : RequestTermination(b)
  BY <1>c, <1>29 DEF RequestTermination, MoneyStep, NoMoney, SameCharge, Moves
<1> QED
  BY <1>1, <1>2, <1>3, <1>4, <1>5, <1>6, <1>7, <1>8, <1>9, <1>10, <1>11,
     <1>12, <1>13, <1>14, <1>15, <1>16, <1>17, <1>18, <1>19, <1>20, <1>21,
     <1>22, <1>23, <1>24, <1>25, <1>26, <1>27, <1>28, <1>29 DEF Next, RunSteps, Mishaps

One(b, m) == IF b = at /\ m = month THEN 1 ELSE 0
(* A month is booked once, besides the bookings nobody heard of.           *)
BookedOnce ==
    \A b \in Bookings, m \in Months :
        unheard[b][m] <= transactions[b][m] /\ transactions[b][m] <= unheard[b][m] + 1

KeptType == kept \in [Bookings -> [Months -> Nat]]

(* What Once adds.                                                         *)
LEMMA OnceAdds ==
    ASSUME NEW f \in [Bookings -> [Months -> Nat]], MayHold,
           NEW b \in Bookings, NEW m \in Months
    PROVE  Once(f)[b][m] = f[b][m] + One(b, m)
<1>0. f[b][m] \in Nat
  OBVIOUS
<1>1. CASE b = at /\ m = month
  BY <1>1, OnceType DEF MayHold, One
<1>2. CASE b # at \/ m # month
  BY <1>0, <1>2, OnceType DEF MayHold, One
<1> QED
  BY <1>1, <1>2

(* A charge in hand was kept, and can be given back.                       *)
LEMMA HeldIsKept ==
    ASSUME TypeOK, ChargesBooked, BookedOnce, MayHold, charged
    PROVE  kept[at][month] - 1 \in Nat
<1>1. /\ kept[at][month] \in Nat /\ unheard[at][month] \in Nat
      /\ transactions[at][month] \in Nat /\ stray[at][month] \in Nat
  BY DEF TypeOK, MayHold
<1>2. Held(at, month) = 1
  BY DEF Held, One
<1>3. kept[at][month] + unheard[at][month] = transactions[at][month] + stray[at][month] + 1
  BY <1>2 DEF ChargesBooked, MayHold
<1>4. unheard[at][month] <= transactions[at][month]
  BY DEF BookedOnce, MayHold
<1> QED
  BY <1>1, <1>3, <1>4

(* Every such step keeps the balance.                                      *)
LEMMA MoneyKeepsBalance ==
    ASSUME TypeOK, ChargesBooked, BookedOnce, MoneyStep
    PROVE  KeptType' /\ ChargesBooked'
<1>1. /\ transactions \in [Bookings -> [Months -> Nat]]
      /\ kept \in [Bookings -> [Months -> Nat]]
      /\ stray \in [Bookings -> [Months -> Nat]]
      /\ unheard \in [Bookings -> [Months -> Nat]]
  BY DEF TypeOK
<1>2. KeptType'
  <2>1. CASE UNCHANGED kept
    BY <1>1, <2>1 DEF KeptType
  <2>2. CASE MayHold /\ kept' = Once(kept)
    BY <1>1, <2>2, OnceType DEF MayHold, KeptType
  <2>3. CASE GivesBack
    BY <1>1, <2>3, HeldIsKept DEF GivesBack, Moves, MayHold, KeptType
  <2> QED
    BY <2>1, <2>2, <2>3 DEF MoneyStep, NoMoney, Charges, ChargesInVain, Loses, BooksHeard,
       BooksUnheard, Moves
<1>3. SUFFICES ASSUME NEW b \in Bookings, NEW m \in Months
               PROVE  kept'[b][m] + unheard'[b][m]
                        = transactions'[b][m] + stray'[b][m] + Held(b, m)'
  BY <1>2 DEF ChargesBooked
<1>4. /\ kept[b][m] \in Nat /\ unheard[b][m] \in Nat
      /\ transactions[b][m] \in Nat /\ stray[b][m] \in Nat
      /\ kept[b][m] + unheard[b][m] = transactions[b][m] + stray[b][m] + Held(b, m)
  BY <1>1 DEF ChargesBooked
<1>5. One(b, m) \in Nat /\ Held(b, m) \in Nat
  BY DEF One, Held
<1>6. MayHold =>
        /\ Once(kept)[b][m] = kept[b][m] + One(b, m)
        /\ Once(stray)[b][m] = stray[b][m] + One(b, m)
        /\ Once(transactions)[b][m] = transactions[b][m] + One(b, m)
        /\ Once(unheard)[b][m] = unheard[b][m] + One(b, m)
  BY <1>1, OnceAdds
<1>s. SameCharge => Held(b, m)' = Held(b, m)
  BY DEF SameCharge, Held, One
<1>n. ~charged' => Held(b, m)' = 0
  BY DEF Held
<1>h. charged => Held(b, m) = One(b, m)
  BY DEF Held, One
<1>7. CASE NoMoney
  BY <1>4, <1>s, <1>7 DEF NoMoney, BooksSame, Moves
<1>8. CASE Charges
  <2>1. Held(b, m)' = One(b, m) /\ Held(b, m) = 0
    BY <1>8 DEF Charges, Held, One
  <2> QED
    BY <1>4, <1>5, <1>6, <1>8, <2>1 DEF Charges, BooksSame, Moves
<1>9. CASE ChargesInVain
  <2>1. Held(b, m) = 0
    BY <1>9 DEF ChargesInVain, Held
  <2> QED
    BY <1>4, <1>5, <1>6, <1>n, <1>9, <2>1 DEF ChargesInVain, BooksSame, Moves
<1>10. CASE Loses
  <2>1. Held(b, m) = One(b, m)
    BY <1>h, <1>10 DEF Loses
  <2> QED
    BY <1>4, <1>5, <1>6, <1>n, <1>10, <2>1 DEF Loses, BooksSame, Moves
<1>11. CASE GivesBack
  <2>1. Held(b, m) = One(b, m)
    BY <1>h, <1>11 DEF GivesBack
  <2>2. kept'[b][m] = kept[b][m] - One(b, m)
    <3>1. CASE b = at /\ m = month
      BY <1>1, <1>11, <3>1 DEF GivesBack, Moves, One
    <3>2. CASE b # at \/ m # month
      BY <1>1, <1>4, <1>11, <3>2 DEF GivesBack, Moves, One
    <3> QED
      BY <3>1, <3>2
  <2> QED
    BY <1>4, <1>5, <1>n, <1>11, <2>1, <2>2 DEF GivesBack, BooksSame, Moves
<1>12. CASE BooksHeard
  <2>1. Held(b, m) = One(b, m)
    BY <1>h, <1>12 DEF BooksHeard
  <2> QED
    BY <1>4, <1>5, <1>6, <1>n, <1>12, <2>1 DEF BooksHeard, Moves
<1>13. CASE BooksUnheard
  BY <1>4, <1>5, <1>6, <1>s, <1>13 DEF BooksUnheard, Moves
<1> QED
  BY <1>7, <1>8, <1>9, <1>10, <1>11, <1>12, <1>13 DEF MoneyStep


(* A month that was booked has no FAILED renewal left, ...                 *)
PaidUp ==
    \A b \in Bookings, m \in Months :
        transactions[b][m] > unheard[b][m] =>
            \A i \in 1..Len(rows[b]) : rows[b][i].month = m => rows[b][i].status = "PAID"

(* ... is none the job has yet to come to, ...                             *)
Reached ==
    \A b \in Bookings, m \in Months :
        transactions[b][m] > 0 => m <= LatestRow(b).month

(* ... and is not the month being billed.                                  *)
Unbooked == pc \in Billing => transactions[at][month] = unheard[at][month]

Ledger == BookedOnce /\ PaidUp /\ Reached /\ Unbooked

(* What a COMMIT books.                                                    *)
LEMMA BooksAdds ==
    ASSUME TypeOK, Shape, Books, NEW b \in Bookings, NEW m \in Months
    PROVE  /\ transactions'[b][m] = transactions[b][m] + One(b, m)
           /\ unheard'[b][m] \in {unheard[b][m], unheard[b][m] + One(b, m)}
<1>1. MayHold
  BY DEF MayHold, Books, Shape, Billing, TypeOK
<1>2. /\ Once(transactions)[b][m] = transactions[b][m] + One(b, m)
      /\ Once(unheard)[b][m] = unheard[b][m] + One(b, m)
  BY <1>1, OnceAdds DEF TypeOK
<1> QED
  BY <1>2 DEF Books

(* Every step keeps BookedOnce.                                            *)
LEMMA NextKeepsBookedOnce ==
    ASSUME TypeOK, Shape, OldRow, BookedOnce, Unbooked, Next
    PROVE  BookedOnce'
<1>1. CASE UNCHANGED <<transactions, unheard>>
  BY <1>1 DEF BookedOnce
<1>2. CASE Books
  <2>1. SUFFICES ASSUME NEW b \in Bookings, NEW m \in Months
                 PROVE  /\ unheard'[b][m] <= transactions'[b][m]
                        /\ transactions'[b][m] <= unheard'[b][m] + 1
    BY DEF BookedOnce
  <2>2. transactions[b][m] \in Nat /\ unheard[b][m] \in Nat
    BY DEF TypeOK
  <2>3. CASE b = at /\ m = month
    <3>1. One(b, m) = 1 /\ transactions[b][m] = unheard[b][m]
      BY <1>2, <2>3 DEF One, Unbooked, Books, Billing
    <3> QED
      BY <1>2, <2>2, <3>1, BooksAdds
  <2>4. CASE b # at \/ m # month
    <3>1. One(b, m) = 0
      BY <2>4 DEF One
    <3> QED
      BY <1>2, <2>2, <3>1, BooksAdds DEF BookedOnce
  <2> QED
    BY <2>3, <2>4
<1> QED
  BY <1>1, <1>2, RowSteps DEF RowsKept, Fails, Notes

(* A month yet to come has no renewal.                                     *)
LEMMA NoSuchMonth ==
    ASSUME TypeOK, RowsInv, NEW b \in Bookings, NEW i \in 1..Len(rows[b])
    PROVE  /\ LatestRow(b).month \in Nat
           /\ rows[b][i].month \in Nat
           /\ rows[b][i].month <= LatestRow(b).month
<1>1. /\ rows \in [Bookings -> Seq(Renewals)]
      /\ rows[b] # <<>>
  BY DEF TypeOK
<1>2. Len(rows[b]) \in 1..Len(rows[b])
  BY <1>1
<1>3. i <= Len(rows[b])
  OBVIOUS
<1>4. rows[b][i].month \in Nat /\ rows[b][Len(rows[b])].month \in Nat
  BY <1>1, <1>2, RowFacts
<1>5. rows[b][i].month <= rows[b][Len(rows[b])].month
  BY <1>2, <1>3 DEF RowsInv, Ordered
<1> QED
  BY <1>4, <1>5 DEF LatestRow

(* Every step keeps PaidUp.                                                *)
LEMMA NextKeepsPaidUp ==
    ASSUME TypeOK, Shape, OldRow, RowsInv, NewRow, Ledger, Next
    PROVE  PaidUp'
<1>0. rows \in [Bookings -> Seq(Renewals)]
  BY DEF TypeOK
<1>1. CASE RowsKept
  BY <1>1 DEF RowsKept, Ledger, PaidUp
<1>2. SUFFICES ASSUME ~RowsKept,
                      NEW b \in Bookings, NEW m \in Months,
                      transactions'[b][m] > unheard'[b][m],
                      NEW i \in 1..Len(rows'[b]),
                      rows'[b][i].month = m
               PROVE  rows'[b][i].status = "PAID"
  BY <1>1 DEF PaidUp
<1>3. at \in Bookings /\ Len(rows[b]) \in Nat /\ Len(rows[at]) \in Nat
  <2>1. Books \/ Fails \/ Notes
    BY <1>2, RowSteps
  <2>2. pc \in Billing
    BY <2>1 DEF Books, Fails, Notes, Billing
  <2> QED
    BY <1>0, <2>2, RowFacts DEF Shape
<1>4. transactions[b][m] \in Nat /\ unheard[b][m] \in Nat
  BY DEF TypeOK
<1>5. ASSUME transactions[b][m] > unheard[b][m],
             i \in 1..Len(rows[b]), rows[b][i].month = m
      PROVE  rows[b][i].status = "PAID"
  BY <1>5 DEF Ledger, PaidUp
<1>6. CASE Fails
  <2>1. transactions[b][m] > unheard[b][m] /\ pc \in Billing
    BY <1>2, <1>6 DEF Fails, Billing
  <2>2. b # at \/ m # month
    BY <1>4, <2>1 DEF Ledger, Unbooked
  <2>3. /\ Len(rows'[at]) = Len(rows[at]) + 1
        /\ rows'[at][Len(rows[at]) + 1] = Renewal("FAILED", today)
        /\ \A j \in 1..Len(rows[at]) : rows'[at][j] = rows[at][j]
        /\ \A c \in Bookings : c # at => rows'[c] = rows[c]
    BY <1>0, <1>3, <1>6, Added DEF Fails, Adds
  <2>4. Renewal("FAILED", today).month = month
    BY DEF Renewal
  <2>5. i \in 1..Len(rows[b]) /\ rows'[b][i] = rows[b][i]
    <3>1. CASE b = at
      <4>1. i # Len(rows[at]) + 1
        BY <1>2, <2>2, <2>3, <2>4, <3>1
      <4>2. i \in 1..Len(rows[b])
        BY <1>3, <2>3, <3>1, <4>1
      <4> QED
        BY <2>3, <3>1, <4>2
    <3>2. CASE b # at
      BY <2>3, <3>2
    <3> QED
      BY <3>1, <3>2
  <2> QED
    BY <1>2, <1>5, <2>1, <2>5
<1>7. CASE Notes
  <2>1. at \in Bookings /\ row \in 1..Len(rows[at])
    BY <1>7 DEF Notes, Shape, OldRow, Billing
  <2> DEFINE e == [rows[at][row] EXCEPT !.last = today]
  <2>2. rows[at][row] \in Renewals
    BY <1>0, <2>1
  <2>3. e.month = rows[at][row].month /\ e.status = rows[at][row].status /\ e \in Renewals
    BY <1>7, <2>2 DEF Renewals, Notes, Replaces
  <2>4. /\ Len(rows'[at]) = Len(rows[at])
        /\ rows'[at][row] = e
        /\ \A j \in 1..Len(rows[at]) : j # row => rows'[at][j] = rows[at][j]
        /\ \A c \in Bookings : c # at => rows'[c] = rows[c]
    BY <1>0, <1>7, <2>1, <2>3, Replaced DEF Notes, Replaces
  <2> HIDE DEF e
  <2>5. /\ i \in 1..Len(rows[b])
        /\ rows'[b][i].month = rows[b][i].month
        /\ rows'[b][i].status = rows[b][i].status
    <3>1. CASE b = at /\ i = row
      BY <2>1, <2>3, <2>4, <3>1
    <3>2. CASE b = at /\ i # row
      BY <2>1, <2>4, <3>2
    <3>3. CASE b # at
      BY <2>4, <3>3
    <3> QED
      BY <3>1, <3>2, <3>3
  <2>6. transactions[b][m] > unheard[b][m]
    BY <1>2, <1>7 DEF Notes
  <2> QED
    BY <1>2, <1>5, <2>5, <2>6
<1>8. CASE Books
  <2>1. /\ Renewal("PAID", Never) \in Renewals
        /\ Renewal("PAID", today) \in Renewals
        /\ \A d : Renewal("PAID", d).month = month /\ Renewal("PAID", d).status = "PAID"
    BY RenewalType DEF TypeOK, Renewal
  <2>2. CASE fresh
    <3>1. /\ Len(rows'[at]) = Len(rows[at]) + 1
          /\ rows'[at][Len(rows[at]) + 1] = Renewal("PAID", Never)
          /\ \A j \in 1..Len(rows[at]) : rows'[at][j] = rows[at][j]
          /\ \A c \in Bookings : c # at => rows'[c] = rows[c]
      <4>1. Adds(Renewal("PAID", Never))
        BY <1>8, <2>2 DEF Books
      <4> QED
        BY <1>0, <1>3, <4>1, Added DEF Adds
    <3>2. CASE b = at /\ i = Len(rows[at]) + 1
      BY <2>1, <3>1, <3>2
    <3>3. CASE b # at \/ i # Len(rows[at]) + 1
      <4>1. i \in 1..Len(rows[b]) /\ rows'[b][i] = rows[b][i]
        <5>1. CASE b = at
          <6>1. i \in 1..Len(rows[b])
            BY <1>3, <3>1, <3>3, <5>1
          <6> QED
            BY <3>1, <5>1, <6>1
        <5>2. CASE b # at
          BY <3>1, <5>2
        <5> QED
          BY <5>1, <5>2
      <4>2. b # at \/ m # month
        <5>1. SUFFICES ASSUME b = at, m = month
                       PROVE  FALSE
          OBVIOUS
        <5>2. /\ LatestRow(b).month \in Nat
              /\ rows[b][i].month <= LatestRow(b).month
          BY <4>1, NoSuchMonth
        <5>3. month = LatestRow(at).month + 1
          BY <1>8, <2>2 DEF Books, NewRow
        <5>4. rows[b][i].month = month
          BY <1>2, <4>1, <5>1
        <5> QED
          BY <5>1, <5>2, <5>3, <5>4
      <4>3. One(b, m) = 0
        BY <4>2 DEF One
      <4>4. transactions[b][m] > unheard[b][m]
        BY <1>2, <1>4, <1>8, <4>3, BooksAdds
      <4> QED
        BY <1>2, <1>5, <4>1, <4>4
    <3> QED
      BY <3>2, <3>3
  <2>3. CASE ~fresh
    <3>0. /\ row \in 1..Len(rows[at]) /\ rows[at][row].month = month
          /\ rows[at][row].status = "FAILED"
      BY <1>8, <2>3 DEF Books, OldRow, Shape, Billing
    <3>1. /\ Len(rows'[at]) = Len(rows[at])
          /\ rows'[at][row] = Renewal("PAID", today)
          /\ \A j \in 1..Len(rows[at]) : j # row => rows'[at][j] = rows[at][j]
          /\ \A c \in Bookings : c # at => rows'[c] = rows[c]
      BY <1>0, <1>3, <1>8, <2>1, <2>3, <3>0, Replaced DEF Books, Replaces
    <3>2. CASE b = at /\ i = row
      BY <2>1, <3>1, <3>2
    <3>3. CASE b # at \/ i # row
      <4>1. i \in 1..Len(rows[b]) /\ rows'[b][i] = rows[b][i]
        <5>1. CASE b = at
          BY <3>1, <3>3, <5>1
        <5>2. CASE b # at
          BY <3>1, <5>2
        <5> QED
          BY <5>1, <5>2
      <4>2. CASE b = at /\ m = month
        <5>1. rows[at][i].status # "FAILED"
          BY <1>2, <1>3, <3>0, <3>3, <4>1, <4>2 DEF RowsInv, OneFailed
        <5>2. rows[at][i].status \in {"PAID", "FAILED"}
          BY <1>0, <4>1, <4>2, RowFacts
        <5> QED
          BY <4>1, <4>2, <5>1, <5>2
      <4>3. CASE b # at \/ m # month
        <5>1. One(b, m) = 0
          BY <4>3 DEF One
        <5>2. transactions[b][m] > unheard[b][m]
          BY <1>2, <1>4, <1>8, <5>1, BooksAdds
        <5> QED
          BY <1>2, <1>5, <4>1, <5>2
      <4> QED
        BY <4>2, <4>3
    <3> QED
      BY <3>2, <3>3
  <2> QED
    BY <2>2, <2>3
<1> QED
  BY <1>2, <1>6, <1>7, <1>8, RowSteps


(* Every step keeps Reached.                                               *)
LEMMA NextKeepsReached ==
    ASSUME TypeOK, Shape, OldRow, RowsInv, NewRow, Ledger, RowsInv', Next
    PROVE  Reached'
<1>0. rows \in [Bookings -> Seq(Renewals)] /\ rows' \in [Bookings -> Seq(Renewals)] /\ Grow
  BY RowsGrow DEF Grow, TypeOK
<1>1. ASSUME NEW b \in Bookings, NEW i \in 1..Len(rows'[b])
      PROVE  rows'[b][i].month <= LatestRow(b)'.month
  <2>1. Len(rows'[b]) \in Nat /\ i <= Len(rows'[b]) /\ Len(rows'[b]) \in 1..Len(rows'[b])
    BY <1>0, <1>1, RowFacts
  <2> QED
    BY <1>1, <2>1 DEF RowsInv, Ordered, LatestRow
<1>2. ASSUME NEW b \in Bookings
      PROVE  LatestRow(b).month <= LatestRow(b)'.month
  <2>1. rows[b] # <<>> /\ Len(rows[b]) \in Nat /\ Len(rows'[b]) \in Nat
    BY <1>0, RowFacts DEF TypeOK
  <2>2. Len(rows[b]) \in 1..Len(rows[b]) /\ Len(rows[b]) \in 1..Len(rows'[b])
    BY <1>0, <2>1 DEF Grow
  <2>3. rows'[b][Len(rows[b])].month = LatestRow(b).month
    BY <1>0, <2>2 DEF Grow, LatestRow
  <2> QED
    BY <1>1, <2>2, <2>3
<1>3. SUFFICES ASSUME NEW b \in Bookings, NEW m \in Months, transactions'[b][m] > 0
               PROVE  m <= LatestRow(b)'.month
  BY DEF Reached
<1>4. /\ m \in Nat /\ transactions[b][m] \in Nat
      /\ LatestRow(b).month \in Nat /\ LatestRow(b)'.month \in Nat
  <2>1. m \in Nat /\ transactions[b][m] \in Nat
    BY CalendarAssumption DEF TypeOK, Months
  <2>2. rows[b] # <<>> /\ Len(rows[b]) \in Nat /\ Len(rows'[b]) \in Nat
    BY <1>0, RowFacts DEF TypeOK
  <2>3. Len(rows[b]) \in 1..Len(rows[b]) /\ Len(rows'[b]) \in 1..Len(rows'[b])
    BY <1>0, <2>2 DEF Grow
  <2> QED
    BY <1>0, <2>1, <2>3, RowFacts DEF LatestRow
<1>5. CASE transactions[b][m] > 0
  <2>1. m <= LatestRow(b).month
    BY <1>5 DEF Ledger, Reached
  <2> QED
    BY <1>2, <1>4, <2>1
<1>6. CASE ~(transactions[b][m] > 0)
  <2>1. Books
    BY <1>3, <1>6, RowSteps DEF RowsKept, Fails, Notes
  <2>2. b = at /\ m = month
    <3>1. SUFFICES ASSUME ~(b = at /\ m = month)
                   PROVE  FALSE
      OBVIOUS
    <3>2. One(b, m) = 0
      BY <3>1 DEF One
    <3> QED
      BY <1>3, <1>4, <1>6, <2>1, <3>2, BooksAdds
  <2>3. CASE fresh
    <3>1. Renewal("PAID", Never) \in Renewals /\ Renewal("PAID", Never).month = month
      BY RenewalType
    <3>2. rows' = [rows EXCEPT ![at] = Append(@, Renewal("PAID", Never))]
      BY <2>1, <2>3 DEF Books, Adds
    <3>3. /\ Len(rows'[at]) = Len(rows[at]) + 1
          /\ rows'[at][Len(rows[at]) + 1] = Renewal("PAID", Never)
      BY <1>0, <2>2, <3>1, <3>2, Added
    <3> QED
      BY <1>4, <2>2, <3>1, <3>3 DEF LatestRow
  <2>4. CASE ~fresh
    <3>1. row \in 1..Len(rows[at]) /\ rows[at][row].month = month
      BY <2>1, <2>4 DEF Books, OldRow, Billing
    <3>2. rows[at][row].month <= LatestRow(at).month
      BY <2>2, <3>1, NoSuchMonth
    <3> QED
      BY <1>2, <1>4, <2>2, <3>1, <3>2
  <2> QED
    BY <2>3, <2>4
<1> QED
  BY <1>5, <1>6

(* Which steps begin to bill.                                              *)
Bills == pc \in Billing /\ at' = at /\ month' = month

(* A run that rests bills nothing, ...                                     *)
LEMMA RestBills ==
    ASSUME NEW how \in Resting, Rest(how)
    PROVE  pc' \notin Billing
BY DEF Rest, Billing

(* ... nor does one that goes on.                                          *)
LEMMA OnwardBills ==
    ASSUME Onward
    PROVE  pc' \notin Billing
BY DEF Onward, Billing

(* A run that bills after a step billed before, or it opened a bill.       *)
LEMMA BillingSteps ==
    ASSUME Next, pc' \in Billing
    PROVE  Bills \/ OpenRetry \/ OpenNew
<1>1. CASE NextRun
  BY <1>1 DEF NextRun, Billing
<1>2. CASE Restart
  BY <1>2 DEF Restart, Goto, Billing
<1>3. CASE Read
  BY <1>3 DEF Read, Goto, Billing
<1>4. CASE ReadFails
  BY RestBills, <1>4 DEF ReadFails
<1>5. CASE Close
  BY RestBills, <1>5 DEF Close
<1>6. CASE Killed
  BY RestBills, <1>6 DEF Killed
<1>7. CASE SkipRow
  BY <1>7 DEF SkipRow, Billing
<1>8. CASE NothingDue
  BY <1>8 DEF NothingDue, Goto, Billing
<1>9. CASE OpenRetry
  BY <1>9 DEF OpenRetry
<1>10. CASE OpenNew
  BY <1>10 DEF OpenNew
<1>11. CASE OpenFails
  BY RestBills, <1>11 DEF OpenFails
<1>12. CASE Decline
  BY <1>12 DEF Decline, Bills, Billing
<1>13. CASE Charge
  BY <1>13 DEF Charge, Goto, Bills, Billing
<1>14. CASE ChargeUnheard
  BY <1>14 DEF ChargeUnheard, Bills, Billing
<1>15. CASE Write
  BY <1>15 DEF Write, Goto, Bills, Billing
<1>16. CASE WriteFails
  BY <1>16 DEF WriteFails, Bills, Billing
<1>17. CASE Commit
  BY OnwardBills, <1>17 DEF Commit
<1>18. CASE CommitFails
  BY <1>18 DEF CommitFails, Bills, Billing
<1>19. CASE Record
  BY <1>19 DEF Record, Goto, Bills, Billing
<1>20. CASE RecordFails
  BY <1>20 DEF RecordFails, Goto, Bills, Billing
<1>21. CASE RecordBreaks
  BY RestBills, <1>21 DEF RecordBreaks
<1>22. CASE Refund
  BY <1>22 DEF Refund, Goto, Bills, Billing
<1>23. CASE RefundFails
  BY RestBills, <1>23 DEF RefundFails
<1>24. CASE Undo
  BY OnwardBills, <1>24 DEF Undo, Bills, Billing
<1>25. CASE UndoThrows
  BY RestBills, <1>25 DEF UndoThrows
<1>26. CASE Note
  BY OnwardBills, <1>26 DEF Note
<1>27. CASE TidyFails
  BY RestBills, <1>27 DEF TidyFails
<1>28. CASE \E b \in todo : Choose(b)
  BY <1>28 DEF Choose, Goto, Billing
<1>29. CASE \E b \in Bookings : RequestTermination(b)
  BY <1>29 DEF RequestTermination, Bills
<1> QED
  BY <1>1, <1>2, <1>3, <1>4, <1>5, <1>6, <1>7, <1>8, <1>9, <1>10, <1>11,
     <1>12, <1>13, <1>14, <1>15, <1>16, <1>17, <1>18, <1>19, <1>20, <1>21,
     <1>22, <1>23, <1>24, <1>25, <1>26, <1>27, <1>28, <1>29 DEF Next, RunSteps, Mishaps

(* Every step keeps Unbooked.                                              *)
LEMMA NextKeepsUnbooked ==
    ASSUME TypeOK, Shape, OldRow, RowsInv, Ledger, Next
    PROVE  Unbooked'
<1>1. SUFFICES ASSUME pc' \in Billing
               PROVE  transactions'[at'][month'] = unheard'[at'][month']
  BY DEF Unbooked
<1>2. \A b \in Bookings, m \in Months :
        /\ transactions[b][m] \in Nat /\ unheard[b][m] \in Nat
        /\ unheard[b][m] <= transactions[b][m]
        /\ transactions[b][m] > unheard[b][m] =>
            \A i \in 1..Len(rows[b]) : rows[b][i].month = m => rows[b][i].status = "PAID"
        /\ transactions[b][m] > 0 => m <= LatestRow(b).month
  <2>1. \A b \in Bookings, m \in Months :
            transactions[b][m] \in Nat /\ unheard[b][m] \in Nat
    BY DEF TypeOK
  <2>2. PaidUp /\ Reached /\ BookedOnce
    BY DEF Ledger
  <2> QED
    BY <2>1, <2>2 DEF BookedOnce, PaidUp, Reached
<1>3. CASE Bills
  <2>1. at \in Bookings /\ month \in Months
    BY <1>3 DEF Bills, Shape, TypeOK
  <2>2. transactions[at][month] = unheard[at][month]
    BY <1>3 DEF Bills, Ledger, Unbooked
  <2>3. CASE UNCHANGED <<transactions, unheard>>
    BY <1>3, <2>2, <2>3 DEF Bills
  <2>4. CASE Books
    <3>1. unheard' = Once(unheard) /\ transactions' = Once(transactions)
      BY <1>1, <2>4 DEF Books, Billing
    <3>2. /\ Once(unheard)[at][month] = unheard[at][month] + 1
          /\ Once(transactions)[at][month] = transactions[at][month] + 1
      BY <2>1, OnceType DEF TypeOK
    <3> QED
      BY <1>3, <2>2, <3>1, <3>2 DEF Bills
  <2> QED
    BY <2>3, <2>4, RowSteps DEF RowsKept, Fails, Notes
<1>4. CASE OpenRetry
  <2>1. /\ at \in Bookings /\ at' = at
        /\ row \in 1..Len(rows[at])
        /\ month' = rows[at][row].month
        /\ rows[at][row].status # "PAID"
        /\ UNCHANGED <<transactions, unheard>>
    BY <1>4 DEF OpenRetry, Goto, MayRetry, Shape, TypeOK
  <2>2. rows[at][row] \in Renewals
    BY <2>1 DEF TypeOK
  <2>3. month' \in Months
    BY <2>1, <2>2 DEF Renewals
  <2>4. ~(transactions[at][month'] > unheard[at][month'])
    BY <1>2, <2>1, <2>3
  <2> QED
    BY <1>2, <2>1, <2>3, <2>4
<1>5. CASE OpenNew
  <2>1. /\ at \in Bookings /\ at' = at
        /\ month' = LatestRow(at).month + 1
        /\ month' \in Months
        /\ UNCHANGED <<transactions, unheard>>
    BY <1>5 DEF OpenNew, Goto, Due, NextMonth, Shape
  <2>2. LatestRow(at).month \in Nat
    <3>1. rows[at] # <<>> /\ rows[at] \in Seq(Renewals)
      BY <2>1 DEF TypeOK
    <3>2. 1 \in 1..Len(rows[at])
      BY <3>1
    <3> QED
      BY <2>1, <3>2, NoSuchMonth
  <2>3. ~(transactions[at][month'] > 0)
    BY <1>2, <2>1, <2>2
  <2> QED
    BY <1>2, <2>1, <2>3
<1> QED
  BY <1>1, <1>3, <1>4, <1>5, BillingSteps


-----------------------------------------------------------------------------
(* What a run has tried so far: the renewals of the bookings it is done    *)
(* with, and those it has passed of the booking it looks at.               *)

Tried(r) == r.status = "FAILED" => r.last # Never /\ today - r.last <= 2

Passed(b, i) ==
    /\ pc \in {"closed", "choosing", "looking"} \cup Billing
    /\ pc # "closed" => b \notin todo
    /\ pc \in {"looking"} \cup Billing /\ b = at => fresh \/ i < row

TriedInv ==
    \A b \in Bookings \ requested : \A i \in 1..Len(rows[b]) :
        Passed(b, i) => Tried(rows[b][i])

(* A step that changes no renewal and passes none.                         *)
LEMMA SameRowsTried ==
    ASSUME TriedInv, UNCHANGED <<rows, today>>, requested \subseteq requested',
           \A b \in Bookings \ requested : \A i \in 1..Len(rows[b]) :
               Passed(b, i)' => Passed(b, i) \/ Tried(rows[b][i])
    PROVE  TriedInv'
<1>1. SUFFICES ASSUME NEW b \in Bookings \ requested', NEW i \in 1..Len(rows'[b]), Passed(b, i)'
               PROVE  Tried(rows[b][i])'
  BY DEF TriedInv
<1>2. b \in Bookings \ requested /\ i \in 1..Len(rows[b])
  OBVIOUS
<1>3. Tried(rows[b][i])
  BY <1>1, <1>2 DEF TriedInv
<1> QED
  BY <1>3 DEF Tried

(* A step that adds a renewal that was tried.                              *)
LEMMA AddTried ==
    ASSUME TypeOK, TriedInv, UNCHANGED <<today, requested>>, at \in Bookings,
           NEW e, Adds(e), Tried(e),
           \A b \in Bookings \ requested : \A i \in 1..Len(rows[b]) : Passed(b, i)' => Passed(b, i)
    PROVE  TriedInv'
<1>0. rows \in [Bookings -> Seq(Renewals)] /\ Len(rows[at]) \in Nat
  BY DEF TypeOK
<1>1. /\ Len(rows'[at]) = Len(rows[at]) + 1
      /\ rows'[at][Len(rows[at]) + 1] = e
      /\ \A j \in 1..Len(rows[at]) : rows'[at][j] = rows[at][j]
      /\ \A c \in Bookings : c # at => rows'[c] = rows[c]
  BY <1>0, Added DEF Adds
<1>2. SUFFICES ASSUME NEW b \in Bookings \ requested, NEW i \in 1..Len(rows'[b]), Passed(b, i)'
               PROVE  Tried(rows[b][i])'
  BY DEF TriedInv
<1>3. CASE b = at /\ i = Len(rows[at]) + 1
  BY <1>1, <1>3 DEF Tried
<1>4. CASE b # at \/ i # Len(rows[at]) + 1
  <2>1. i \in 1..Len(rows[b]) /\ rows'[b][i] = rows[b][i]
    <3>1. CASE b = at
      <4>1. i \in 1..Len(rows[b])
        BY <1>0, <1>1, <1>4, <3>1
      <4> QED
        BY <1>1, <3>1, <4>1
    <3>2. CASE b # at
      BY <1>1, <3>2
    <3> QED
      BY <3>1, <3>2
  <2>2. Tried(rows[b][i])
    BY <1>2, <2>1 DEF TriedInv
  <2> QED
    BY <2>1, <2>2 DEF Tried
<1> QED
  BY <1>3, <1>4

(* A step that replaces one.                                               *)
LEMMA ReplaceTried ==
    ASSUME TypeOK, TriedInv, UNCHANGED <<today, requested>>, at \in Bookings,
           row \in 1..Len(rows[at]),
           NEW e, Replaces(e), Tried(e),
           \A b \in Bookings \ requested : \A i \in 1..Len(rows[b]) :
               Passed(b, i)' => Passed(b, i) \/ (b = at /\ i = row)
    PROVE  TriedInv'
<1>0. rows \in [Bookings -> Seq(Renewals)] /\ Len(rows[at]) \in Nat
  BY DEF TypeOK
<1>1. /\ Len(rows'[at]) = Len(rows[at])
      /\ rows'[at][row] = e
      /\ \A j \in 1..Len(rows[at]) : j # row => rows'[at][j] = rows[at][j]
      /\ \A c \in Bookings : c # at => rows'[c] = rows[c]
  BY <1>0, Replaced DEF Replaces
<1>2. SUFFICES ASSUME NEW b \in Bookings \ requested, NEW i \in 1..Len(rows'[b]), Passed(b, i)'
               PROVE  Tried(rows[b][i])'
  BY DEF TriedInv
<1>3. CASE b = at /\ i = row
  BY <1>1, <1>3 DEF Tried
<1>4. CASE b # at \/ i # row
  <2>1. i \in 1..Len(rows[b]) /\ rows'[b][i] = rows[b][i]
    BY <1>1, <1>4
  <2>2. Tried(rows[b][i])
    BY <1>2, <1>4, <2>1 DEF TriedInv
  <2> QED
    BY <2>1, <2>2 DEF Tried
<1> QED
  BY <1>3, <1>4

(* A run that stands still or dies promises nothing.                       *)
LEMMA RestTried ==
    ASSUME NEW how \in {"stuck", "dead"}, Rest(how)
    PROVE  TriedInv'
BY DEF Rest, TriedInv, Passed, Billing

(* On to the next renewal or booking.                                      *)
LEMMA OnwardTried ==
    ASSUME TypeOK, Shape, pc \in Billing, Onward, NEW b, NEW i \in Nat, Passed(b, i)'
    PROVE  Passed(b, i) \/ (~fresh /\ b = at /\ i = row)
<1>1. /\ fresh' = FALSE /\ UNCHANGED <<todo, at>> /\ row \in Nat
      /\ IF fresh THEN pc' = "choosing" ELSE pc' = "looking" /\ row' = row + 1
  BY DEF Onward, NoBill, TypeOK
<1> QED
  BY <1>1 DEF Passed, Billing

(* The indices of renewals are numbers.                                    *)
LEMMA RowIndices ==
    ASSUME TypeOK, NEW b \in Bookings, NEW i \in 1..Len(rows[b])
    PROVE  i \in Nat /\ Len(rows[b]) \in Nat /\ i <= Len(rows[b])
BY DEF TypeOK

(* Every step keeps TriedInv.                                              *)
LEMMA NextKeepsTried ==
    ASSUME TypeOK, Shape, OldRow, TriedInv, Next
    PROVE  TriedInv'
<1>t. /\ today \in Nat /\ row \in Nat
      /\ \A d : Tried(Renewal("PAID", d))
      /\ Tried(Renewal("FAILED", today))
      /\ Renewal("PAID", Never) \in Renewals
      /\ Renewal("PAID", today) \in Renewals
      /\ Renewal("FAILED", today) \in Renewals
  <2>1. today \in Nat /\ row \in Nat
    BY DEF TypeOK
  <2> QED
    BY <2>1, RenewalType DEF Tried, Renewal
<1>1. CASE NextRun
  BY <1>1 DEF NextRun, TriedInv, Passed, Billing
<1>2. CASE Restart
  BY <1>2 DEF Restart, Goto, TriedInv, Passed, Billing
<1>3. CASE Read
  BY <1>3 DEF Read, Goto, Listed, TriedInv, Passed, Billing
<1>4. CASE ReadFails
  BY RestTried, <1>4 DEF ReadFails
<1>5. CASE Killed
  BY RestTried, <1>5 DEF Killed
<1>6. CASE Close
  BY SameRowsTried, <1>6 DEF Close, Rest, NoBill, Passed, Billing
<1>7. CASE OpenRetry
  BY SameRowsTried, <1>7 DEF OpenRetry, Goto, Shape, Passed, Billing
<1>8. CASE OpenFails
  BY RestTried, <1>8 DEF OpenFails
<1>9. CASE Decline
  BY SameRowsTried, <1>9 DEF Decline, Catch, Passed, Billing
<1>10. CASE Charge
  BY SameRowsTried, <1>10 DEF Charge, Goto, Passed, Billing
<1>11. CASE ChargeUnheard
  BY SameRowsTried, <1>11 DEF ChargeUnheard, Catch, Passed, Billing
<1>12. CASE Write
  BY SameRowsTried, <1>12 DEF Write, Goto, Passed, Billing
<1>13. CASE WriteFails
  BY SameRowsTried, <1>13 DEF WriteFails, Catch, Passed, Billing
<1>14. CASE RecordFails
  BY SameRowsTried, <1>14 DEF RecordFails, Goto, Passed, Billing
<1>15. CASE RecordBreaks
  BY RestTried, <1>15 DEF RecordBreaks
<1>16. CASE Refund
  BY SameRowsTried, <1>16 DEF Refund, Goto, Passed, Billing
<1>17. CASE RefundFails
  BY RestTried, <1>17 DEF RefundFails
<1>18. CASE UndoThrows
  BY RestTried, <1>18 DEF UndoThrows
<1>19. CASE TidyFails
  BY RestTried, <1>19 DEF TidyFails
<1>20. CASE \E b \in todo : Choose(b)
  <2>1. PICK c \in todo : Choose(c)
    BY <1>20
  <2>2. ASSUME NEW b \in Bookings \ requested, NEW i \in 1..Len(rows[b]), Passed(b, i)'
        PROVE  Passed(b, i)
    <3>1. i >= 1
      BY RowIndices
    <3> QED
      BY <2>1, <2>2, <3>1, RowIndices DEF Choose, Goto, Shape, Passed, Billing
  <2> QED
    BY <2>1, <2>2, SameRowsTried DEF Choose
<1>21. CASE SkipRow
  <2>1. ASSUME NEW b \in Bookings \ requested, NEW i \in 1..Len(rows[b]), Passed(b, i)'
        PROVE  Passed(b, i) \/ Tried(rows[b][i])
    <3>1. CASE b = at /\ i = row
      BY <1>21, <3>1 DEF SkipRow, MaySkip, Tried
    <3>2. CASE b # at \/ i # row
      BY <1>21, <1>t, <2>1, <3>2, RowIndices DEF SkipRow, Passed, Billing
    <3> QED
      BY <3>1, <3>2
  <2> QED
    BY <1>21, <2>1, SameRowsTried DEF SkipRow
<1>22. CASE NothingDue \/ OpenNew
  <2>1. ASSUME NEW b \in Bookings \ requested, NEW i \in 1..Len(rows[b]), Passed(b, i)'
        PROVE  Passed(b, i)
    BY <1>22, <1>t, <2>1, RowIndices DEF NothingDue, OpenNew, Goto, Passed, Billing
  <2> QED
    BY <1>22, <2>1, SameRowsTried DEF NothingDue, OpenNew
<1>23. CASE Commit
  <2>1. /\ pc \in Billing /\ at \in Bookings
        /\ UNCHANGED <<today, requested>>
    BY <1>23 DEF Commit, Billing, Shape
  <2>2. \A b, i : i \in Nat /\ Passed(b, i)' => Passed(b, i) \/ (~fresh /\ b = at /\ i = row)
    BY <1>23, <2>1, OnwardTried DEF Commit
  <2>3. CASE fresh
    <3>1. Adds(Renewal("PAID", Never))
      BY <1>23, <1>t, <2>3 DEF Commit, Booked, PaidRows, Adds
    <3> QED
      BY <1>t, <2>1, <2>2, <2>3, <3>1, AddTried, RowIndices
  <2>4. CASE ~fresh
    <3>1. Replaces(Renewal("PAID", today)) /\ row \in 1..Len(rows[at])
      BY <1>23, <1>t, <2>1, <2>4 DEF Commit, Booked, PaidRows, Replaces, OldRow
    <3> QED
      BY <1>t, <2>1, <2>2, <3>1, ReplaceTried, RowIndices
  <2> QED
    BY <2>3, <2>4
<1>24. CASE CommitFails
  <2>1. /\ pc \in Billing /\ at \in Bookings
        /\ UNCHANGED <<today, requested>>
    BY <1>24 DEF CommitFails, Billing, Shape
  <2>2. \A b, i : Passed(b, i)' => Passed(b, i)
    BY <1>24 DEF CommitFails, Catch, Passed, Billing
  <2>3. CASE UNCHANGED rows
    BY <2>1, <2>2, <2>3, SameRowsTried
  <2>4. CASE Booked /\ fresh
    <3>1. Adds(Renewal("PAID", Never))
      BY <1>t, <2>4 DEF Booked, PaidRows, Adds
    <3> QED
      BY <1>t, <2>1, <2>2, <3>1, AddTried
  <2>5. CASE Booked /\ ~fresh
    <3>1. Replaces(Renewal("PAID", today)) /\ row \in 1..Len(rows[at])
      BY <1>t, <2>1, <2>5 DEF Booked, PaidRows, Replaces, OldRow
    <3> QED
      BY <1>t, <2>1, <2>2, <3>1, ReplaceTried
  <2> QED
    BY <1>24, <2>3, <2>4, <2>5 DEF CommitFails
<1>25. CASE Record
  <2>1. /\ at \in Bookings
        /\ UNCHANGED <<today, requested>>
        /\ Adds(Renewal("FAILED", today))
    BY <1>25, <1>t DEF Record, Goto, Recorded, Adds, Shape, Billing
  <2>2. \A b, i : Passed(b, i)' => Passed(b, i)
    BY <1>25 DEF Record, Goto, Passed, Billing
  <2> QED
    BY <1>t, <2>1, <2>2, AddTried
<1>26. CASE Undo
  <2>1. CASE fresh
    <3>1. \A b, i : i \in Nat /\ Passed(b, i)' => Passed(b, i)
      BY <1>26, <2>1, OnwardTried DEF Undo, Billing
    <3> QED
      BY <1>26, <3>1, SameRowsTried, RowIndices DEF Undo
  <2>2. CASE ~fresh
    BY <1>26, <2>2, SameRowsTried DEF Undo, Passed, Billing
  <2> QED
    BY <2>1, <2>2
<1>27. CASE Note
  <2>1. /\ pc \in Billing /\ at \in Bookings
        /\ row \in 1..Len(rows[at])
        /\ UNCHANGED <<today, requested>>
    BY <1>27 DEF Note, Billing, Shape, OldRow
  <2>2. \A b, i : i \in Nat /\ Passed(b, i)' => Passed(b, i) \/ (b = at /\ i = row)
    BY <1>27, <2>1, OnwardTried DEF Note
  <2> DEFINE e == [rows[at][row] EXCEPT !.last = today]
  <2>3. rows[at][row] \in Renewals
    BY <2>1 DEF TypeOK
  <2>4. e \in Renewals /\ e.last = today
    BY <1>t, <2>3 DEF Renewals
  <2>5. Tried(e)
    BY <1>t, <2>4 DEF Tried
  <2>6. Replaces(e)
    BY <1>27, <2>4 DEF Note, Replaces
  <2> HIDE DEF e
  <2> QED
    BY <2>1, <2>2, <2>5, <2>6, ReplaceTried, RowIndices
<1>28. CASE \E b \in Bookings : RequestTermination(b)
  <2>1. /\ UNCHANGED <<rows, today>> /\ requested \subseteq requested'
        /\ UNCHANGED <<pc, todo, at, row, fresh>>
    BY <1>28 DEF RequestTermination
  <2>2. \A b, i : Passed(b, i)' => Passed(b, i)
    BY <2>1 DEF Passed
  <2> QED
    BY <2>1, <2>2, SameRowsTried
<1> QED
  BY <1>1, <1>2, <1>3, <1>4, <1>5, <1>6, <1>7, <1>8, <1>9, <1>10, <1>11,
     <1>12, <1>13, <1>14, <1>15, <1>16, <1>17, <1>18, <1>19, <1>20, <1>21,
     <1>22, <1>23, <1>24, <1>25, <1>26, <1>27, <1>28 DEF Next, RunSteps, Mishaps

-----------------------------------------------------------------------------
(* The inductive invariant                                                 *)

IInv ==
    /\ TypeOK
    /\ Shape /\ OldRow
    /\ RowsInv /\ NewRow
    /\ Ledger /\ ChargesBooked
    /\ TriedInv

(* It holds at first.                                                      *)
LEMMA InitIInv == Init => IInv
<1> SUFFICES ASSUME Init
             PROVE  IInv
  OBVIOUS
<1>m. 1 \in Months /\ Months \subseteq Nat
  BY CalendarAssumption DEF Months
<1>1. ASSUME NEW b \in Bookings
      PROVE  /\ rows[b] \in Seq(Renewals)
             /\ Len(rows[b]) = 1
             /\ rows[b][1] \in Renewals
             /\ rows[b][1].month = 1
             /\ rows[b] # <<>>
  <2>1. PICK st \in {"PAID", "FAILED"} :
            rows[b] = <<[month |-> 1, status |-> st, last |-> Never]>>
    BY <1>1 DEF Init
  <2>2. [month |-> 1, status |-> st, last |-> Never] \in Renewals
    BY <1>m DEF Renewals
  <2> QED
    BY <2>1, <2>2
<1>2. TypeOK
  <2>1. rows \in [Bookings -> Seq(Renewals)]
    BY <1>1 DEF Init
  <2>2. OtherTypes /\ KeptType
    <3>1. \A f : f = [b \in Bookings |-> [m \in Months |-> 0]]
                => f \in [Bookings -> [Months -> Nat]]
      OBVIOUS
    <3>2. [b \in Bookings |-> {}] \in [Bookings -> SUBSET (Nat \ {0})]
      OBVIOUS
    <3>3. KeptType
      BY <3>1 DEF Init, KeptType
    <3>4. /\ transactions \in [Bookings -> [Months -> Nat]]
          /\ stray \in [Bookings -> [Months -> Nat]]
          /\ unheard \in [Bookings -> [Months -> Nat]]
      BY <3>1 DEF Init
    <3>5. dues \in [Bookings -> SUBSET (Nat \ {0})]
      BY <3>2 DEF Init
    <3>6. requested \subseteq Bookings /\ todo \subseteq Bookings
      BY DEF Init
    <3>7. pc \in Resting \cup Working /\ at \in Bookings \cup {NoBooking}
      BY DEF Init
    <3>8. row \in Nat \ {0} /\ month \in Months /\ today \in Nat /\ faults \in Nat
      BY <1>m DEF Init
    <3>9. fresh \in BOOLEAN /\ charged \in BOOLEAN /\ committing \in BOOLEAN
      BY DEF Init
    <3> QED
      BY <3>3, <3>4, <3>5, <3>6, <3>7, <3>8, <3>9 DEF OtherTypes
  <2>3. \A b \in Bookings : rows[b] # <<>>
    BY <1>1
  <2> QED
    BY <2>1, <2>2, <2>3 DEF TypeOK, OtherTypes, KeptType
<1>3. Shape /\ OldRow /\ NewRow
  BY DEF Init, Shape, OldRow, NewRow, Billing
<1>4. ASSUME NEW b \in Bookings
      PROVE  /\ \A i \in DOMAIN rows[b] : i = 1
             /\ \A i \in 1..(Len(rows[b]) - 1) : FALSE
  <2>1. rows[b] \in Seq(Renewals) /\ Len(rows[b]) = 1
    BY <1>1
  <2>2. DOMAIN rows[b] = 1..1
    BY <2>1
  <2> QED
    BY <2>1, <2>2
<1>5. StartDay(1) = 0
  BY CalendarAssumption DEF StartDay
<1>6. NoMonthAfterMoveOut
  <2>1. \A b \in Bookings \ OpenEnded : 0 <= MoveOut[b]
    BY BookingsAssumption
  <2> QED
    BY <1>1, <1>4, <1>5, <2>1 DEF NoMonthAfterMoveOut
<1>7. MonthsInOrder
  BY <1>1, <1>4 DEF MonthsInOrder
<1>8. Ordered /\ OneFailed
  BY <1>1 DEF Ordered, OneFailed
<1>9. Ledger /\ ChargesBooked
  BY DEF Init, Ledger, BookedOnce, PaidUp, Reached, Unbooked, Billing, ChargesBooked, Held
<1>10. TriedInv
  BY DEF Init, TriedInv, Passed, Billing
<1> QED
  BY <1>2, <1>3, <1>6, <1>7, <1>8, <1>9, <1>10 DEF IInv, RowsInv

(* Every step keeps it.                                                    *)
LEMMA NextIInv == IInv /\ [Next]_vars => IInv'
<1>1. ASSUME IInv, Next
      PROVE  IInv'
  <2> USE <1>1 DEF IInv
  <2>1. OtherTypes'
    BY NextKeepsTypes
  <2>2. MoneyStep
    BY MoneySteps
  <2>3. KeptType' /\ ChargesBooked'
    BY <2>2, MoneyKeepsBalance DEF Ledger
  <2>4. /\ rows' \in [Bookings -> Seq(Renewals)]
        /\ \A b \in Bookings : rows'[b] # <<>>
    <3>1. Grow
      BY RowsGrow
    <3>2. ASSUME NEW b \in Bookings
          PROVE  rows'[b] # <<>>
      <4>1. Len(rows[b]) \in Nat \ {0}
        BY DEF TypeOK
      <4>2. Len(rows'[b]) >= Len(rows[b])
        BY <3>1 DEF Grow
      <4> QED
        BY <4>1, <4>2
    <3> QED
      BY <3>1, <3>2 DEF Grow
  <2>5. TypeOK'
    BY <2>1, <2>3, <2>4 DEF TypeOK, OtherTypes, KeptType
  <2>6. Shape' /\ OldRow'
    BY NextKeepsShape, NextKeepsOldRow
  <2>7. RowsInv' /\ NewRow'
    BY NextKeepsRows, NextKeepsNewRow
  <2>8. Ledger'
    BY <2>7, NextKeepsBookedOnce, NextKeepsPaidUp, NextKeepsReached, NextKeepsUnbooked DEF Ledger
  <2>9. TriedInv'
    BY NextKeepsTried
  <2> QED
    BY <2>3, <2>5, <2>6, <2>7, <2>8, <2>9
<1>2. ASSUME IInv, UNCHANGED vars
      PROVE  IInv'
  <2>1. TypeOK'
    BY <1>2 DEF IInv, vars, TypeOK
  <2>2. Shape' /\ OldRow' /\ NewRow'
    BY <1>2 DEF IInv, vars, Shape, OldRow, NewRow, Again, LatestRow
  <2>3. RowsInv'
    BY <1>2 DEF IInv, vars, RowsInv, MonthsInOrder, NoMonthAfterMoveOut, Ordered, OneFailed
  <2>4. Ledger' /\ ChargesBooked'
    BY <1>2 DEF IInv, vars, Ledger, BookedOnce, PaidUp, Reached, Unbooked, ChargesBooked, Held,
       LatestRow
  <2>5. TriedInv'
    BY <1>2 DEF IInv, vars, TriedInv, Passed, Tried
  <2> QED
    BY <2>1, <2>2, <2>3, <2>4, <2>5 DEF IInv
<1> QED
  BY <1>1, <1>2

(* The inductive invariant holds of every reachable state.                 *)
THEOREM Invariance == Spec => []IInv
BY InitIInv, NextIInv, PTL DEF Spec

-----------------------------------------------------------------------------
(* The properties that TLC checks on small instances                       *)

(* The types; in particular a charge is never given back that the job does *)
(* not keep.                                                               *)
THEOREM TypeCorrect == Spec => []TypeOK
<1>1. IInv => TypeOK
  BY DEF IInv
<1> QED
  BY <1>1, Invariance, PTL

(* Each charge kept is booked by a transactions row, was lost by a run, or *)
(* is in the hands of the run.                                             *)
THEOREM ChargesAreBooked == Spec => []ChargesBooked
<1>1. IInv => ChargesBooked
  BY DEF IInv
<1> QED
  BY <1>1, Invariance, PTL

(* A month is paid for at most once, besides the charges that were lost.   *)
THEOREM PaidOnce == Spec => []MonthPaidOnce
<1>1. ASSUME IInv
      PROVE  MonthPaidOnce
  <2>1. SUFFICES ASSUME NEW b \in Bookings, NEW m \in Months
                 PROVE  kept[b][m] <= 1 + stray[b][m]
    BY DEF MonthPaidOnce
  <2>2. /\ kept[b][m] \in Nat /\ unheard[b][m] \in Nat
        /\ transactions[b][m] \in Nat /\ stray[b][m] \in Nat
    BY <1>1 DEF IInv, TypeOK
  <2>3. /\ kept[b][m] + unheard[b][m] = transactions[b][m] + stray[b][m] + Held(b, m)
        /\ transactions[b][m] <= unheard[b][m] + 1
    BY <1>1 DEF IInv, ChargesBooked, Ledger, BookedOnce
  <2>4. CASE Held(b, m) = 0
    BY <2>2, <2>3, <2>4
  <2>5. CASE Held(b, m) # 0
    <3>1. charged /\ b = at /\ m = month /\ Held(b, m) = 1
      BY <2>5 DEF Held
    <3>2. pc \in Billing
      BY <1>1, <3>1 DEF IInv, Shape, Billing
    <3>3. transactions[b][m] = unheard[b][m]
      BY <1>1, <3>1, <3>2 DEF IInv, Ledger, Unbooked
    <3> QED
      BY <2>2, <2>3, <3>1, <3>3
  <2> QED
    BY <2>4, <2>5
<1> QED
  BY <1>1, Invariance, PTL

(* No month is left out, and none has two renewals but after an unheard    *)
(* COMMIT.                                                                 *)
THEOREM InOrderAlways == Spec => []MonthsInOrder
<1>1. IInv => MonthsInOrder
  BY DEF IInv, RowsInv
<1> QED
  BY <1>1, Invariance, PTL

(* No renewal begins after the move-out day.                               *)
THEOREM EndsAtMoveOut == Spec => []NoMonthAfterMoveOut
<1>1. IInv => NoMonthAfterMoveOut
  BY DEF IInv, RowsInv
<1> QED
  BY <1>1, Invariance, PTL

(* A run that comes to its end has tried every FAILED renewal that may be  *)
(* billed.                                                                 *)
THEOREM AllTried == Spec => []AllTriedWhenClosed
<1>1. ASSUME IInv
      PROVE  AllTriedWhenClosed
  <2>1. SUFFICES ASSUME pc = "closed",
                        NEW b \in Bookings \ requested, NEW i \in DOMAIN rows[b],
                        rows[b][i].status = "FAILED"
                 PROVE  rows[b][i].last # Never /\ today - rows[b][i].last <= 2
    BY DEF AllTriedWhenClosed
  <2>2. i \in 1..Len(rows[b])
    <3>1. rows \in [Bookings -> Seq(Renewals)]
      BY <1>1 DEF IInv, TypeOK
    <3> QED
      BY <2>1, <3>1, RowFacts
  <2>3. Passed(b, i)
    BY <2>1 DEF Passed, Billing
  <2> QED
    BY <1>1, <2>1, <2>2, <2>3 DEF IInv, TriedInv, Tried
<1> QED
  BY <1>1, Invariance, PTL

-----------------------------------------------------------------------------
(* The renewals marked PAID are counted by the transactions rows           *)

LEMMA PaidAreFinite ==
    ASSUME TypeOK, NEW b \in Bookings, NEW m \in Months
    PROVE  /\ PaidByJob(b, m) \subseteq 1..Len(rows[b])
           /\ IsFiniteSet(PaidByJob(b, m)) /\ Cardinality(PaidByJob(b, m)) \in Nat
<1>1. DOMAIN rows[b] = 1..Len(rows[b]) /\ Len(rows[b]) \in Nat
  BY DEF TypeOK
<1>2. PaidByJob(b, m) \subseteq 1..Len(rows[b])
  BY <1>1 DEF PaidByJob
<1>3. IsFiniteSet(1..Len(rows[b]))
  BY <1>1, FS_Interval
<1>4. IsFiniteSet(PaidByJob(b, m))
  BY <1>2, <1>3, FS_Subset
<1> QED
  BY <1>2, <1>4, FS_CardinalityType

(* A step that books one, ...                                              *)
LEMMA BooksCountsPaid ==
    ASSUME IInv, PaidIsBooked, Books
    PROVE  PaidIsBooked'
<1> USE DEF IInv
<1>1. /\ at \in Bookings /\ month \in Months /\ today \in Nat /\ ~committing
      /\ rows \in [Bookings -> Seq(Renewals)] /\ \A b \in Bookings : rows[b] # <<>>
  BY DEF Books, Shape, Billing, TypeOK
<1> DEFINE new == IF fresh THEN Len(rows[at]) + 1 ELSE row
<1>2. /\ \A b \in Bookings : DOMAIN rows[b] = 1..Len(rows[b]) /\ Len(rows[b]) \in Nat
      /\ Len(rows[at]) >= 1
  BY <1>1
<1>3. /\ rows' \in [Bookings -> Seq(Renewals)]
      /\ rows'[at][new].month = month /\ rows'[at][new].status = "PAID"
      /\ new > 1 \/ rows'[at][new].last # Never
      /\ new \notin PaidByJob(at, month)
      /\ DOMAIN rows'[at] = DOMAIN rows[at] \cup {new}
      /\ \A i \in DOMAIN rows[at] : i # new => rows'[at][i] = rows[at][i]
      /\ new \in DOMAIN rows[at] => rows[at][new].month = month
      /\ \A c \in Bookings : c # at => rows'[c] = rows[c]
  <2>1. CASE fresh
    <3>1. Adds(Renewal("PAID", Never))
      BY <2>1 DEF Books
    <3>2. /\ rows' \in [Bookings -> Seq(Renewals)]
          /\ Len(rows'[at]) = Len(rows[at]) + 1
          /\ rows'[at][Len(rows[at]) + 1] = Renewal("PAID", Never)
          /\ \A i \in 1..Len(rows[at]) : rows'[at][i] = rows[at][i]
          /\ \A c \in Bookings : c # at => rows'[c] = rows[c]
      BY <1>1, <3>1, Added DEF Adds
    <3>3. DOMAIN rows'[at] = 1..(Len(rows[at]) + 1)
      BY <1>1, <3>2
    <3>4. new \notin DOMAIN rows[at] /\ new = Len(rows[at]) + 1
      BY <1>1, <1>2, <2>1
    <3>5. new \notin PaidByJob(at, month)
      BY <3>4 DEF PaidByJob
    <3>6. Renewal("PAID", Never).month = month /\ Renewal("PAID", Never).status = "PAID"
      BY DEF Renewal
    <3> QED
      BY <1>1, <1>2, <3>2, <3>3, <3>4, <3>5, <3>6
  <2>2. CASE ~fresh
    <3>1. Replaces(Renewal("PAID", today))
      BY <2>2 DEF Books
    <3>2. row \in 1..Len(rows[at]) /\ rows[at][row].month = month
          /\ rows[at][row].status = "FAILED"
      BY <1>1, <2>2 DEF Books, OldRow, Billing
    <3>3. /\ rows' \in [Bookings -> Seq(Renewals)]
          /\ Len(rows'[at]) = Len(rows[at])
          /\ rows'[at][row] = Renewal("PAID", today)
          /\ \A j \in 1..Len(rows[at]) : j # row => rows'[at][j] = rows[at][j]
          /\ \A c \in Bookings : c # at => rows'[c] = rows[c]
      BY <1>1, <3>1, <3>2, Replaced DEF Replaces
    <3>4. DOMAIN rows'[at] = 1..Len(rows[at])
      BY <1>1, <3>3
    <3>5. new = row /\ new \notin PaidByJob(at, month)
      BY <2>2, <3>2 DEF PaidByJob
    <3>6. /\ Renewal("PAID", today).month = month /\ Renewal("PAID", today).status = "PAID"
          /\ Renewal("PAID", today).last # Never
      BY <1>1 DEF Renewal
    <3> QED
      BY <1>1, <1>2, <3>2, <3>3, <3>4, <3>5, <3>6
  <2> QED
    BY <2>1, <2>2
<1> HIDE DEF new
<1>4. \A b \in Bookings, m \in Months : b = at /\ m = month =>
          PaidByJob(b, m)' = PaidByJob(b, m) \cup {new}
  <2> SUFFICES ASSUME NEW b \in Bookings, NEW m \in Months, b = at, m = month
               PROVE  PaidByJob(b, m)' = PaidByJob(b, m) \cup {new}
    OBVIOUS
  <2>1. \A i \in DOMAIN rows[b] : i # new => rows'[b][i] = rows[b][i]
    BY <1>3
  <2> QED
    BY <1>3, <2>1 DEF PaidByJob
<1>5. SUFFICES ASSUME NEW b \in Bookings, NEW m \in Months
               PROVE  Cardinality(PaidByJob(b, m)') = transactions'[b][m]
  BY DEF PaidIsBooked, PaidByJob
<1>6. transactions'[b][m] = transactions[b][m] + One(b, m)
  BY BooksAdds
<1>7. /\ Cardinality(PaidByJob(b, m)) = transactions[b][m] /\ transactions[b][m] \in Nat
      /\ IsFiniteSet(PaidByJob(b, m))
  BY PaidAreFinite DEF PaidIsBooked, TypeOK
<1>8. CASE b = at /\ m = month
  <2>1. PaidByJob(b, m)' = PaidByJob(b, m) \cup {new} /\ new \notin PaidByJob(b, m)
    BY <1>3, <1>4, <1>8
  <2>2. transactions'[b][m] = transactions[b][m] + 1
    BY <1>6, <1>8 DEF One
  <2> QED
    BY <1>7, <2>1, <2>2, FS_AddElement
<1>9. CASE b # at \/ m # month
  <2>1. PaidByJob(b, m)' = PaidByJob(b, m)
    <3>1. CASE b # at
      BY <1>3, <3>1 DEF PaidByJob
    <3>2. CASE b = at /\ m # month
      BY <1>3, <3>2 DEF PaidByJob
    <3> QED
      BY <1>9, <3>1, <3>2
  <2> QED
    BY <1>6, <1>7, <1>9, <2>1 DEF One
<1> QED
  BY <1>8, <1>9

(* ... and those that record a failed renewal or note an attempt of one.   *)
LEMMA FailuresLeavePaid ==
    ASSUME IInv, PaidIsBooked, Fails \/ Notes
    PROVE  PaidIsBooked'
<1> USE DEF IInv
<1>1. /\ at \in Bookings /\ today \in Nat /\ UNCHANGED transactions
      /\ rows \in [Bookings -> Seq(Renewals)]
  BY DEF Fails, Notes, Shape, Billing, TypeOK
<1>2. \A b \in Bookings : DOMAIN rows[b] = 1..Len(rows[b]) /\ Len(rows[b]) \in Nat
  BY <1>1
<1>3. /\ \A c \in Bookings : c # at => rows'[c] = rows[c]
      /\ DOMAIN rows[at] \subseteq DOMAIN rows'[at]
      /\ \A i \in DOMAIN rows'[at] :
            \/ i \in DOMAIN rows[at] /\ rows'[at][i] = rows[at][i]
            \/ /\ rows'[at][i].status = "FAILED"
               /\ i \in DOMAIN rows[at] => rows[at][i].status = "FAILED"
  <2>1. CASE Fails
    <3>1. Adds(Renewal("FAILED", today))
      BY <2>1 DEF Fails
    <3>2. /\ rows' \in [Bookings -> Seq(Renewals)]
          /\ Len(rows'[at]) = Len(rows[at]) + 1
          /\ rows'[at][Len(rows[at]) + 1] = Renewal("FAILED", today)
          /\ \A i \in 1..Len(rows[at]) : rows'[at][i] = rows[at][i]
          /\ \A c \in Bookings : c # at => rows'[c] = rows[c]
      BY <1>1, <3>1, Added DEF Adds
    <3>3. DOMAIN rows'[at] = 1..(Len(rows[at]) + 1)
      BY <1>1, <3>2
    <3>4. Renewal("FAILED", today).status = "FAILED"
      BY DEF Renewal
    <3> QED
      BY <1>1, <1>2, <3>2, <3>3, <3>4
  <2>2. CASE Notes
    <3> DEFINE e == [rows[at][row] EXCEPT !.last = today]
    <3>1. Replaces(e)
      BY <2>2 DEF Notes
    <3>2. row \in 1..Len(rows[at]) /\ rows[at][row].status = "FAILED"
      BY <2>2 DEF Notes, OldRow, Shape, Billing
    <3>3. e.status = "FAILED"
      <4>1. rows[at][row] \in Renewals
        BY <1>1, <3>2
      <4> QED
        BY <3>2, <4>1 DEF Renewals
    <3> HIDE DEF e
    <3>4. /\ rows' \in [Bookings -> Seq(Renewals)]
          /\ Len(rows'[at]) = Len(rows[at])
          /\ rows'[at][row] = e
          /\ \A j \in 1..Len(rows[at]) : j # row => rows'[at][j] = rows[at][j]
          /\ \A c \in Bookings : c # at => rows'[c] = rows[c]
      BY <1>1, <3>1, <3>2, Replaced DEF Replaces
    <3>5. DOMAIN rows'[at] = 1..Len(rows[at])
      BY <1>1, <3>4
    <3> QED
      BY <1>1, <1>2, <3>2, <3>3, <3>4, <3>5
  <2> QED
    BY <2>1, <2>2
<1>4. \A b \in Bookings, m \in Months : PaidByJob(b, m)' = PaidByJob(b, m)
  <2> SUFFICES ASSUME NEW b \in Bookings, NEW m \in Months
               PROVE  PaidByJob(b, m)' = PaidByJob(b, m)
    OBVIOUS
  <2>1. CASE b # at
    BY <1>3, <2>1 DEF PaidByJob
  <2>2. CASE b = at
    BY <1>3, <2>2 DEF PaidByJob
  <2> QED
    BY <2>1, <2>2
<1> QED
  BY <1>1, <1>4 DEF PaidIsBooked

(* The renewals the job marked PAID are as many as the transactions rows   *)
(* it wrote, month by month: no renewal is PAID without a row that books   *)
(* its charge, and no row is without one (pay-renewal.cron.ts).            *)
THEOREM PaidRenewalsAreBooked == Spec => []PaidIsBooked
<1>1. Init => PaidIsBooked
  <2> SUFFICES ASSUME Init, NEW b \in Bookings, NEW m \in Months
               PROVE  Cardinality(PaidByJob(b, m)) = transactions[b][m]
    BY DEF PaidIsBooked
  <2>1. transactions[b][m] = 0
    BY DEF Init
  <2>2. PICK st \in {"PAID", "FAILED"} :
            rows[b] = <<[month |-> 1, status |-> st, last |-> Never]>>
    BY DEF Init
  <2>3. PaidByJob(b, m) = {}
    BY <2>2 DEF PaidByJob
  <2> QED
    BY <2>1, <2>3, FS_EmptySet
<1>2. IInv /\ PaidIsBooked /\ [Next]_vars => PaidIsBooked'
  <2> SUFFICES ASSUME IInv, PaidIsBooked, [Next]_vars PROVE PaidIsBooked'
    OBVIOUS
  <2>1. RowsKept \/ Books \/ Fails \/ Notes
    BY RowSteps DEF IInv
  <2>2. CASE RowsKept
    BY <2>2 DEF RowsKept, PaidIsBooked, PaidByJob
  <2> QED
    BY <2>1, <2>2, BooksCountsPaid, FailuresLeavePaid
<1> QED
  BY <1>1, <1>2, Invariance, PTL DEF Spec
=============================================================================
