------------------------ MODULE SpringClearanceProofs ------------------------
(***************************************************************************)
(* What a borrower of the space in front of the spring may rely on, for    *)
(* every choice of requests and of the other announcements.                *)
(***************************************************************************)
EXTENDS SpringClearance, TLAPS

\* The announcement says READY and lent until the next period revises it.
LoanInv ==
  /\ LoanKept
  /\ announced \in {"none", "BELT_CLEARANCE"} \cup RestAnnouncements
                     \cup ShotAnnouncements

\* A shooting spring is not lent, and a spring announced as cleared is still
\* lent: only the period that withdraws the announcement ends the loan.
THEOREM LoanIsKept ==
  ASSUME "BELT_CLEARANCE" \notin RestAnnouncements \cup ShotAnnouncements
  PROVE  Spec => []LoanKept
<1>1. Init => LoanInv
  BY DEF Init, LoanInv, LoanKept
<1>2. LoanInv /\ [Next]_vars => LoanInv'
  <2> SUFFICES ASSUME LoanInv, [Next]_vars PROVE LoanInv'
    OBVIOUS
  <2> USE DEF LoanInv, LoanKept
  <2>1. CASE Ask
    BY <2>1 DEF Ask
  <2>2. CASE Period
    BY <2>2 DEF Period, Announcements
  <2>3. CASE Displaced
    BY <2>3 DEF Displaced
  <2>4. CASE UNCHANGED vars
    BY <2>4 DEF vars
  <2> QED BY <2>1, <2>2, <2>3, <2>4 DEF Next
<1>3. LoanInv => LoanKept
  BY DEF LoanInv
<1> QED BY <1>1, <1>2, <1>3, PTL DEF Spec
==========================================================================
