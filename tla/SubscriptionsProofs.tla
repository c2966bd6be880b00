------------------------- MODULE SubscriptionsProofs -------------------------
(***************************************************************************)
(* Proofs about Subscriptions, for any calendar, grace and trial, and any  *)
(* number of workers, rows and bills.                                      *)
(*                                                                         *)
(* A worker reads in one step and writes in another, so the inductive      *)
(* invariant says what it read that is still so: rows are only added, and  *)
(* keep their ends and what bought them (Kept), whoever holds a paid bill  *)
(* holds it alone (Renewing), and time does not go back (Sweeping).        *)
(***************************************************************************)
EXTENDS Subscriptions, FiniteSetTheorems, SequenceTheorems, TLAPS

-----------------------------------------------------------------------------
(* The calendar *)

\* The days FirstDay says the month of.
Day == 0 .. FirstDay[Months + 2] - 1

\* What a period may end at.
Dated(moment) == moment \in Nat /\ moment \div 2 \in Day

\* month_bounds finds the month a day is in.
LEMMA MonthIs ==
  ASSUME NEW day \in Day
  PROVE  /\ MonthOf(day) \in Month
         /\ FirstDay[MonthOf(day)] <= day
         /\ day < FirstDay[MonthOf(day) + 1]
<1>1. \E m \in Month : FirstDay[m] <= day /\ day < FirstDay[m + 1]
  BY SubscriptionsAssumption DEF Day, Month
<1> QED BY <1>1 DEF MonthOf

\* min of two numbers, as add_months clamps the day.
LEMMA MinOfTwo ==
  ASSUME NEW a \in Int, NEW b \in Int
  PROVE  Min({a, b}) = IF a <= b THEN a ELSE b
<1> DEFINE m == IF a <= b THEN a ELSE b
<1>1. m \in {a, b} /\ \A y \in {a, b} : m <= y
  OBVIOUS
<1>2. \A x \in {a, b} : (\A y \in {a, b} : x <= y) => x = m
  OBVIOUS
<1> QED BY <1>1, <1>2 DEF Min

\* The day a month later is a day of the next month, if there are two more.
LEMMA NextMonthIs ==
  ASSUME NEW day \in Day, MonthOf(day) <= Months
  PROVE  SameDayNextMonth(day) \in Day
<1> DEFINE m == MonthOf(day)
<1>1. m \in 0 .. Months /\ FirstDay[m] <= day
  BY MonthIs, SubscriptionsAssumption DEF Month
<1>2. /\ FirstDay[m] \in Nat /\ FirstDay[m + 1] \in Nat
      /\ FirstDay[m + 2] \in Nat /\ FirstDay[Months + 2] \in Nat
      /\ FirstDay[m + 1] < FirstDay[m + 2]
  BY <1>1, SubscriptionsAssumption
<1>3. FirstDay[m + 2] <= FirstDay[Months + 2]
  <2>1. Months \in Nat /\ (m = Months \/ m + 2 < Months + 2)
    BY <1>1, SubscriptionsAssumption
  <2>2. m + 2 \in 0 .. Months + 2 /\ Months + 2 \in 0 .. Months + 2
    BY <1>1, <2>1
  <2>3. \A j, k \in 0 .. Months + 2 : j < k => FirstDay[j] < FirstDay[k]
    BY SubscriptionsAssumption
  <2>4. m + 2 < Months + 2 => FirstDay[m + 2] < FirstDay[Months + 2]
    BY <2>2, <2>3
  <2>5. m = Months => FirstDay[m + 2] = FirstDay[Months + 2]
    OBVIOUS
  <2> HIDE DEF m
  <2> QED BY <1>2, <2>1, <2>4, <2>5
<1>4. day \in Nat
  BY <1>2 DEF Day
<1> DEFINE a == day - FirstDay[m]
           b == Length(m + 1) - 1
<1>5. a \in Nat /\ b \in Nat /\ FirstDay[m + 1] + b < FirstDay[m + 2]
  BY <1>1, <1>2, <1>4 DEF Length
<1>6. Min({a, b}) \in Nat /\ Min({a, b}) <= b
  <2> HIDE DEF a, b
  <2> QED BY <1>5, MinOfTwo
<1>7. SameDayNextMonth(day) = FirstDay[m + 1] + Min({a, b})
  BY DEF SameDayNextMonth
<1> HIDE DEF a, b, m
<1> QED BY <1>2, <1>3, <1>5, <1>6, <1>7 DEF Day

\* add_months of a moment of the calendar is one.
LEMMA AddMonthIs ==
  ASSUME NEW moment, Dated(moment), MonthOf(moment \div 2) <= Months
  PROVE  Dated(AddMonth(moment))
<1> DEFINE next == SameDayNextMonth(moment \div 2)
<1>1. next \in Day
  BY NextMonthIs DEF Dated
<1>2. next \in Nat /\ moment % 2 \in {0, 1}
  BY <1>1 DEF Day, Dated
<1>3. AddMonth(moment) = 2 * next + (moment % 2)
  BY DEF AddMonth
<1> HIDE DEF next
<1>4. (2 * next + (moment % 2)) \div 2 = next
  BY <1>2
<1> QED BY <1>1, <1>2, <1>3, <1>4 DEF Dated

\* Days before the end are of the first Months months.
LEMMA EarlyDay ==
  ASSUME NEW day \in 0 .. LastDay
  PROVE  day \in Day /\ MonthOf(day) \in 0 .. Months - 1
<1>1. day \in Day
  BY SubscriptionsAssumption DEF LastDay, Day
<1>2. MonthOf(day) \in Month /\ FirstDay[MonthOf(day)] <= day
  BY <1>1, MonthIs
<1>3. day < FirstDay[Months] /\ FirstDay[Months] \in Nat /\ day \in Nat
  BY SubscriptionsAssumption DEF LastDay
<1>4. CASE MonthOf(day) >= Months
  <2>1. FirstDay[Months] <= FirstDay[MonthOf(day)]
    BY <1>2, <1>4, SubscriptionsAssumption DEF Month
  <2>2. FirstDay[MonthOf(day)] \in Nat
    BY <1>2, SubscriptionsAssumption DEF Month
  <2> QED BY <2>1, <2>2, <1>2, <1>3
<1>5. CASE ~ (MonthOf(day) >= Months)
  BY <1>1, <1>2, <1>5, SubscriptionsAssumption DEF Month
<1> QED BY <1>4, <1>5

\* Midnight and now, of an early day.
LEMMA EarlyMoment ==
  ASSUME NEW day \in 0 .. LastDay
  PROVE  /\ Dated(Midnight(day)) /\ MonthOf(Midnight(day) \div 2) <= Months
         /\ Dated(2 * day + 1) /\ MonthOf((2 * day + 1) \div 2) <= Months
<1>1. day \in Nat
  BY SubscriptionsAssumption DEF LastDay
<1>2. /\ (2 * day) \div 2 = day /\ (2 * day + 1) \div 2 = day
      /\ 2 * day \in Nat /\ 2 * day + 1 \in Nat
  BY <1>1
<1>3. day \in Day /\ MonthOf(day) <= Months
  BY EarlyDay, SubscriptionsAssumption
<1> QED BY <1>2, <1>3 DEF Dated, Midnight

-----------------------------------------------------------------------------
(* The inductive invariant *)

\* Every period ends on a day of the calendar.
Dates == \A i \in DOMAIN rows : Dated(rows[i].ends)

\* Reports are of paid bills; a bill charges for rows that are still due.
Bills ==
  /\ \A b \in unheard : bill[b].status = "paid"
  /\ \A b \in Bill : bill[b].day \in 0 .. LastDay
  /\ \A b \in Monthly : bill[b].lines \subseteq Renewals(b[2])

\* A bill's period from a row, or from none, ends at one moment only.
Follows(b, ends, from) ==
  IF b \in AddOn THEN from = 0 /\ ends = FirstPeriod(b)
    ELSE from \in DOMAIN rows /\ ends = AddMonth(rows[from].ends)

\* A row a bill bought goes on from where the bill says.
Continues ==
  \A i \in DOMAIN rows : rows[i].by \in Bill =>
    /\ bill[rows[i].by].status = "paid"
    /\ Follows(rows[i].by, rows[i].ends, rows[i].from)

\* What a report being handled has read of the bill it holds.
Renewing(w) ==
  worker[w].doing = "renew" =>
    /\ bill[worker[w].bill].status = "paid"
    /\ \A v \in Worker \ {w} :
         worker[v].doing = "renew" => worker[v].bill # worker[w].bill
    /\ IsFiniteSet(worker[w].periods)
    /\ \A p \in worker[w].periods :
         Dated(p.ends) /\ Follows(worker[w].bill, p.ends, p.from)
    /\ \A i \in worker[w].settles :
         /\ i \in DOMAIN rows
         /\ \E p \in worker[w].periods : p.ends = AddMonth(rows[i].ends)
    /\ \A i \in DOMAIN rows : rows[i].by = worker[w].bill =>
         \A p \in worker[w].periods : p.from # rows[i].from
    /\ \A e \in Charged(worker[w].bill) :
         Written(e) \/ \E p \in worker[w].periods : p.ends = e

\* What a sweep found over is over.
Sweeping(w) ==
  worker[w].doing = "sweep" =>
    \A i \in worker[w].over : i \in DOMAIN rows /\ Over(i)

\* What a billing run found due is due.
Billing(w) ==
  worker[w].doing = "bill"
    => worker[w].lines \subseteq Renewals(worker[w].month)

\* StillWatched, of a row that no sweep will end without pausing.
Watched ==
  extension = "active" =>
    \E i \in DOMAIN rows :
      /\ rows[i].status # "ended"
      /\ \A w \in Worker :
           worker[w].doing = "sweep" /\ ~ worker[w].pauses
             => i \notin worker[w].over

IInv ==
  /\ TypeOK /\ Dates /\ Bills /\ Continues
  /\ \A w \in Worker : Renewing(w) /\ Sweeping(w) /\ Billing(w)
  /\ GivenOnce /\ PaidIsGiven /\ Watched

-----------------------------------------------------------------------------
(* Reading the state *)

\* What each kind of worker holds.
LEMMA RunIs ==
  ASSUME TypeOK, NEW w \in Worker
  PROVE  /\ worker[w].doing = "acquire" =>
              worker[w].course \in {"trial", "bill", "deferred"}
         /\ worker[w].doing = "renew" =>
              /\ worker[w].bill \in Bill /\ worker[w].periods \subseteq Period
              /\ worker[w].settles \subseteq 1 .. MaxRows
         /\ worker[w].doing = "bill" =>
              /\ worker[w].month \in 0 .. Months - 1
              /\ worker[w].lines \subseteq 1 .. MaxRows
              /\ worker[w].credit \in BOOLEAN
         /\ worker[w].doing = "sweep" =>
              /\ worker[w].late \subseteq 1 .. MaxRows
              /\ worker[w].over \subseteq 1 .. MaxRows
              /\ worker[w].pauses \in BOOLEAN
<1>1. worker[w] \in Run
  BY DEF TypeOK
<1> QED BY <1>1 DEF Run

LEMMA RowIs ==
  ASSUME TypeOK
  PROVE  /\ Len(rows) \in Nat /\ DOMAIN rows = 1 .. Len(rows)
         /\ DOMAIN rows \subseteq 1 .. MaxRows
         /\ \A i \in DOMAIN rows :
              /\ rows[i] \in Row /\ rows[i].ends \in Nat
              /\ rows[i].from \in 0 .. MaxRows
              /\ rows[i].status \in {"active", "grace", "ended"}
              /\ rows[i].by \in Bill \cup Otherwise
<1>1. rows \in Seq(Row) /\ Len(rows) <= MaxRows
  BY DEF TypeOK
<1>2. Len(rows) \in Nat /\ DOMAIN rows = 1 .. Len(rows)
  BY <1>1
<1>3. \A i \in DOMAIN rows : rows[i] \in Row
  BY <1>1, <1>2
<1> QED BY <1>1, <1>2, <1>3, SubscriptionsAssumption DEF Row

\* Nothing but a paid bill buys in a bill's name.
LEMMA BillsAreNot == Bill \cap Otherwise = {}
BY DEF Bill, AddOn, Monthly, Otherwise

LEMMA MonthlyIs ==
  ASSUME NEW m \in 0 .. Months - 1
  PROVE  /\ <<"month", m>> \in Monthly /\ <<"month", m>> \in Bill
         /\ <<"month", m>> \notin AddOn /\ <<"month", m>>[2] = m
BY DEF Bill, AddOn, Monthly

\* A bill is an add-on's or a month's.
LEMMA BillIs ==
  ASSUME NEW b \in Bill
  PROVE  \/ b \in AddOn /\ b \notin Monthly
         \/ b \in Monthly /\ b \notin AddOn /\ b[2] \in 0 .. Months - 1
BY DEF Bill, AddOn, Monthly

-----------------------------------------------------------------------------
(* What a step keeps *)

\* Rows are added, and keep their ends, what bought them and what they go on
\* from; none comes back.
Kept ==
  \A i \in DOMAIN rows :
    /\ i \in DOMAIN rows'
    /\ rows'[i].ends = rows[i].ends /\ rows'[i].by = rows[i].by
    /\ rows'[i].from = rows[i].from
    /\ rows[i].status = "ended" => rows'[i].status = "ended"

\* A bill is issued, settled or cancelled, and keeps what it charges for.
BillsKept ==
  \A b \in Bill :
    \/ bill'[b] = bill[b]
    \/ /\ bill[b].status = "none" /\ bill'[b].status = "sent"
    \/ /\ bill[b].status = "sent" /\ bill'[b].status \in {"paid", "cancelled"}
       /\ bill'[b].day = bill[b].day /\ bill'[b].lines = bill[b].lines
       /\ bill'[b].credit = bill[b].credit

LEMMA WrittenKept ==
  ASSUME Kept, NEW e, Written(e)
  PROVE  Written(e)'
BY DEF Kept, Written, Purchased

LEMMA RenewalsKept ==
  ASSUME Kept, NEW m
  PROVE  Renewals(m) \subseteq Renewals(m)'
BY DEF Kept, Renewals, Purchased

LEMMA OverKept ==
  ASSUME TypeOK, Kept, NEW i \in DOMAIN rows, Over(i),
         today' \in Nat, today <= today'
  PROVE  Over(i)'
<1>1. today \in Nat /\ rows[i].ends \in Nat /\ rows'[i].ends = rows[i].ends
  BY RowIs, SubscriptionsAssumption DEF Kept, TypeOK, LastDay
<1>2. GraceDays \in Nat
  BY SubscriptionsAssumption
<1> QED BY <1>1, <1>2 DEF Over, Now

\* A bill that has been sent goes on charging for the same periods.
LEMMA ChargedKept ==
  ASSUME TypeOK, Bills, Kept, BillsKept, NEW b \in Bill,
         bill[b].status # "none"
  PROVE  Charged(b)' = Charged(b)
<1>1. bill'[b].day = bill[b].day /\ bill'[b].lines = bill[b].lines
  BY DEF BillsKept
<1>2. CASE b \in AddOn
  BY <1>1, <1>2 DEF Charged, FirstPeriod
<1>3. CASE b \notin AddOn
  <2>1. bill[b].lines \subseteq DOMAIN rows
    BY <1>3, BillIs DEF Bills, Renewals
  <2>2. \A l \in bill[b].lines : rows'[l].ends = rows[l].ends
    BY <2>1 DEF Kept
  <2> QED BY <1>1, <1>3, <2>2 DEF Charged
<1> QED BY <1>2, <1>3

\* Nor does what goes on from a row, or from a bill that was sent, move.
LEMMA FollowsKept ==
  ASSUME TypeOK, Kept, BillsKept, NEW b \in Bill, bill[b].status # "none",
         NEW ends, NEW from, Follows(b, ends, from)
  PROVE  Follows(b, ends, from)'
<1>1. bill'[b].day = bill[b].day
  BY DEF BillsKept
<1>2. b \in AddOn => FirstPeriod(b)' = FirstPeriod(b)
  BY <1>1 DEF FirstPeriod
<1> QED BY <1>2 DEF Follows, Kept

\* No row was added that a bill bought.
LEMMA ContinuesKept ==
  ASSUME TypeOK, Kept, BillsKept, Continues,
         \A i \in DOMAIN rows' : i \notin DOMAIN rows => rows'[i].by \notin Bill
  PROVE  Continues'
<1> SUFFICES ASSUME NEW i \in DOMAIN rows', rows'[i].by \in Bill
             PROVE  /\ bill'[rows'[i].by].status = "paid"
                    /\ Follows(rows[i].by, rows[i].ends, rows[i].from)'
  BY DEF Continues
<1>1. i \in DOMAIN rows
  OBVIOUS
<1>2. PICK b, ends, from :
        /\ b \in Bill /\ b = rows[i].by
        /\ ends = rows[i].ends /\ from = rows[i].from
        /\ bill[b].status = "paid" /\ Follows(b, ends, from)
  BY <1>1 DEF Continues, Kept
<1>3. b = rows'[i].by /\ ends = rows'[i].ends /\ from = rows'[i].from
  BY <1>1, <1>2 DEF Kept
<1>4. Follows(b, ends, from)' /\ bill'[b].status = "paid"
  BY <1>2, FollowsKept DEF BillsKept
<1> QED BY <1>3, <1>4 DEF Follows, FirstPeriod

LEMMA RenewingKept ==
  ASSUME TypeOK, Bills, Kept, BillsKept,
         NEW w \in Worker, Renewing(w), worker'[w] = worker[w],
         worker[w].doing = "renew" =>
           /\ \A i \in DOMAIN rows' :
                i \notin DOMAIN rows => rows'[i].by # worker[w].bill
           /\ \A v \in Worker \ {w} :
                worker'[v].doing = "renew" => worker'[v].bill # worker[w].bill
  PROVE  Renewing(w)'
<1> SUFFICES ASSUME worker[w].doing = "renew" PROVE Renewing(w)'
  BY DEF Renewing
<1> DEFINE b == worker[w].bill
<1>1. b \in Bill /\ bill[b].status = "paid" /\ bill'[b] = bill[b]
  BY RunIs DEF Renewing, BillsKept
<1>2. \A i \in worker[w].settles :
        /\ i \in DOMAIN rows'
        /\ \E p \in worker[w].periods : p.ends = AddMonth(rows'[i].ends)
  BY DEF Renewing, Kept
<1>3. \A i \in DOMAIN rows' : rows'[i].by = b =>
        \A p \in worker[w].periods : p.from # rows'[i].from
  BY DEF Renewing, Kept
<1>4. \A e \in Charged(b)' :
        Written(e)' \/ \E p \in worker[w].periods : p.ends = e
  BY <1>1, ChargedKept, WrittenKept DEF Renewing
<1>5. \A p \in worker[w].periods : Follows(b, p.ends, p.from)'
  <2> SUFFICES ASSUME NEW p \in worker[w].periods
               PROVE  Follows(b, p.ends, p.from)'
    OBVIOUS
  <2>1. Follows(b, p.ends, p.from)
    BY DEF Renewing
  <2> QED BY <1>1, <2>1, FollowsKept
<1> QED BY <1>1, <1>2, <1>3, <1>4, <1>5 DEF Renewing, Dated, Day

LEMMA SweepingKept ==
  ASSUME TypeOK, Kept, today' \in Nat, today <= today',
         NEW w \in Worker, Sweeping(w), worker'[w] = worker[w]
  PROVE  Sweeping(w)'
BY OverKept DEF Sweeping, Kept

LEMMA BillingKept ==
  ASSUME Kept, NEW w \in Worker, Billing(w), worker'[w] = worker[w]
  PROVE  Billing(w)'
BY RenewalsKept DEF Billing

\* A heard bill's periods stay written.
LEMMA GivenKept ==
  ASSUME TypeOK, Bills, Kept, BillsKept, PaidIsGiven,
         \A b \in Bill : Heard(b)' => Heard(b)
  PROVE  PaidIsGiven'
<1> SUFFICES ASSUME NEW b \in Bill, Heard(b)', NEW e \in Charged(b)'
             PROVE  Written(e)'
  BY DEF PaidIsGiven
<1>1. Heard(b) /\ bill[b].status = "paid"
  BY DEF Heard
<1>2. e \in Charged(b)
  BY <1>1, ChargedKept
<1> QED BY <1>1, <1>2, WrittenKept DEF PaidIsGiven

\* Reports and bills that were heard of are heard of no less.
LEMMA HeardKept ==
  ASSUME \A b \in Bill : b \notin unheard' /\ bill'[b].status = "paid"
                         => b \notin unheard /\ bill[b].status = "paid",
         \A w \in Worker : worker[w].doing = "renew" => worker'[w] = worker[w]
  PROVE  \A b \in Bill : Heard(b)' => Heard(b)
BY DEF Heard, Free

\* The row the extension has is not settled meanwhile.
LEMMA WatchedKept ==
  ASSUME Watched, extension' = "active" => extension = "active",
         \A i \in DOMAIN rows :
           i \in DOMAIN rows' /\ rows'[i].status = rows[i].status,
         \A w \in Worker : worker'[w].doing = "sweep" => worker'[w] = worker[w]
  PROVE  Watched'
<1> SUFFICES ASSUME extension' = "active" PROVE Watched'
  BY DEF Watched
<1>1. PICK i \in DOMAIN rows :
        /\ rows[i].status # "ended"
        /\ \A w \in Worker :
             worker[w].doing = "sweep" /\ ~ worker[w].pauses
               => i \notin worker[w].over
  BY DEF Watched
<1>2. i \in DOMAIN rows' /\ rows'[i].status # "ended"
  BY <1>1
<1>3. \A w \in Worker :
        worker'[w].doing = "sweep" /\ ~ worker'[w].pauses
          => i \notin worker'[w].over
  BY <1>1
<1> QED BY <1>2, <1>3 DEF Watched

\* A row that has just been written is in no sweep's hands.
LEMMA WatchedNew ==
  ASSUME \A w \in Worker : Sweeping(w),
         \A w \in Worker : worker'[w].doing = "sweep" => worker'[w] = worker[w],
         NEW i \in DOMAIN rows', i \notin DOMAIN rows,
         rows'[i].status = "active"
  PROVE  Watched'
<1>1. \A w \in Worker : worker'[w].doing = "sweep" => i \notin worker'[w].over
  BY DEF Sweeping
<1> QED BY <1>1 DEF Watched

\* Nor is a live one: what a sweep found over cannot be live again.
LEMMA WatchedLive ==
  ASSUME TypeOK', \A w \in Worker : Sweeping(w)', Entitled'
  PROVE  Watched'
<1>1. PICK i \in DOMAIN rows' : Live(i)'
  BY DEF Entitled
<1>2. rows'[i].ends \in Nat /\ today' \in Int
  <2>1. rows' \in Seq(Row) /\ today' \in Int
    BY SubscriptionsAssumption DEF TypeOK, LastDay
  <2>2. rows'[i] \in Row
    BY <2>1, <1>1
  <2> QED BY <2>1, <2>2 DEF Row
<1>3. ~ Over(i)'
  BY <1>1, <1>2, SubscriptionsAssumption DEF Live, Over, Now
<1> QED BY <1>1, <1>3 DEF Watched, Sweeping, Live

\* What the other workers hold is as it was, if they hold no bill of a row that
\* is new, and nobody takes up a bill of theirs.
LEMMA OthersKept ==
  ASSUME IInv, Kept, BillsKept, today' \in Nat, today <= today',
         NEW w \in Worker,
         \A v \in Worker \ {w} : worker'[v] = worker[v],
         \A v \in Worker \ {w} : worker[v].doing = "renew" =>
           /\ \A i \in DOMAIN rows' :
                i \notin DOMAIN rows => rows'[i].by # worker[v].bill
           /\ worker'[w].doing = "renew" => worker'[w].bill # worker[v].bill
  PROVE  \A v \in Worker \ {w} : Renewing(v)' /\ Sweeping(v)' /\ Billing(v)'
<1> SUFFICES ASSUME NEW v \in Worker \ {w}
             PROVE  Renewing(v)' /\ Sweeping(v)' /\ Billing(v)'
  OBVIOUS
<1>1. worker[v].doing = "renew" =>
        \A u \in Worker \ {v} :
          worker'[u].doing = "renew" => worker'[u].bill # worker[v].bill
  <2>1. \A u \in Worker \ {v} : u # w => worker'[u] = worker[u]
    OBVIOUS
  <2> QED BY <2>1 DEF IInv, Renewing
<1>2. Renewing(v)'
  BY <1>1, RenewingKept DEF IInv
<1>3. Sweeping(v)' /\ Billing(v)'
  BY SweepingKept, BillingKept DEF IInv
<1> QED BY <1>2, <1>3

LEMMA TodayIs ==
  ASSUME TypeOK
  PROVE  today \in Nat /\ today <= today /\ LastDay \in Nat
BY SubscriptionsAssumption DEF TypeOK, LastDay

\* The periods a bill buys end on days of the calendar, and there are few.
LEMMA BoughtIs ==
  ASSUME IInv, NEW b \in Bill
  PROVE  /\ IsFiniteSet(Bought(b))
         /\ \A p \in Bought(b) :
              /\ p \in Period /\ Dated(p.ends) /\ Follows(b, p.ends, p.from)
<1>1. CASE b \in AddOn
  <2>1. Dated(FirstPeriod(b)) /\ 0 \in 0 .. MaxRows
    BY EarlyMoment, AddMonthIs, SubscriptionsAssumption
       DEF FirstPeriod, IInv, Bills
  <2>2. Bought(b) = {[ends |-> FirstPeriod(b), from |-> 0]}
    BY <1>1 DEF Bought, FirstBought
  <2>3. IsFiniteSet(Bought(b))
    BY <2>2, FS_Singleton
  <2> QED BY <1>1, <2>1, <2>2, <2>3 DEF Period, Dated, Follows
<1>2. CASE b \notin AddOn
  <2> DEFINE due == Renewals(b[2])
             f == [i \in due |-> [ends |-> AddMonth(rows[i].ends), from |-> i]]
  <2>1. /\ b[2] \in 0 .. Months - 1
        /\ Bought(b) = {[ends |-> AddMonth(rows[i].ends), from |-> i] :
                          i \in due}
    BY <1>2, BillIs DEF Bought
  <2>2. \A i \in due : Dated(AddMonth(rows[i].ends))
    <3>1. \A i \in due : Dated(rows[i].ends)
                         /\ MonthOf(rows[i].ends \div 2) <= Months
      BY <2>1, SubscriptionsAssumption DEF Renewals, IInv, Dates
    <3> QED BY <3>1, AddMonthIs
  <2>3. due \subseteq DOMAIN rows /\ due \subseteq 0 .. MaxRows
    BY RowIs DEF Renewals, IInv
  <2>4. IsFiniteSet(due)
    <3>1. IsFiniteSet(1 .. Len(rows)) /\ DOMAIN rows = 1 .. Len(rows)
      BY RowIs, FS_Interval DEF IInv
    <3> QED BY <2>3, <3>1, FS_Subset
  <2>5. f \in Surjection(due, Bought(b))
    BY <2>1 DEF Surjection
  <2>6. IsFiniteSet(Bought(b))
    BY <2>4, <2>5, FS_Surjection
  <2>7. \A p \in Bought(b) : \E i \in due :
          p = [ends |-> AddMonth(rows[i].ends), from |-> i]
    BY <2>1
  <2> HIDE DEF due
  <2> QED BY <1>2, <2>2, <2>3, <2>6, <2>7 DEF Period, Dated, Follows
<1> QED BY <1>1, <1>2

-----------------------------------------------------------------------------
(* Steps that add no row *)

LEMMA SameRows ==
  ASSUME IInv, UNCHANGED rows
  PROVE  /\ Kept /\ Dates' /\ GivenOnce'
         /\ \A m : Renewals(m)' = Renewals(m)
         /\ \A i \in DOMAIN rows' : i \in DOMAIN rows
         /\ \A i \in DOMAIN rows :
              i \in DOMAIN rows' /\ rows'[i].status = rows[i].status
BY DEF IInv, Kept, Dates, GivenOnce, Renewals, Purchased

\* Bills as they were, and what is unheard of paid.
LEMMA SameBills ==
  ASSUME IInv, UNCHANGED <<rows, bill>>,
         \A b \in unheard' : bill[b].status = "paid"
  PROVE  BillsKept /\ Bills'
BY SameRows DEF IInv, BillsKept, Bills, LastDay

\* One worker takes up, or puts down, something that binds nobody.
LEMMA FreeStep ==
  ASSUME IInv, TypeOK', BillsKept, Bills',
         UNCHANGED <<today, rows, extension>>, NEW w \in Worker,
         \A v \in Worker \ {w} : worker'[v] = worker[v],
         worker[w].doing # "renew",
         worker'[w].doing \notin {"renew", "sweep", "bill"},
         \A b \in Bill : b \notin unheard' /\ bill'[b].status = "paid"
                         => b \notin unheard /\ bill[b].status = "paid"
  PROVE  IInv'
<1>1. /\ Kept /\ Dates' /\ GivenOnce' /\ TypeOK
      /\ today' \in Nat /\ today <= today'
  BY SameRows, TodayIs DEF IInv
<1>2. \A v \in Worker \ {w} : Renewing(v)' /\ Sweeping(v)' /\ Billing(v)'
  BY <1>1, SameRows, OthersKept
<1>3. Renewing(w)' /\ Sweeping(w)' /\ Billing(w)'
  BY DEF Renewing, Sweeping, Billing
<1>4. PaidIsGiven'
  BY <1>1, HeardKept, GivenKept DEF IInv
<1>5. Watched'
  BY SameRows, WatchedKept DEF IInv
<1>6. Continues'
  BY <1>1, SameRows, ContinuesKept DEF IInv
<1> QED BY <1>1, <1>2, <1>3, <1>4, <1>5, <1>6 DEF IInv

LEMMA BeginAcquireKeeps ==
  ASSUME IInv, NEW w \in Worker, BeginAcquire(w)
  PROVE  IInv'
<1>1. PICK course \in {"trial", "bill", "deferred"} :
        Does(w, [doing |-> "acquire", course |-> course])
  BY DEF BeginAcquire
<1>2. TypeOK'
  BY <1>1 DEF IInv, TypeOK, BeginAcquire, Does, Run
<1>3. BillsKept /\ Bills'
  BY SameBills DEF BeginAcquire, IInv, Bills
<1>4. /\ worker'[w].doing = "acquire"
      /\ \A v \in Worker \ {w} : worker'[v] = worker[v]
  BY <1>1 DEF Does, IInv, TypeOK
<1> QED BY <1>2, <1>3, <1>4, FreeStep DEF BeginAcquire

\* A worker that goes idle.
LEMMA GoesIdle ==
  ASSUME IInv, NEW w \in Worker, Does(w, Idle)
  PROVE  /\ worker' \in [Worker -> Run] /\ worker'[w].doing = "idle"
         /\ \A v \in Worker \ {w} : worker'[v] = worker[v]
BY DEF Does, Idle, IInv, TypeOK, Run

LEMMA IssueBillKeeps ==
  ASSUME IInv, NEW w \in Worker, IssueBill(w)
  PROVE  IInv'
<1> DEFINE new == [status |-> "sent", day |-> today, lines |-> {},
                   credit |-> FALSE]
<1>1. PICK n \in 1 .. MaxAddOns :
        /\ bill[<<"add-on", n>>].status = "none"
        /\ bill' = [bill EXCEPT ![<<"add-on", n>>] = new]
  BY DEF IssueBill
<1>2. <<"add-on", n>> \in AddOn /\ <<"add-on", n>> \in Bill
      /\ <<"add-on", n>> \notin Monthly
  BY DEF AddOn, Bill, Monthly
<1>3. new \in Invoice
  BY TodayIs DEF IInv, Invoice
<1>4. /\ bill' \in [Bill -> Invoice] /\ bill'[<<"add-on", n>>] = new
      /\ \A b \in Bill : b # <<"add-on", n>> => bill'[b] = bill[b]
  BY <1>1, <1>2, <1>3 DEF IInv, TypeOK
<1>5. TypeOK'
  BY <1>4, GoesIdle DEF IInv, TypeOK, IssueBill, LastDay
<1>6. BillsKept
  BY <1>1, <1>4 DEF BillsKept
<1>7. Bills'
  <2>1. \A b \in unheard' : b \in Bill /\ b # <<"add-on", n>>
    BY <1>1 DEF IInv, Bills, IssueBill, TypeOK
  <2>2. \A b \in Bill : bill'[b].day \in 0 .. LastDay
    <3>1. new.day \in 0 .. LastDay
      BY DEF IInv, TypeOK
    <3> QED BY <1>4, <3>1 DEF IInv, Bills
  <2>3. \A b \in Monthly : b \in Bill /\ bill'[b] = bill[b]
    BY <1>2, <1>4 DEF Bill
  <2> QED BY <1>4, <2>1, <2>2, <2>3, SameRows
          DEF IInv, Bills, IssueBill, LastDay
<1>8. \A b \in Bill : b \notin unheard' /\ bill'[b].status = "paid"
                      => b \notin unheard /\ bill[b].status = "paid"
  BY <1>4 DEF IssueBill
<1> QED BY <1>5, <1>6, <1>7, <1>8, GoesIdle, FreeStep DEF IssueBill

LEMMA ResumeKeeps ==
  ASSUME IInv, NEW w \in Worker, Resume(w)
  PROVE  IInv'
<1>1. TypeOK'
  BY GoesIdle DEF IInv, TypeOK, Resume, LastDay
<1>2. BillsKept /\ Bills'
  BY SameBills DEF Resume, IInv, Bills
<1>3. /\ Kept /\ Dates' /\ GivenOnce' /\ TypeOK
      /\ today' \in Nat /\ today <= today'
  BY SameRows, TodayIs DEF IInv, Resume
<1>4. \A v \in Worker \ {w} : Renewing(v)' /\ Sweeping(v)' /\ Billing(v)'
  BY <1>2, <1>3, SameRows, GoesIdle, OthersKept DEF Resume
<1>5. Renewing(w)' /\ Sweeping(w)' /\ Billing(w)'
  BY GoesIdle DEF Renewing, Sweeping, Billing, Resume
<1>6. PaidIsGiven'
  BY <1>2, <1>3, GoesIdle, HeardKept, GivenKept DEF IInv, Resume
<1>7. Watched'
  <2>1. CASE extension' = extension
    BY <2>1, SameRows, WatchedKept, GoesIdle DEF IInv, Resume
  <2>2. CASE Entitled
    <3>1. Entitled'
      BY <2>2 DEF Entitled, Live, Now, Resume
    <3>2. \A v \in Worker : Sweeping(v)'
      BY <1>4, <1>5
    <3> QED BY <1>1, <3>1, <3>2, WatchedLive
  <2> QED BY <2>1, <2>2 DEF Resume
<1>8. Continues'
  BY <1>2, <1>3, SameRows, ContinuesKept DEF IInv, Resume
<1> QED BY <1>1, <1>2, <1>3, <1>4, <1>5, <1>6, <1>7, <1>8 DEF IInv

\* A report is taken up: the bill is nobody else's, and what it buys is written
\* or to be written.
LEMMA BeginRenewKeeps ==
  ASSUME IInv, NEW w \in Worker, NEW b \in Bill, BeginRenew(w, b)
  PROVE  IInv'
<1> DEFINE periods == {p \in Bought(b) : ~ Written(p.ends)}
           settles == {i \in DOMAIN rows : /\ rows[i].status = "grace"
                                           /\ \E p \in periods : p.from = i}
           run == [doing |-> "renew", bill |-> b, periods |-> periods,
                   settles |-> settles]
<1>1. worker' = [worker EXCEPT ![w] = run] /\ worker[w].doing = "idle"
  BY DEF BeginRenew, Does
<1>2. /\ IsFiniteSet(periods) /\ periods \subseteq Period
      /\ \A p \in periods : Dated(p.ends) /\ Follows(b, p.ends, p.from)
  BY BoughtIs, FS_Subset
<1>3. /\ settles \subseteq 1 .. MaxRows
      /\ \A i \in settles :
           /\ i \in DOMAIN rows
           /\ \E p \in periods : p.ends = AddMonth(rows[i].ends)
  <2>1. settles \subseteq DOMAIN rows
    OBVIOUS
  <2>2. \A i \in settles : \E p \in periods : p.from = i
    OBVIOUS
  <2> HIDE DEF periods, settles
  <2>3. \A i \in DOMAIN rows : i \in 1 .. MaxRows /\ i # 0
    BY RowIs, SubscriptionsAssumption DEF IInv
  <2> QED BY <1>2, <2>1, <2>2, <2>3 DEF Follows
<1>4. run \in Run
  <2> HIDE DEF periods, settles
  <2> QED BY <1>2, <1>3 DEF Run
<1>5. /\ worker' \in [Worker -> Run] /\ worker'[w] = run
      /\ \A v \in Worker \ {w} : worker'[v] = worker[v]
  BY <1>1, <1>4 DEF IInv, TypeOK
<1>6. TypeOK'
  BY <1>5 DEF IInv, TypeOK, BeginRenew, LastDay
<1>7. BillsKept /\ Bills'
  BY SameBills DEF BeginRenew, IInv, Bills
<1>8. /\ Kept /\ Dates' /\ GivenOnce' /\ TypeOK
      /\ today' \in Nat /\ today <= today'
  BY SameRows, TodayIs DEF IInv, BeginRenew
<1>9. \A v \in Worker \ {w} : worker[v].doing = "renew" => worker[v].bill # b
  BY DEF BeginRenew, Free
<1>10. \A v \in Worker \ {w} : Renewing(v)' /\ Sweeping(v)' /\ Billing(v)'
  BY <1>5, <1>7, <1>8, <1>9, SameRows, OthersKept DEF BeginRenew
<1>11. bill[b].status = "paid" /\ bill' = bill /\ rows' = rows
  BY DEF BeginRenew, IInv, Bills
<1>12. \A e \in Charged(b) : \E p \in Bought(b) : p.ends = e
  <2>1. CASE b \in AddOn
    BY <2>1 DEF Charged, Bought, FirstBought
  <2>2. CASE b \notin AddOn
    <3>1. bill[b].lines \subseteq Renewals(b[2])
      BY <2>2, BillIs DEF IInv, Bills
    <3>2. \A l \in bill[b].lines :
            [ends |-> AddMonth(rows[l].ends), from |-> l] \in Bought(b)
      BY <2>2, <3>1 DEF Bought
    <3>3. \A e \in Charged(b) :
            \E l \in bill[b].lines : e = AddMonth(rows[l].ends)
      BY <2>2 DEF Charged
    <3> QED BY <3>2, <3>3
  <2> QED BY <2>1, <2>2
<1>13. Renewing(w)'
  <2>1. ASSUME NEW i \in DOMAIN rows, rows[i].by = b, NEW p \in periods
        PROVE  p.from # rows[i].from
    <3>1. Purchased(i)
      BY <2>1, BillsAreNot DEF Purchased, Otherwise
    <3>2. p.ends # rows[i].ends
      BY <3>1 DEF Written
    <3>3. /\ Follows(b, rows[i].ends, rows[i].from)
          /\ Follows(b, p.ends, p.from)
      BY <1>2, <2>1 DEF IInv, Continues
    <3> QED BY <3>2, <3>3 DEF Follows
  <2>2. \A e \in Charged(b) : Written(e) \/ \E p \in periods : p.ends = e
    BY <1>12
  <2>3. Charged(b)' = Charged(b) /\ \A e : Written(e)' = Written(e)
    BY <1>11 DEF Charged, FirstPeriod, Written, Purchased
  <2>4. /\ worker'[w].bill = b /\ worker'[w].periods = periods
        /\ worker'[w].settles = settles
    BY <1>5
  <2>5. \A p \in periods : Follows(b, p.ends, p.from)'
    BY <1>2, <1>11 DEF Follows, FirstPeriod
  <2> HIDE DEF periods, settles, run
  <2> QED BY <1>2, <1>3, <1>5, <1>9, <1>11, <2>1, <2>2, <2>3, <2>4, <2>5
          DEF Renewing, Dated, Day
<1>14. Sweeping(w)' /\ Billing(w)'
  BY <1>5 DEF Sweeping, Billing
<1>15. PaidIsGiven'
  <2>1. \A d \in Bill : Heard(d)' => Heard(d)
    <3> SUFFICES ASSUME NEW d \in Bill, Heard(d)' PROVE Heard(d)
      OBVIOUS
    <3>1. d # b
      BY <1>5 DEF Heard, Free
    <3>2. d \notin unheard /\ bill[d].status = "paid"
      BY <1>11, <3>1 DEF Heard, BeginRenew
    <3>3. \A v \in Worker : worker[v].doing = "renew" => worker[v].bill # d
      BY <1>1, <1>5 DEF Heard, Free
    <3> QED BY <3>2, <3>3 DEF Heard, Free
  <2> QED BY <1>7, <1>8, <2>1, GivenKept DEF IInv
<1>16. Watched'
  <2>1. \A v \in Worker : worker'[v].doing = "sweep" => worker'[v] = worker[v]
    BY <1>5
  <2> QED BY <2>1, SameRows, WatchedKept DEF IInv, BeginRenew
<1> HIDE DEF run, periods, settles
<1>17. \A v \in Worker : Renewing(v)' /\ Sweeping(v)' /\ Billing(v)'
  BY <1>10, <1>13, <1>14
<1>18. Continues'
  BY <1>7, <1>8, <1>11, SameRows, ContinuesKept DEF IInv
<1> QED BY <1>6, <1>7, <1>8, <1>15, <1>16, <1>17, <1>18 DEF IInv

LEMMA BeginBillingKeeps ==
  ASSUME IInv, NEW w \in Worker, NEW m \in 0 .. Months - 1, BeginBilling(w, m)
  PROVE  IInv'
<1> DEFINE run == [doing |-> "bill", month |-> m, lines |-> Renewals(m),
                   credit |-> ~ creditSpent]
<1>1. worker' = [worker EXCEPT ![w] = run] /\ worker[w].doing = "idle"
  BY DEF BeginBilling, Does
<1>2. Renewals(m) \subseteq 1 .. MaxRows
  BY RowIs DEF Renewals, IInv
<1>3. run \in Run
  BY <1>2 DEF Run, IInv, TypeOK
<1>4. /\ worker' \in [Worker -> Run] /\ worker'[w] = run
      /\ \A v \in Worker \ {w} : worker'[v] = worker[v]
  BY <1>1, <1>3 DEF IInv, TypeOK
<1>5. TypeOK'
  BY <1>4 DEF IInv, TypeOK, BeginBilling, LastDay
<1>6. BillsKept /\ Bills'
  BY SameBills DEF BeginBilling, IInv, Bills
<1>7. /\ Kept /\ Dates' /\ GivenOnce' /\ TypeOK
      /\ today' \in Nat /\ today <= today'
  BY SameRows, TodayIs DEF IInv, BeginBilling
<1>8. \A v \in Worker \ {w} : Renewing(v)' /\ Sweeping(v)' /\ Billing(v)'
  BY <1>4, <1>6, <1>7, SameRows, OthersKept DEF BeginBilling
<1>9. Renewing(w)' /\ Sweeping(w)' /\ Billing(w)'
  BY <1>4, <1>7, RenewalsKept DEF Renewing, Sweeping, Billing
<1>10. PaidIsGiven'
  <2>1. \A v \in Worker : worker[v].doing = "renew" => worker'[v] = worker[v]
    BY <1>1, <1>4
  <2> QED BY <1>6, <1>7, <2>1, HeardKept, GivenKept DEF IInv, BeginBilling
<1>11. Watched'
  <2>1. \A v \in Worker : worker'[v].doing = "sweep" => worker'[v] = worker[v]
    BY <1>4
  <2> QED BY <2>1, SameRows, WatchedKept DEF IInv, BeginBilling
<1>12. Continues'
  BY <1>6, <1>7, SameRows, ContinuesKept DEF IInv, BeginBilling
<1> HIDE DEF run
<1> QED BY <1>5, <1>6, <1>7, <1>8, <1>9, <1>10, <1>11, <1>12 DEF IInv

\* A month is billed once, for what was found due: by then it still is.
LEMMA FinishBillingKeeps ==
  ASSUME IInv, NEW w \in Worker, FinishBilling(w)
  PROVE  IInv'
<1> DEFINE b == <<"month", worker[w].month>>
           new == [status |-> "sent", day |-> 0, lines |-> worker[w].lines,
                   credit |-> worker[w].credit]
<1>1. /\ worker[w].doing = "bill" /\ Does(w, Idle)
      /\ UNCHANGED <<today, rows, unheard, extension>>
  BY DEF FinishBilling
<1>2. /\ worker[w].month \in 0 .. Months - 1
      /\ worker[w].lines \subseteq 1 .. MaxRows /\ worker[w].credit \in BOOLEAN
  BY <1>1, RunIs DEF IInv
<1>3. CASE UNCHANGED <<bill, creditSpent, regiven>>
  <2>1. BillsKept /\ Bills'
    BY <1>1, <1>3, SameBills DEF IInv, Bills
  <2>2. TypeOK'
    BY <1>1, <1>3, GoesIdle DEF IInv, TypeOK, LastDay
  <2> QED BY <1>1, <1>3, <2>1, <2>2, GoesIdle, FreeStep
<1>4. CASE /\ bill[b].status = "none" /\ bill' = [bill EXCEPT ![b] = new]
           /\ creditSpent' = (creditSpent \/ worker[w].credit)
           /\ regiven' \subseteq regiven \cup {b}
  <2>1. b \in Monthly /\ b \in Bill /\ b[2] = worker[w].month
    BY <1>2, MonthlyIs
  <2>2. new \in Invoice
    BY <1>2 DEF Invoice
  <2>3. /\ bill' \in [Bill -> Invoice] /\ bill'[b] = new
        /\ \A d \in Bill : d # b => bill'[d] = bill[d]
    BY <1>4, <2>1, <2>2 DEF IInv, TypeOK
  <2>4. TypeOK'
    BY <1>1, <1>2, <1>4, <2>1, <2>3, GoesIdle DEF IInv, TypeOK, LastDay
  <2>5. BillsKept
    BY <1>4, <2>3 DEF BillsKept
  <2>6. Bills'
    <3>1. \A d \in unheard' : d \in Bill /\ d # b
      BY <1>1, <1>4 DEF IInv, Bills, TypeOK
    <3>2. \A d \in Bill : bill'[d].day \in 0 .. LastDay
      <4>1. 0 \in 0 .. LastDay
        BY SubscriptionsAssumption DEF IInv, TypeOK, LastDay
      <4> QED BY <4>1, <2>3 DEF IInv, Bills
    <3>3. \A d \in Monthly : bill'[d].lines \subseteq Renewals(d[2])
      <4>1. worker[w].lines \subseteq Renewals(b[2])
        BY <1>1, <2>1 DEF IInv, Billing
      <4> QED BY <4>1, <2>3 DEF IInv, Bills, Bill
    <3>4. \A m : Renewals(m)' = Renewals(m)
      BY <1>1, SameRows
    <3> QED BY <1>1, <2>3, <3>1, <3>2, <3>3, <3>4
            DEF Bills, LastDay, IInv
  <2>7. \A d \in Bill : d \notin unheard' /\ bill'[d].status = "paid"
                        => d \notin unheard /\ bill[d].status = "paid"
    BY <1>1, <2>3
  <2> HIDE DEF new, b
  <2> QED BY <1>1, <2>4, <2>5, <2>6, <2>7, GoesIdle, FreeStep
<1> QED BY <1>3, <1>4 DEF FinishBilling, Issue, Regives

\* A report that goes with its process is as one not handled yet.
LEMMA CrashKeeps ==
  ASSUME IInv, NEW w \in Worker, Crash(w)
  PROVE  IInv'
<1>1. /\ Does(w, Idle)
      /\ UNCHANGED <<today, rows, bill, extension, creditSpent, regiven>>
      /\ unheard' = IF worker[w].doing = "renew"
                      THEN unheard \cup {worker[w].bill} ELSE unheard
  BY DEF Crash
<1>2. \A b \in unheard' : b \in Bill /\ bill[b].status = "paid"
  BY <1>1, RunIs DEF IInv, Renewing, Bills, TypeOK
<1>3. BillsKept /\ Bills'
  BY <1>1, <1>2, SameBills
<1>4. TypeOK'
  BY <1>1, <1>2, GoesIdle DEF IInv, TypeOK, LastDay
<1>5. /\ Kept /\ Dates' /\ GivenOnce' /\ TypeOK
      /\ today' \in Nat /\ today <= today'
  BY <1>1, SameRows, TodayIs DEF IInv
<1>6. \A v \in Worker \ {w} : Renewing(v)' /\ Sweeping(v)' /\ Billing(v)'
  BY <1>1, <1>3, <1>5, SameRows, GoesIdle, OthersKept
<1>7. Renewing(w)' /\ Sweeping(w)' /\ Billing(w)'
  BY <1>1, GoesIdle DEF Renewing, Sweeping, Billing
<1>8. PaidIsGiven'
  <2>1. \A b \in Bill : Heard(b)' => Heard(b)
    BY <1>1, GoesIdle DEF Heard, Free
  <2> QED BY <1>3, <1>5, <2>1, GivenKept DEF IInv
<1>9. Watched'
  <2>1. \A v \in Worker : worker'[v].doing = "sweep" => worker'[v] = worker[v]
    BY <1>1, GoesIdle
  <2> QED BY <1>1, <2>1, SameRows, WatchedKept DEF IInv
<1>10. \A v \in Worker : Renewing(v)' /\ Sweeping(v)' /\ Billing(v)'
  BY <1>6, <1>7
<1>11. Continues'
  BY <1>1, <1>3, <1>5, SameRows, ContinuesKept DEF IInv
<1> QED BY <1>3, <1>4, <1>5, <1>8, <1>9, <1>10, <1>11 DEF IInv

\* A sweep that finds the extension in use and will not pause it leaves a live
\* row alone, and no other sweep has that one.
LEMMA BeginSweepKeeps ==
  ASSUME IInv, NEW w \in Worker, BeginSweep(w)
  PROVE  IInv'
<1> DEFINE late == {i \in DOMAIN rows :
                      rows[i].status = "active" /\ rows[i].ends < Now}
           over == {i \in DOMAIN rows :
                      /\ rows[i].status = "grace" \/ i \in late
                      /\ Over(i)}
           pauses == /\ over # {}
                     /\ ~ \E i \in DOMAIN rows \ over : Live(i)
                     /\ extension = "active"
           run == [doing |-> "sweep", late |-> late, over |-> over,
                   pauses |-> pauses]
<1>1. worker' = [worker EXCEPT ![w] = run] /\ worker[w].doing = "idle"
  BY DEF BeginSweep, Does
<1>2. late \subseteq 1 .. MaxRows /\ over \subseteq 1 .. MaxRows
  BY RowIs DEF IInv
<1>3. run \in Run
  <2>1. pauses \in BOOLEAN
    OBVIOUS
  <2> HIDE DEF late, over, pauses
  <2> QED BY <1>2, <2>1 DEF Run
<1>4. /\ worker' \in [Worker -> Run] /\ worker'[w] = run
      /\ \A v \in Worker \ {w} : worker'[v] = worker[v]
  BY <1>1, <1>3 DEF IInv, TypeOK
<1>5. TypeOK'
  BY <1>4 DEF IInv, TypeOK, BeginSweep, LastDay
<1>6. BillsKept /\ Bills'
  BY SameBills DEF BeginSweep, IInv, Bills
<1>7. /\ Kept /\ Dates' /\ GivenOnce' /\ TypeOK
      /\ today' \in Nat /\ today <= today'
  BY SameRows, TodayIs DEF IInv, BeginSweep
<1>8. \A v \in Worker \ {w} : Renewing(v)' /\ Sweeping(v)' /\ Billing(v)'
  BY <1>4, <1>6, <1>7, SameRows, OthersKept DEF BeginSweep
<1>9. worker'[w].over = over /\ worker'[w].pauses = pauses
      /\ worker'[w].doing = "sweep" /\ UNCHANGED <<today, rows, extension>>
  BY <1>4 DEF BeginSweep
<1>10. Renewing(w)' /\ Billing(w)'
  BY <1>9 DEF Renewing, Billing
<1>11. Sweeping(w)'
  <2>1. \A i \in over : i \in DOMAIN rows /\ Over(i)
    OBVIOUS
  <2> HIDE DEF over
  <2> QED BY <1>9, <2>1 DEF Sweeping, Over, Now
<1>12. PaidIsGiven'
  <2>1. \A v \in Worker : worker[v].doing = "renew" => worker'[v] = worker[v]
    BY <1>1, <1>4
  <2> QED BY <1>6, <1>7, <2>1, HeardKept, GivenKept DEF IInv, BeginSweep
<1>13. Watched'
  <2> SUFFICES ASSUME extension = "active" PROVE Watched'
    BY <1>9 DEF Watched
  <2>1. CASE pauses \/ over = {}
    <3>1. PICK i \in DOMAIN rows :
            /\ rows[i].status # "ended"
            /\ \A v \in Worker :
                 worker[v].doing = "sweep" /\ ~ worker[v].pauses
                   => i \notin worker[v].over
      BY DEF Watched, IInv
    <3>2. \A v \in Worker : worker'[v].doing = "sweep" /\ ~ worker'[v].pauses
                            => i \notin worker'[v].over
      <4> HIDE DEF pauses, over, run
      <4> QED BY <1>4, <1>9, <2>1, <3>1
    <3> QED BY <1>9, <3>1, <3>2 DEF Watched
  <2>2. CASE ~ (pauses \/ over = {})
    <3>1. \E i \in DOMAIN rows \ over : Live(i)
      BY <2>2
    <3>2. Entitled'
      BY <1>9, <3>1 DEF Entitled, Live, Now
    <3>3. \A v \in Worker : Sweeping(v)'
      BY <1>8, <1>11
    <3> QED BY <1>5, <3>2, <3>3, WatchedLive
  <2> QED BY <2>1, <2>2
<1> HIDE DEF run, late, over, pauses
<1>14. \A v \in Worker : Renewing(v)' /\ Sweeping(v)' /\ Billing(v)'
  BY <1>8, <1>10, <1>11
<1>15. Continues'
  BY <1>6, <1>7, <1>9, SameRows, ContinuesKept DEF IInv
<1> QED BY <1>5, <1>6, <1>7, <1>12, <1>13, <1>14, <1>15 DEF IInv

\* A sweep ends no row that another writer needs, but the one that pauses.
LEMMA FinishSweepKeeps ==
  ASSUME IInv, NEW w \in Worker, FinishSweep(w)
  PROVE  IInv'
<1> DEFINE new(i) ==
       IF i \in worker[w].over /\ rows[i].status # "ended"
         THEN [rows[i] EXCEPT !.status = "ended"]
       ELSE IF i \in worker[w].late /\ rows[i].status = "active"
         THEN [rows[i] EXCEPT !.status = "grace"]
       ELSE rows[i]
<1>1. /\ worker[w].doing = "sweep" /\ Does(w, Idle)
      /\ rows' = [i \in DOMAIN rows |-> new(i)]
      /\ extension' = IF worker[w].pauses THEN "paused" ELSE extension
      /\ UNCHANGED <<today, bill, unheard, creditSpent, regiven>>
  BY DEF FinishSweep
<1>2. /\ DOMAIN rows = 1 .. Len(rows) /\ Len(rows) \in Nat
      /\ \A i \in DOMAIN rows : rows[i] \in Row
  BY RowIs DEF IInv
<1>3. \A i \in DOMAIN rows :
        /\ new(i) \in Row
        /\ new(i).ends = rows[i].ends /\ new(i).by = rows[i].by
        /\ new(i).from = rows[i].from
        /\ rows[i].status = "ended" => new(i).status = "ended"
        /\ i \notin worker[w].over /\ rows[i].status # "ended"
             => new(i).status # "ended"
  BY <1>2 DEF Row
<1> HIDE DEF new
<1>4. /\ rows' \in Seq(Row) /\ Len(rows') = Len(rows)
      /\ DOMAIN rows' = DOMAIN rows /\ \A i \in DOMAIN rows : rows'[i] = new(i)
  BY <1>1, <1>2, <1>3
<1>5. TypeOK'
  BY <1>1, <1>4, GoesIdle DEF IInv, TypeOK, LastDay
<1>6. Kept /\ Dates' /\ TypeOK /\ today' \in Nat /\ today <= today'
  BY <1>1, <1>3, <1>4, TodayIs DEF Kept, IInv, Dates
<1>7. GivenOnce'
  BY <1>3, <1>4 DEF GivenOnce, IInv
<1>8. BillsKept /\ Bills'
  <2>1. \A m : Renewals(m) \subseteq Renewals(m)'
    BY <1>6, RenewalsKept
  <2> QED BY <1>1, <2>1, BillIs DEF BillsKept, Bills, IInv, LastDay, Bill
<1>9. \A v \in Worker \ {w} : Renewing(v)' /\ Sweeping(v)' /\ Billing(v)'
  BY <1>1, <1>4, <1>6, <1>8, GoesIdle, OthersKept
<1>10. Renewing(w)' /\ Sweeping(w)' /\ Billing(w)'
  BY <1>1, GoesIdle DEF Renewing, Sweeping, Billing
<1>11. PaidIsGiven'
  <2>1. \A v \in Worker : worker[v].doing = "renew" => worker'[v] = worker[v]
    BY <1>1, GoesIdle
  <2> QED BY <1>1, <1>6, <1>8, <2>1, HeardKept, GivenKept DEF IInv
<1>12. Watched'
  <2> SUFFICES ASSUME extension' = "active" PROVE Watched'
    BY DEF Watched
  <2>1. extension = "active" /\ ~ worker[w].pauses
    BY <1>1
  <2>2. PICK i \in DOMAIN rows :
          /\ rows[i].status # "ended"
          /\ \A v \in Worker :
               worker[v].doing = "sweep" /\ ~ worker[v].pauses
                 => i \notin worker[v].over
    BY <2>1 DEF Watched, IInv
  <2>3. i \in DOMAIN rows' /\ rows'[i].status # "ended"
    BY <1>1, <1>3, <1>4, <2>1, <2>2
  <2>4. \A v \in Worker : worker'[v].doing = "sweep" /\ ~ worker'[v].pauses
                          => i \notin worker'[v].over
    BY <1>1, <2>2, GoesIdle
  <2> QED BY <2>3, <2>4 DEF Watched
<1>13. \A v \in Worker : Renewing(v)' /\ Sweeping(v)' /\ Billing(v)'
  BY <1>9, <1>10
<1>14. Continues'
  BY <1>4, <1>6, <1>8, ContinuesKept DEF IInv
<1> QED BY <1>5, <1>6, <1>7, <1>8, <1>11, <1>12, <1>13, <1>14 DEF IInv

-----------------------------------------------------------------------------
(* Steps that add rows *)

\* A row that no bill bought is in nobody's way.
LEMMA OneMore ==
  ASSUME IInv, NEW ends, Dated(ends), NEW by \in Otherwise,
         Len(rows) < MaxRows, rows' = Append(rows, NewRow(ends, 0, by)),
         NEW w \in Worker, worker' \in [Worker -> Run],
         worker'[w].doing \in {"idle", "resume"},
         worker[w].doing # "renew",
         \A v \in Worker \ {w} : worker'[v] = worker[v],
         extension' \in {"active", extension},
         UNCHANGED <<today, bill, unheard, creditSpent, regiven>>
  PROVE  IInv'
<1> DEFINE n == Len(rows) + 1
<1>1. /\ DOMAIN rows = 1 .. Len(rows) /\ Len(rows) \in Nat
      /\ \A i \in DOMAIN rows : rows[i] \in Row
      /\ rows \in Seq(Row)
  BY RowIs DEF IInv, TypeOK
<1>2. NewRow(ends, 0, by) \in Row
  BY SubscriptionsAssumption DEF NewRow, Row, Dated
<1>3. /\ rows' \in Seq(Row) /\ Len(rows') = n
      /\ DOMAIN rows' = DOMAIN rows \cup {n} /\ n \notin DOMAIN rows
      /\ rows'[n] = NewRow(ends, 0, by)
      /\ \A i \in DOMAIN rows : rows'[i] = rows[i]
  BY <1>1, <1>2
<1>4. /\ rows'[n].ends = ends /\ rows'[n].by = by
      /\ rows'[n].status = "active"
  BY <1>3 DEF NewRow
<1>5. by \notin Bill
  BY BillsAreNot
<1> HIDE DEF n
<1>6. TypeOK'
  <2>1. Len(rows') <= MaxRows
    BY <1>1, <1>3, SubscriptionsAssumption DEF n
  <2>2. extension' \in {"inactive", "active", "paused"}
    BY DEF IInv, TypeOK
  <2> QED BY <1>3, <2>1, <2>2 DEF IInv, TypeOK, LastDay
<1>7. Kept /\ Dates' /\ TypeOK /\ today' \in Nat /\ today <= today'
  BY <1>3, <1>4, TodayIs DEF Kept, IInv, Dates, Dated, Day
<1>8. GivenOnce'
  BY <1>3, <1>4, <1>5 DEF GivenOnce, IInv
<1>9. BillsKept /\ Bills'
  <2>1. \A m : Renewals(m) \subseteq Renewals(m)'
    BY <1>7, RenewalsKept
  <2> QED BY <2>1, BillIs DEF BillsKept, Bills, IInv, LastDay, Bill
<1>10. \A v \in Worker \ {w} : Renewing(v)' /\ Sweeping(v)' /\ Billing(v)'
  <2>1. \A v \in Worker \ {w} : worker[v].doing = "renew" =>
          \A i \in DOMAIN rows' :
            i \notin DOMAIN rows => rows'[i].by # worker[v].bill
    BY <1>3, <1>4, <1>5, RunIs DEF IInv
  <2> QED BY <1>7, <1>9, <2>1, OthersKept
<1>11. Renewing(w)' /\ Sweeping(w)' /\ Billing(w)'
  BY DEF Renewing, Sweeping, Billing
<1>12. PaidIsGiven'
  BY <1>7, <1>9, HeardKept, GivenKept DEF IInv
<1>13. Watched'
  BY <1>3, <1>4, WatchedNew DEF IInv
<1>14. \A v \in Worker : Renewing(v)' /\ Sweeping(v)' /\ Billing(v)'
  BY <1>10, <1>11
<1>15. Continues'
  BY <1>3, <1>4, <1>5, <1>7, <1>9, ContinuesKept DEF IInv
<1> QED BY <1>6, <1>7, <1>8, <1>9, <1>12, <1>13, <1>14, <1>15 DEF IInv

\* A month from now, and the end of a trial.
LEMMA TermsEnd ==
  ASSUME TypeOK
  PROVE  Dated(AddMonth(Now)) /\ Dated(Now + 2 * TrialDays)
<1>1. Dated(AddMonth(Now))
  BY EarlyMoment, AddMonthIs DEF Now, TypeOK
<1>2. /\ today \in Nat /\ today < FirstDay[Months] /\ TrialDays \in Nat
      /\ FirstDay[Months] \in Nat /\ FirstDay[Months + 2] \in Nat
      /\ FirstDay[Months] + TrialDays <= FirstDay[Months + 2]
  BY SubscriptionsAssumption DEF TypeOK, LastDay
<1>3. /\ (2 * today + 1) + 2 * TrialDays \in Nat
      /\ ((2 * today + 1) + 2 * TrialDays) \div 2 = today + TrialDays
  BY <1>2
<1>4. today + TrialDays \in Day
  BY <1>2 DEF Day
<1> QED BY <1>1, <1>3, <1>4 DEF Dated, Now

LEMMA EntitleKeeps ==
  ASSUME IInv, NEW w \in Worker, Entitle(w)
  PROVE  IInv'
<1>1. /\ worker[w].doing = "acquire" /\ Does(w, Idle)
      /\ worker[w].course \in {"trial", "deferred"}
      /\ Len(rows) < MaxRows
      /\ UNCHANGED <<today, bill, unheard, creditSpent, regiven>>
  BY DEF Entitle
<1>2. CASE UNCHANGED <<rows, extension>>
  <2>1. BillsKept /\ Bills'
    BY <1>1, <1>2, SameBills DEF IInv, Bills
  <2>2. TypeOK'
    BY <1>1, <1>2, GoesIdle DEF IInv, TypeOK, LastDay
  <2> QED BY <1>1, <1>2, <2>1, <2>2, GoesIdle, FreeStep
<1>3. ASSUME ~ UNCHANGED <<rows, extension>> PROVE IInv'
  <2> DEFINE ends == IF worker[w].course = "trial" THEN Now + 2 * TrialDays
                                                   ELSE AddMonth(Now)
             by == <<worker[w].course, 0>>
  <2>1. rows' = Append(rows, NewRow(ends, 0, by)) /\ extension' = "active"
    BY <1>3 DEF Entitle
  <2>2. Dated(ends) /\ by \in Otherwise
    BY <1>1, TermsEnd DEF IInv, Otherwise
  <2> HIDE DEF ends, by
  <2> QED BY <1>1, <2>1, <2>2, GoesIdle, OneMore
<1> QED BY <1>2, <1>3

LEMMA GrantKeeps ==
  ASSUME IInv, NEW w \in Worker, Grant(w)
  PROVE  IInv'
<1>1. /\ worker[w].doing = "idle"
      /\ worker' = [worker EXCEPT ![w] = [doing |-> "resume"]]
      /\ Len(rows) < MaxRows
      /\ rows' = Append(rows, NewRow(AddMonth(Now), 0, <<"granted", 0>>))
      /\ UNCHANGED <<today, bill, unheard, extension, creditSpent, regiven>>
  BY DEF Grant, Does
<1>2. [doing |-> "resume"] \in Run
  BY DEF Run
<1>3. /\ worker' \in [Worker -> Run] /\ worker'[w].doing = "resume"
      /\ \A v \in Worker \ {w} : worker'[v] = worker[v]
  BY <1>1, <1>2 DEF IInv, TypeOK
<1>4. Dated(AddMonth(Now)) /\ <<"granted", 0>> \in Otherwise
  BY TermsEnd DEF IInv, Otherwise
<1> QED BY <1>1, <1>3, <1>4, OneMore

\* What renew_for_invoice writes: one row of the bill for each period, after
\* the rows there were.
LEMMA Renewed ==
  ASSUME IInv, NEW w \in Worker, FinishRenew(w)
  PROVE  /\ rows' \in Seq(Row) /\ Len(rows') <= MaxRows
         /\ Len(rows') \in Nat /\ Len(rows) \in Nat /\ Len(rows) <= Len(rows')
         /\ DOMAIN rows = 1 .. Len(rows) /\ DOMAIN rows' = 1 .. Len(rows')
         /\ \A i \in DOMAIN rows :
              /\ rows'[i].ends = rows[i].ends /\ rows'[i].by = rows[i].by
              /\ rows'[i].from = rows[i].from
              /\ rows[i].status = "ended" => rows'[i].status = "ended"
              /\ rows'[i].status # rows[i].status
                   => i \in worker[w].settles /\ rows'[i].status = "ended"
         /\ \A i \in DOMAIN rows' : i \notin DOMAIN rows =>
              /\ \E p \in worker[w].periods :
                   rows'[i].ends = p.ends /\ rows'[i].from = p.from
              /\ rows'[i].by = worker[w].bill /\ rows'[i].status = "active"
              /\ \A j \in DOMAIN rows' :
                   j \notin DOMAIN rows /\ rows'[j].from = rows'[i].from
                     => i = j
         /\ \A p \in worker[w].periods : \E i \in DOMAIN rows' :
              i \notin DOMAIN rows /\ rows'[i].ends = p.ends
<1> DEFINE n == Len(rows)
           k == Cardinality(worker[w].periods)
           old(i) == IF i \in worker[w].settles /\ rows[i].status = "grace"
                       THEN [rows[i] EXCEPT !.status = "ended"] ELSE rows[i]
<1>1. /\ worker[w].doing = "renew" /\ n + k <= MaxRows
      /\ IsFiniteSet(worker[w].periods) /\ worker[w].periods \subseteq Period
      /\ worker[w].bill \in Bill
  BY RunIs DEF FinishRenew, IInv, Renewing
<1>2. PICK f \in Bijection(1 .. k, worker[w].periods) :
        /\ \A i, j \in 1 .. k : i < j => f[i].from < f[j].from
        /\ rows' = [i \in DOMAIN rows |-> old(i)]
             \o [j \in 1 .. k |-> NewRow(f[j].ends, f[j].from, worker[w].bill)]
  BY DEF FinishRenew
<1>3. k \in Nat
  BY <1>1, FS_CardinalityType
<1>4. /\ f \in [1 .. k -> worker[w].periods]
      /\ \A p \in worker[w].periods : \E j \in 1 .. k : f[j] = p
      /\ \A j \in 1 .. k : f[j].ends \in Nat /\ f[j].from \in 0 .. MaxRows
      /\ \A i, j \in 1 .. k : f[i].from = f[j].from => i = j
  <2>1. /\ f \in [1 .. k -> worker[w].periods]
        /\ \A p \in worker[w].periods : \E j \in 1 .. k : f[j] = p
    BY DEF Bijection, Surjection
  <2>2. \A j \in 1 .. k : f[j].ends \in Nat /\ f[j].from \in 0 .. MaxRows
    BY <1>1, <2>1 DEF Period
  <2>3. \A i, j \in 1 .. k : f[i].from = f[j].from => i = j
    <3>1. \A i, j \in 1 .. k : i < j \/ j < i \/ i = j
      BY <1>3
    <3>2. \A j \in 1 .. k : f[j].from \in Int
      BY <2>2, SubscriptionsAssumption
    <3>3. \A i, j \in 1 .. k : i < j => f[i].from # f[j].from
      BY <1>2, <3>2
    <3> QED BY <3>1, <3>3
  <2> QED BY <2>1, <2>2, <2>3
<1>5. /\ DOMAIN rows = 1 .. n /\ n \in Nat
      /\ \A i \in DOMAIN rows : rows[i] \in Row
  BY RowIs DEF IInv
<1>6. \A i \in DOMAIN rows :
        /\ old(i) \in Row
        /\ old(i).ends = rows[i].ends /\ old(i).by = rows[i].by
        /\ old(i).from = rows[i].from
        /\ rows[i].status = "ended" => old(i).status = "ended"
        /\ old(i).status # rows[i].status
             => i \in worker[w].settles /\ old(i).status = "ended"
  BY <1>5 DEF Row
<1> HIDE DEF old
<1> DEFINE more(j) == NewRow(f[j].ends, f[j].from, worker[w].bill)
<1>7. \A j \in 1 .. k : more(j) \in Row
  BY <1>1, <1>4 DEF NewRow, Row
<1> DEFINE A == [i \in DOMAIN rows |-> old(i)]
           B == [j \in 1 .. k |-> more(j)]
<1>8. /\ A \in Seq(Row) /\ Len(A) = n /\ \A i \in 1 .. n : A[i] = old(i)
  BY <1>5, <1>6
<1>9. /\ B \in Seq(Row) /\ Len(B) = k
      /\ \A j \in 1 .. k : B[j] = more(j)
  BY <1>3, <1>4, <1>7
<1>10. rows' = A \o B
  BY <1>2
<1> HIDE DEF A, B, n, k, more
<1>11. /\ rows' \in Seq(Row) /\ Len(rows') = n + k /\ DOMAIN rows' = 1 .. n + k
       /\ \A i \in 1 .. n : rows'[i] = old(i)
       /\ \A i \in 1 .. n + k : i > n =>
            i - n \in 1 .. k /\ rows'[i] = more(i - n)
  <2>1. A \o B \in Seq(Row) /\ Len(A \o B) = n + k
    BY <1>3, <1>5, <1>8, <1>9
  <2>2. DOMAIN (A \o B) = 1 .. n + k
    BY <2>1
  <2>3. \A i \in 1 .. n + k : (A \o B)[i] = IF i <= n THEN A[i] ELSE B[i - n]
    BY <1>3, <1>5, <1>8, <1>9
  <2>4. \A i \in 1 .. n : i \in 1 .. n + k /\ i <= n
    BY <1>3, <1>5
  <2>5. \A i \in 1 .. n + k : i > n => i - n \in 1 .. k /\ ~ (i <= n)
    BY <1>3, <1>5
  <2>6. \A i \in 1 .. n : (A \o B)[i] = old(i)
    BY <2>3, <2>4, <1>8
  <2>7. \A i \in 1 .. n + k : i > n =>
          (A \o B)[i] = more(i - n)
    BY <2>3, <2>5, <1>9
  <2> QED BY <1>10, <2>1, <2>2, <2>5, <2>6, <2>7
<1>12. \A i \in DOMAIN rows' : i \notin DOMAIN rows =>
         /\ i - n \in 1 .. k
         /\ rows'[i].ends = f[i - n].ends /\ rows'[i].from = f[i - n].from
         /\ rows'[i].by = worker[w].bill /\ rows'[i].status = "active"
  <2>1. \A i \in DOMAIN rows' : i \notin DOMAIN rows => i > n
    BY <1>3, <1>5, <1>11
  <2> QED BY <1>11, <2>1 DEF more, NewRow
<1>13. \A i, j \in DOMAIN rows' :
         i \notin DOMAIN rows /\ j \notin DOMAIN rows
         /\ rows'[j].from = rows'[i].from => i = j
  <2>1. \A i, j \in DOMAIN rows' : i - n = j - n => i = j
    BY <1>3, <1>5, <1>11
  <2> QED BY <1>4, <1>12, <2>1
<1>14. \A p \in worker[w].periods : \E i \in DOMAIN rows' :
         i \notin DOMAIN rows /\ rows'[i].ends = p.ends
  <2> SUFFICES ASSUME NEW p \in worker[w].periods
               PROVE  \E i \in DOMAIN rows' :
                        i \notin DOMAIN rows /\ rows'[i].ends = p.ends
    OBVIOUS
  <2>1. PICK j \in 1 .. k : f[j] = p
    BY <1>4
  <2>2. n + j \in DOMAIN rows' /\ n + j \notin DOMAIN rows /\ (n + j) - n = j
    BY <1>3, <1>5, <1>11, <2>1
  <2> QED BY <1>12, <2>1, <2>2
<1>15. Len(rows') <= MaxRows /\ Len(rows') \in Nat /\ n <= Len(rows')
  BY <1>1, <1>3, <1>5, <1>11
<1>16. \A i \in DOMAIN rows :
         /\ rows'[i].ends = rows[i].ends /\ rows'[i].by = rows[i].by
         /\ rows'[i].from = rows[i].from
         /\ rows[i].status = "ended" => rows'[i].status = "ended"
         /\ rows'[i].status # rows[i].status
              => i \in worker[w].settles /\ rows'[i].status = "ended"
  BY <1>5, <1>6, <1>11
<1>17. \A i \in DOMAIN rows' : i \notin DOMAIN rows =>
         \E p \in worker[w].periods :
           rows'[i].ends = p.ends /\ rows'[i].from = p.from
  BY <1>4, <1>12
<1> QED BY <1>5, <1>11, <1>12, <1>13, <1>14, <1>15, <1>16, <1>17 DEF n

\* The rows a payment buys are its own, of periods it had not bought, and those
\* of all it charged for that nobody had.
LEMMA FinishRenewKeeps ==
  ASSUME IInv, NEW w \in Worker, FinishRenew(w)
  PROVE  IInv'
<1> DEFINE b == worker[w].bill
           periods == worker[w].periods
<1>1. /\ worker[w].doing = "renew" /\ Does(w, Idle)
      /\ UNCHANGED <<today, bill, unheard, extension, creditSpent, regiven>>
  BY DEF FinishRenew
<1>2. /\ b \in Bill /\ bill[b].status = "paid"
      /\ \A p \in periods : Dated(p.ends) /\ Follows(b, p.ends, p.from)
      /\ \A i \in worker[w].settles :
           i \in DOMAIN rows /\ \E p \in periods : p.ends = AddMonth(rows[i].ends)
      /\ \A i \in DOMAIN rows :
           rows[i].by = b => \A p \in periods : p.from # rows[i].from
      /\ \A e \in Charged(b) : Written(e) \/ \E p \in periods : p.ends = e
      /\ \A v \in Worker \ {w} : worker[v].doing = "renew" => worker[v].bill # b
  BY <1>1, RunIs DEF IInv, Renewing
<1>3. /\ \A i \in DOMAIN rows :
           /\ i \in DOMAIN rows'
           /\ rows'[i].ends = rows[i].ends /\ rows'[i].by = rows[i].by
           /\ rows'[i].from = rows[i].from
           /\ rows[i].status = "ended" => rows'[i].status = "ended"
           /\ rows'[i].status # rows[i].status => i \in worker[w].settles
      /\ \A i \in DOMAIN rows' : i \notin DOMAIN rows =>
           /\ \E p \in periods :
                rows'[i].ends = p.ends /\ rows'[i].from = p.from
           /\ rows'[i].by = b /\ rows'[i].status = "active"
           /\ \A j \in DOMAIN rows' :
                j \notin DOMAIN rows /\ rows'[j].from = rows'[i].from => i = j
      /\ \A p \in periods : \E i \in DOMAIN rows' :
           i \notin DOMAIN rows /\ rows'[i].ends = p.ends
  <2>1. DOMAIN rows \subseteq DOMAIN rows'
    BY Renewed
  <2> QED BY <2>1, Renewed
<1>4. TypeOK'
  BY <1>1, Renewed, GoesIdle DEF IInv, TypeOK, LastDay
<1>5. Kept /\ TypeOK /\ today' \in Nat /\ today <= today'
  BY <1>1, <1>3, TodayIs DEF Kept, IInv
<1>6. Dates'
  BY <1>2, <1>3 DEF Dates, IInv, Dated, Day
<1> HIDE DEF b, periods
<1>7. GivenOnce'
  <2> SUFFICES ASSUME NEW i \in DOMAIN rows', NEW j \in DOMAIN rows',
                      rows'[i].by \in Bill, rows'[j].by = rows'[i].by,
                      rows'[j].from = rows'[i].from
               PROVE  i = j
    BY DEF GivenOnce
  <2>1. CASE i \in DOMAIN rows /\ j \in DOMAIN rows
    BY <1>3, <2>1 DEF GivenOnce, IInv
  <2>2. CASE i \in DOMAIN rows /\ j \notin DOMAIN rows
    BY <1>2, <1>3, <2>2
  <2>3. CASE i \notin DOMAIN rows /\ j \in DOMAIN rows
    BY <1>2, <1>3, <2>3
  <2>4. CASE i \notin DOMAIN rows /\ j \notin DOMAIN rows
    BY <1>3, <2>4
  <2> QED BY <2>1, <2>2, <2>3, <2>4
<1>8. BillsKept /\ Bills'
  <2>1. \A m : Renewals(m) \subseteq Renewals(m)'
    BY <1>5, RenewalsKept
  <2> QED BY <1>1, <2>1, BillIs DEF BillsKept, Bills, IInv, LastDay, Bill
<1>9. \A v \in Worker \ {w} : Renewing(v)' /\ Sweeping(v)' /\ Billing(v)'
  <2>1. worker'[w].doing = "idle"
          /\ \A v \in Worker \ {w} : worker'[v] = worker[v]
    BY <1>1, GoesIdle
  <2>2. \A v \in Worker \ {w} : worker[v].doing = "renew" =>
          \A i \in DOMAIN rows' :
            i \notin DOMAIN rows => rows'[i].by # worker[v].bill
    BY <1>2, <1>3
  <2> QED BY <1>5, <1>8, <2>1, <2>2, OthersKept
<1>10. Renewing(w)' /\ Sweeping(w)' /\ Billing(w)'
  BY <1>1, GoesIdle DEF Renewing, Sweeping, Billing
<1>11. PaidIsGiven'
  <2> SUFFICES ASSUME NEW d \in Bill, Heard(d)', NEW e \in Charged(d)'
               PROVE  Written(e)'
    BY DEF PaidIsGiven
  <2>1. CASE d = b
    <3>1. e \in Charged(b)
      BY <1>2, <1>5, <1>8, <2>1, ChargedKept DEF IInv
    <3>2. CASE Written(e)
      BY <1>5, <3>2, WrittenKept
    <3>3. CASE \E p \in periods : p.ends = e
      <4>1. PICK i \in DOMAIN rows' : i \notin DOMAIN rows /\ rows'[i].ends = e
        BY <1>3, <3>3
      <4>2. Purchased(i)'
        <5>1. rows'[i].by \in Bill
          BY <1>2, <1>3, <4>1
        <5>2. <<"granted", 0>> \in Otherwise
          BY DEF Otherwise
        <5> QED BY <5>1, <5>2, BillsAreNot DEF Purchased
      <4> QED BY <4>1, <4>2 DEF Written
    <3> QED BY <1>2, <3>1, <3>2, <3>3
  <2>2. CASE d # b
    <3>1. Heard(d)
      BY <1>1, <2>2, GoesIdle DEF Heard, Free, b
    <3>2. e \in Charged(d)
      BY <1>5, <1>8, <3>1, ChargedKept DEF Heard, IInv
    <3> QED BY <1>5, <3>1, <3>2, WrittenKept DEF PaidIsGiven, IInv
  <2> QED BY <2>1, <2>2
<1>12. Watched'
  <2>1. \A v \in Worker : worker'[v].doing = "sweep" => worker'[v] = worker[v]
    BY <1>1, GoesIdle
  <2>2. CASE periods = {}
    <3>1. \A i \in DOMAIN rows :
            i \in DOMAIN rows' /\ rows'[i].status = rows[i].status
      BY <1>2, <1>3, <2>2
    <3> QED BY <1>1, <2>1, <3>1, WatchedKept DEF IInv
  <2>3. CASE periods # {}
    <3>1. PICK i \in DOMAIN rows' : i \notin DOMAIN rows
      BY <1>3, <2>3
    <3> QED BY <1>3, <2>1, <3>1, WatchedNew DEF IInv
  <2> QED BY <2>2, <2>3
<1>13. \A v \in Worker : Renewing(v)' /\ Sweeping(v)' /\ Billing(v)'
  BY <1>9, <1>10
<1>14. Continues'
  <2> SUFFICES ASSUME NEW i \in DOMAIN rows', rows'[i].by \in Bill
               PROVE  /\ bill'[rows'[i].by].status = "paid"
                      /\ Follows(rows[i].by, rows[i].ends, rows[i].from)'
    BY DEF Continues
  <2>1. PICK d, ends, from :
          /\ d \in Bill /\ d = rows'[i].by
          /\ ends = rows'[i].ends /\ from = rows'[i].from
          /\ bill[d].status = "paid" /\ Follows(d, ends, from)
    <3>1. CASE i \in DOMAIN rows
      BY <1>3, <3>1 DEF IInv, Continues
    <3>2. CASE i \notin DOMAIN rows
      BY <1>2, <1>3, <3>2
    <3> QED BY <3>1, <3>2
  <2>2. Follows(d, ends, from)' /\ bill'[d].status = "paid"
    BY <1>1, <1>5, <1>8, <2>1, FollowsKept
  <2> QED BY <2>1, <2>2 DEF Follows, FirstPeriod
<1> QED BY <1>4, <1>5, <1>6, <1>7, <1>8, <1>11, <1>12, <1>13, <1>14 DEF IInv

-----------------------------------------------------------------------------
(* Steps of nobody's *)

\* No worker moves, and no row is added.
LEMMA NobodyMoves ==
  ASSUME IInv, TypeOK', BillsKept, Bills', UNCHANGED <<rows, worker>>,
         today' \in Nat, today <= today',
         \A b \in Bill : b \notin unheard' /\ bill'[b].status = "paid"
                         => b \notin unheard /\ bill[b].status = "paid",
         extension' = "active" => extension = "active" \/ Entitled'
  PROVE  IInv'
<1>1. Kept /\ Dates' /\ GivenOnce' /\ TypeOK
  BY SameRows DEF IInv
<1>2. \A w \in Worker : Renewing(w)' /\ Sweeping(w)' /\ Billing(w)'
  <2> SUFFICES ASSUME NEW w \in Worker
               PROVE  Renewing(w)' /\ Sweeping(w)' /\ Billing(w)'
    OBVIOUS
  <2>1. worker[w].doing = "renew" =>
          /\ \A i \in DOMAIN rows' :
               i \notin DOMAIN rows => rows'[i].by # worker[w].bill
          /\ \A v \in Worker \ {w} :
               worker'[v].doing = "renew" => worker'[v].bill # worker[w].bill
    BY DEF IInv, Renewing
  <2>2. Renewing(w)'
    BY <1>1, <2>1, RenewingKept DEF IInv
  <2> QED BY <1>1, <2>2, SweepingKept, BillingKept DEF IInv
<1>3. PaidIsGiven'
  BY <1>1, HeardKept, GivenKept DEF IInv
<1>4. Watched'
  <2>1. CASE Entitled'
    BY <1>2, <2>1, WatchedLive
  <2>2. CASE ~ Entitled'
    BY <2>2, SameRows, WatchedKept DEF IInv
  <2> QED BY <2>1, <2>2
<1>5. Continues'
  BY <1>1, SameRows, ContinuesKept DEF IInv
<1> QED BY <1>1, <1>2, <1>3, <1>4, <1>5 DEF IInv

LEMMA ActivateKeeps ==
  ASSUME IInv, Activate
  PROVE  IInv'
<1>1. TypeOK' /\ today' \in Nat /\ today <= today'
  BY TodayIs DEF IInv, TypeOK, Activate, LastDay
<1>2. BillsKept /\ Bills'
  BY SameBills DEF Activate, IInv, Bills
<1>3. Entitled'
  BY DEF Activate, Entitled, Live, Now
<1> QED BY <1>1, <1>2, <1>3, NobodyMoves DEF Activate

LEMMA DeactivateKeeps ==
  ASSUME IInv, Deactivate
  PROVE  IInv'
<1>1. TypeOK' /\ today' \in Nat /\ today <= today'
  BY TodayIs DEF IInv, TypeOK, Deactivate, LastDay
<1>2. BillsKept /\ Bills'
  BY SameBills DEF Deactivate, IInv, Bills
<1> QED BY <1>1, <1>2, NobodyMoves DEF Deactivate

LEMMA SaveBillKeeps ==
  ASSUME IInv, NEW b \in Bill, SaveBill(b)
  PROVE  IInv'
<1>1. TypeOK' /\ today' \in Nat /\ today <= today'
  BY TodayIs DEF IInv, TypeOK, SaveBill, LastDay
<1>2. BillsKept /\ Bills'
  BY SameBills DEF SaveBill, IInv, Bills
<1> QED BY <1>1, <1>2, NobodyMoves DEF SaveBill

\* A bill's status is all that changes when it is settled or cancelled.
LEMMA StatusMoves ==
  ASSUME IInv, NEW b \in Bill, NEW status \in {"paid", "cancelled"},
         bill[b].status = "sent",
         bill' = [bill EXCEPT ![b].status = status],
         unheard' \subseteq unheard \cup {b},
         status = "cancelled" => unheard' = unheard,
         UNCHANGED <<today, rows, worker, extension, creditSpent, regiven>>
  PROVE  TypeOK' /\ BillsKept /\ Bills'
<1>1. bill \in [Bill -> Invoice] /\ bill[b] \in Invoice
  BY DEF IInv, TypeOK
<1> DEFINE new == [bill[b] EXCEPT !.status = status]
<1>2. /\ new \in Invoice /\ new.status = status /\ new.day = bill[b].day
      /\ new.lines = bill[b].lines /\ new.credit = bill[b].credit
  BY <1>1 DEF Invoice
<1>3. /\ bill' \in [Bill -> Invoice] /\ bill'[b] = new
      /\ \A d \in Bill : d # b => bill'[d] = bill[d]
  BY <1>1, <1>2
<1> HIDE DEF new
<1>4. TypeOK'
  BY <1>3 DEF IInv, TypeOK, LastDay
<1>5. BillsKept
  BY <1>2, <1>3 DEF BillsKept
<1>6. Bills'
  <2>1. \A d \in unheard' : bill'[d].status = "paid"
    <3>1. \A d \in unheard : d \in Bill /\ d # b
      BY DEF IInv, Bills, TypeOK
    <3> QED BY <1>2, <1>3, <3>1 DEF IInv, Bills
  <2>2. \A d \in Bill : bill'[d].day = bill[d].day
          /\ bill'[d].lines = bill[d].lines
    BY <1>2, <1>3
  <2> QED BY <2>1, <2>2, SameRows DEF IInv, Bills, Bill, LastDay
<1> QED BY <1>4, <1>5, <1>6

LEMMA PayBillKeeps ==
  ASSUME IInv, NEW b \in Bill, PayBill(b)
  PROVE  IInv'
<1>1. TypeOK' /\ BillsKept /\ Bills'
  BY StatusMoves DEF PayBill
<1>2. \A d \in Bill : d \notin unheard' /\ bill'[d].status = "paid"
                      => d \notin unheard /\ bill[d].status = "paid"
  BY DEF PayBill, IInv, TypeOK
<1> QED BY <1>1, <1>2, TodayIs, NobodyMoves DEF PayBill, IInv

LEMMA CancelBillKeeps ==
  ASSUME IInv, NEW b \in Bill, CancelBill(b)
  PROVE  IInv'
<1>1. TypeOK' /\ BillsKept /\ Bills'
  BY StatusMoves DEF CancelBill
<1>2. \A d \in Bill : d \notin unheard' /\ bill'[d].status = "paid"
                      => d \notin unheard /\ bill[d].status = "paid"
  BY DEF CancelBill, IInv, TypeOK, Invoice
<1> QED BY <1>1, <1>2, TodayIs, NobodyMoves DEF CancelBill, IInv

\* Time passes: what is over stays so.
LEMMA NextDayKeeps ==
  ASSUME IInv, NextDay
  PROVE  IInv'
<1>1. today' \in 0 .. LastDay /\ today' \in Nat /\ today <= today'
  BY SubscriptionsAssumption DEF IInv, TypeOK, NextDay, LastDay
<1>2. TypeOK'
  BY <1>1 DEF IInv, TypeOK, NextDay, LastDay
<1>3. BillsKept /\ Bills'
  BY SameBills DEF NextDay, IInv, Bills
<1> QED BY <1>1, <1>2, <1>3, NobodyMoves DEF NextDay

-----------------------------------------------------------------------------
(* What is so in every state *)

LEMMA InitIInv == Init => IInv
<1> SUFFICES ASSUME Init PROVE IInv
  OBVIOUS
<1>1. 0 \in 0 .. LastDay /\ MaxRows \in Nat
  <2>1. FirstDay[0] = 0 /\ FirstDay[0] < FirstDay[Months]
        /\ FirstDay[Months] \in Nat
    BY SubscriptionsAssumption
  <2> QED BY <2>1, SubscriptionsAssumption DEF LastDay
<1>2. TypeOK
  <2>1. rows \in Seq(Row) /\ Len(rows) = 0
    BY DEF Init
  <2>2. bill \in [Bill -> Invoice]
    BY DEF Init, Invoice
  <2>3. worker \in [Worker -> Run]
    BY DEF Init, Idle, Run
  <2>4. Len(rows) <= MaxRows
    BY <1>1, <2>1
  <2>5. /\ today \in 0 .. LastDay /\ unheard \subseteq Bill
        /\ extension \in {"inactive", "active", "paused"}
        /\ creditSpent \in BOOLEAN /\ regiven \subseteq Bill
    BY <1>1 DEF Init
  <2> QED BY <2>1, <2>2, <2>3, <2>4, <2>5 DEF TypeOK
<1>3. rows = << >> /\ DOMAIN rows = {}
  BY DEF Init
<1>4. Bills
  BY <1>1 DEF Init, Bills, Bill
<1>5. \A w \in Worker : Renewing(w) /\ Sweeping(w) /\ Billing(w)
  BY DEF Init, Idle, Renewing, Sweeping, Billing
<1>6. PaidIsGiven /\ GivenOnce /\ Watched /\ Dates /\ Continues
  BY <1>3 DEF Init, PaidIsGiven, Heard, GivenOnce, Watched, Dates, Continues
<1> QED BY <1>2, <1>4, <1>5, <1>6 DEF IInv

LEMMA NextIInv == IInv /\ [Next]_vars => IInv'
<1> SUFFICES ASSUME IInv, [Next]_vars PROVE IInv'
  OBVIOUS
<1>1. ASSUME NEW w \in Worker,
             \/ BeginAcquire(w) \/ Entitle(w) \/ IssueBill(w)
             \/ Grant(w) \/ Resume(w)
             \/ \E b \in Bill : BeginRenew(w, b)
             \/ FinishRenew(w)
             \/ \E m \in 0 .. Months - 1 : BeginBilling(w, m)
             \/ FinishBilling(w)
             \/ BeginSweep(w) \/ FinishSweep(w)
             \/ Crash(w)
      PROVE  IInv'
  BY <1>1, BeginAcquireKeeps, EntitleKeeps, IssueBillKeeps, GrantKeeps,
     ResumeKeeps, BeginRenewKeeps, FinishRenewKeeps, BeginBillingKeeps,
     FinishBillingKeeps, BeginSweepKeeps, FinishSweepKeeps, CrashKeeps
<1>2. ASSUME NEW b \in Bill, PayBill(b) \/ SaveBill(b) \/ CancelBill(b)
      PROVE  IInv'
  BY <1>2, PayBillKeeps, SaveBillKeeps, CancelBillKeeps
<1>3. CASE Activate \/ Deactivate \/ NextDay
  BY <1>3, ActivateKeeps, DeactivateKeeps, NextDayKeeps
<1>4. CASE UNCHANGED vars
  <2>1. TypeOK' /\ today' \in Nat /\ today <= today'
    BY <1>4, TodayIs DEF IInv, TypeOK, vars, LastDay
  <2>2. BillsKept /\ Bills'
    BY <1>4, SameBills DEF vars, IInv, Bills
  <2> QED BY <1>4, <2>1, <2>2, NobodyMoves DEF vars
<1> QED BY <1>1, <1>2, <1>3, <1>4 DEF Next

\* Whatever is read and written when, what is said above of reading holds.
THEOREM ReadIsSo == Spec => []IInv
BY InitIInv, NextIInv, PTL DEF Spec

\* The state keeps its shape: rows are rows, and never more than there may be.
THEOREM TypeCorrect == Spec => []TypeOK
BY ReadIsSo, PTL DEF IInv

\* renew_for_invoice: a paid bill that was heard has bought at least every
\* period it charged for, whoever else bought some of them meanwhile.
THEOREM PaidIsBought == Spec => []PaidIsGiven
BY ReadIsSo, PTL DEF IInv

\* renew_for_invoice: a bill reported twice, or twice at once, goes on from
\* each row once, though two of its periods may end on one day.
THEOREM BoughtOnce == Spec => []GivenOnce
BY ReadIsSo, PTL DEF IInv

\* close_due_periods: an extension in use has a row a later sweep will settle,
\* however many sweeps and renewals overlap.
THEOREM NeverUnwatched == Spec => []StillWatched
<1>1. IInv => StillWatched
  BY DEF IInv, Watched, StillWatched
<1> QED BY <1>1, ReadIsSo, PTL

-----------------------------------------------------------------------------
(* No period is cut short *)

\* What a step may do to a row that has not ended.
InTime ==
  \A i \in DOMAIN rows :
    rows[i].status # "ended" /\ rows'[i].status = "ended" =>
      \/ rows[i].ends + 2 * GraceDays < Now
      \/ \E j \in DOMAIN rows' : rows'[j].ends = AddMonth(rows[i].ends)

LEMMA SweptAreOver ==
  ASSUME IInv, NEW w \in Worker, FinishSweep(w)
  PROVE  InTime
<1> SUFFICES ASSUME NEW i \in DOMAIN rows, rows[i].status # "ended",
                    rows'[i].status = "ended"
             PROVE  rows[i].ends + 2 * GraceDays < Now
  BY DEF InTime
<1>1. rows[i] \in Row
  BY RowIs DEF IInv
<1>2. i \in worker[w].over
  BY <1>1 DEF FinishSweep, Row
<1> QED BY <1>2 DEF IInv, Sweeping, Over, FinishSweep

LEMMA SettledAreRenewed ==
  ASSUME IInv, NEW w \in Worker, FinishRenew(w)
  PROVE  InTime
<1> SUFFICES ASSUME NEW i \in DOMAIN rows, rows[i].status # "ended",
                    rows'[i].status = "ended"
             PROVE  \E j \in DOMAIN rows' :
                      rows'[j].ends = AddMonth(rows[i].ends)
  BY DEF InTime
<1>1. i \in worker[w].settles
  BY Renewed
<1>2. \E p \in worker[w].periods : p.ends = AddMonth(rows[i].ends)
  BY <1>1 DEF IInv, Renewing, FinishRenew
<1> QED BY <1>2, Renewed

LEMMA AddedAreAdded ==
  ASSUME IInv, NEW w \in Worker, Entitle(w) \/ Grant(w)
  PROVE  InTime
<1>1. rows \in Seq(Row)
  BY DEF IInv, TypeOK
<1>2. \A i \in DOMAIN rows : rows'[i] = rows[i]
  <2>1. CASE rows' = rows
    BY <2>1
  <2>2. ASSUME NEW new, rows' = Append(rows, new)
        PROVE  \A i \in DOMAIN rows : rows'[i] = rows[i]
    BY <1>1, <2>2
  <2> QED BY <2>1, <2>2 DEF Entitle, Grant
<1> QED BY <1>2 DEF InTime

LEMMA OthersSettleNothing ==
  ASSUME UNCHANGED rows
  PROVE  InTime
BY DEF InTime

\* close_due_periods and renew_for_invoice: nobody loses an entitlement before
\* its grace is over, unless the period after it has been bought.
THEOREM SweptInTime == Spec => EndsInTime
<1>1. IInv /\ [Next]_vars => InTime
  <2> SUFFICES ASSUME IInv, [Next]_vars PROVE InTime
    OBVIOUS
  <2>1. ASSUME NEW w \in Worker,
               \/ BeginAcquire(w) \/ IssueBill(w) \/ Resume(w)
               \/ \E b \in Bill : BeginRenew(w, b)
               \/ \E m \in 0 .. Months - 1 : BeginBilling(w, m)
               \/ FinishBilling(w) \/ BeginSweep(w) \/ Crash(w)
        PROVE  InTime
    BY <2>1, OthersSettleNothing
       DEF BeginAcquire, IssueBill, Resume, BeginRenew, BeginBilling,
           FinishBilling, BeginSweep, Crash
  <2>2. ASSUME NEW w \in Worker,
               Entitle(w) \/ Grant(w) \/ FinishRenew(w) \/ FinishSweep(w)
        PROVE  InTime
    BY <2>2, AddedAreAdded, SettledAreRenewed, SweptAreOver
  <2>3. CASE (\E b \in Bill : PayBill(b) \/ SaveBill(b) \/ CancelBill(b))
             \/ Activate \/ Deactivate \/ NextDay \/ UNCHANGED vars
    BY <2>3, OthersSettleNothing
       DEF PayBill, SaveBill, CancelBill, Activate, Deactivate, NextDay, vars
  <2> QED BY <2>1, <2>2, <2>3 DEF Next
<1>2. IInv /\ [Next]_vars =>
        [\A i \in DOMAIN rows :
           rows[i].status # "ended" /\ rows'[i].status = "ended" =>
             \/ rows[i].ends + 2 * GraceDays < Now
             \/ \E j \in DOMAIN rows' :
                  rows'[j].ends = AddMonth(rows[i].ends)]_vars
  BY <1>1 DEF InTime
<1> QED BY <1>2, ReadIsSo, PTL DEF Spec, EndsInTime

-----------------------------------------------------------------------------
(* The trial credit *)

\* A set no two of which differ has one member at most.
LEMMA AtMostOne ==
  ASSUME NEW S, \A x, y \in S : x = y
  PROVE  Cardinality(S) <= 1
<1>1. CASE S = {}
  BY <1>1, FS_EmptySet
<1>2. CASE S # {}
  <2>1. PICK x \in S : S = {x}
    BY <1>2
  <2> QED BY <2>1, FS_Singleton
<1> QED BY <1>1, <1>2

\* Who gives the credit although it was given joins regiven, so of the others
\* only the first can have it.
Credited ==
  /\ \A b, c \in Bill \ regiven : bill[b].credit /\ bill[c].credit => b = c
  /\ \A b \in Bill : bill[b].credit => creditSpent

\* A step that issues no month's bill.
LEMMA CreditedKept ==
  ASSUME Credited, UNCHANGED <<creditSpent, regiven>>,
         \A b \in Bill : bill'[b].credit => bill[b].credit
  PROVE  Credited'
BY DEF Credited

LEMMA FinishBillingCredits ==
  ASSUME IInv, Credited, NEW w \in Worker, FinishBilling(w)
  PROVE  Credited'
<1> DEFINE m == worker[w].month
<1>1. CASE UNCHANGED <<bill, creditSpent, regiven>>
  BY <1>1, CreditedKept
<1>2. CASE ~ UNCHANGED <<bill, creditSpent, regiven>>
  <2>1. /\ worker[w].doing = "bill"
        /\ bill' = [bill EXCEPT ![<<"month", m>>] =
             [status |-> "sent", day |-> 0, lines |-> worker[w].lines,
              credit |-> worker[w].credit]]
        /\ creditSpent' = (creditSpent \/ worker[w].credit)
        /\ regiven' = IF worker[w].credit /\ creditSpent
                        THEN regiven \cup {<<"month", m>>} ELSE regiven
    BY <1>2 DEF FinishBilling, Issue, Regives
  <2>2. PICK b \in Bill :
          /\ b = <<"month", m>> /\ bill'[b].credit = worker[w].credit
          /\ \A c \in Bill : c # b => bill'[c] = bill[c]
    <3>1. <<"month", m>> \in Bill
      BY <2>1, RunIs, MonthlyIs DEF IInv
    <3> QED BY <2>1, <3>1 DEF IInv, TypeOK
  <2>3. \A c \in Bill : bill'[c].credit => creditSpent'
    <3>1. \A c \in Bill : bill[c].credit => creditSpent
      BY DEF Credited
    <3> QED BY <2>1, <2>2, <3>1
  <2>4. \A c, d \in Bill \ regiven' : bill'[c].credit /\ bill'[d].credit => c = d
    <3>1. CASE worker[w].credit /\ ~ creditSpent
      <4>1. \A c \in Bill : ~ bill[c].credit
        BY <3>1 DEF Credited
      <4> QED BY <2>2, <4>1
    <3>2. CASE worker[w].credit /\ creditSpent
      <4>1. regiven' = regiven \cup {b}
        BY <2>1, <2>2, <3>2
      <4> QED BY <2>2, <4>1 DEF Credited
    <3>3. CASE ~ worker[w].credit
      <4>1. regiven' = regiven
        BY <2>1, <3>3
      <4> QED BY <2>2, <3>3, <4>1 DEF Credited
    <3> QED BY <3>1, <3>2, <3>3
  <2> QED BY <2>3, <2>4 DEF Credited
<1> QED BY <1>1, <1>2

LEMMA NextCredited == IInv /\ Credited /\ [Next]_vars => Credited'
<1> SUFFICES ASSUME IInv, Credited, [Next]_vars
             PROVE  Credited'
  OBVIOUS
<1>1. ASSUME NEW w \in Worker, FinishBilling(w)
      PROVE  Credited'
  BY <1>1, FinishBillingCredits
<1>2. ASSUME NEW w \in Worker, IssueBill(w)
      PROVE  Credited'
  <2>1. PICK n \in 1 .. MaxAddOns :
          bill' = [bill EXCEPT ![<<"add-on", n>>] =
                     [status |-> "sent", day |-> today, lines |-> {},
                      credit |-> FALSE]]
    BY <1>2 DEF IssueBill
  <2>2. \A b \in Bill : bill'[b].credit => bill[b].credit
    BY <2>1 DEF IInv, TypeOK
  <2> QED BY <1>2, <2>2, CreditedKept DEF IssueBill
<1>3. ASSUME NEW b \in Bill, PayBill(b) \/ CancelBill(b)
      PROVE  Credited'
  <2>1. \A d \in Bill : bill'[d].credit = bill[d].credit
    BY <1>3 DEF PayBill, CancelBill, IInv, TypeOK, Invoice
  <2> QED BY <1>3, <2>1, CreditedKept DEF PayBill, CancelBill
<1>4. CASE UNCHANGED <<bill, creditSpent, regiven>>
  BY <1>4, CreditedKept
<1>5. ASSUME NEW w \in Worker,
             \/ BeginAcquire(w) \/ Entitle(w)
             \/ Grant(w) \/ Resume(w) \/ \E b \in Bill : BeginRenew(w, b)
             \/ \E m \in 0 .. Months - 1 : BeginBilling(w, m)
             \/ FinishRenew(w) \/ BeginSweep(w) \/ FinishSweep(w) \/ Crash(w)
      PROVE  UNCHANGED <<bill, creditSpent, regiven>>
  BY <1>5 DEF BeginAcquire, Entitle, Grant, Resume, BeginRenew, BeginBilling,
              FinishRenew, BeginSweep, FinishSweep, Crash
<1>6. CASE (\E b \in Bill : SaveBill(b)) \/ Activate \/ Deactivate
           \/ NextDay \/ UNCHANGED vars
  BY <1>4, <1>6 DEF SaveBill, Activate, Deactivate, NextDay, vars
<1> QED BY <1>1, <1>2, <1>3, <1>4, <1>5, <1>6 DEF Next

\* issue_monthly_bills: of the bills that were drawn up after the credit was
\* given none gives it again, however many runs of however many months overlap.
THEOREM CreditedOnce == Spec => []CreditOnce
<1>1. Init => Credited
  BY DEF Init, Credited
<1>2. IInv /\ Credited /\ [Next]_vars => Credited'
  BY NextCredited
<1>3. Credited => CreditOnce
  BY AtMostOne DEF Credited, CreditOnce
<1> QED BY <1>1, <1>2, <1>3, ReadIsSo, PTL DEF Spec

=============================================================================
