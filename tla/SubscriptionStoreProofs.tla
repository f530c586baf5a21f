----------------------- MODULE SubscriptionStoreProofs -----------------------
(***************************************************************************)
(* What holds of the subscription rows for any number of requests, masters *)
(* and rows, although no row is ever locked.                               *)
(***************************************************************************)
EXTENDS SubscriptionStore, TLAPS

-----------------------------------------------------------------------------
(* The inductive invariant: what is claimed of a row is also true of every   *)
(* copy of it, since any copy may be the next thing saved.                   *)

\* The columns r may stand in row s at time t.
Good(s, r, t) ==
    /\ r \in Row
    /\ WithinTotal(s, r.used)
    /\ r.last <= t
    /\ r.next > 0 => /\ r.last < r.next
                     /\ r.status = "active" => r.next <= r.end

\* Rows as a transaction may hold them.
Copies == UNION {[S -> Row] : S \in SUBSET Rows}

RowsGood == \A s \in Rows : Good(s, row[s], now)

CopiesGood == \A a \in Actors : \A s \in DOMAIN copy[a] : Good(s, copy[a][s], now)

\* A request that holds quota has a row, and its correction has read that row.
SubKnown ==
    \A q \in Requests :
        /\ pc[q] \in {"held", "deltaWrite"} => sub[q] \in Rows
        /\ pc[q] = "deltaWrite" => DOMAIN copy[q] = {sub[q]}

IInv ==
    /\ TypeOK
    /\ copy \in [Actors -> Copies]
    /\ RowsGood
    /\ CopiesGood
    /\ SubKnown
    /\ \A a \in Actors : since[a] <= now

-----------------------------------------------------------------------------
(* Operators *)

\* Integer division rounds down: what LastReset of calcNextResetTime rests on.
LEMMA DivBounds ==
    ASSUME NEW x \in Nat, NEW p \in Nat, p > 0
    PROVE  /\ x \div p \in Nat
           /\ p * (x \div p) \in Nat
           /\ p * (x \div p) <= x
  OBVIOUS

\* A copy of rows of the table is typed row by row.
LEMMA CopyType ==
    ASSUME NEW c \in Copies
    PROVE  /\ DOMAIN c \subseteq Rows
           /\ \A s \in DOMAIN c : c[s] \in Row
  BY DEF Copies

\* A function from rows of the table to typed rows is a copy.
LEMMA IsCopy ==
    ASSUME NEW S \in SUBSET Rows, NEW c \in [S -> Row]
    PROVE  c \in Copies
  BY DEF Copies

\* The copies of all actors are typed as TypeOK says.
LEMMA TypedCopies ==
    ASSUME NEW c \in [Actors -> Copies]
    PROVE  /\ c = [a \in Actors |-> c[a]]
           /\ \A a \in Actors : /\ DOMAIN c[a] \subseteq Rows
                                /\ c[a] \in [DOMAIN c[a] -> Row]
<1>1. ASSUME NEW a \in Actors
      PROVE  DOMAIN c[a] \subseteq Rows /\ c[a] \in [DOMAIN c[a] -> Row]
  BY DEF Copies
<1> QED
  BY <1>1

\* calcNextResetTime yields 0 or a time after base and not after the end.
LEMMA CalcNextBounds ==
    ASSUME NEW base \in Nat, NEW p \in Nat, NEW end \in Nat
    PROVE  /\ CalcNext(base, p, end) \in Nat
           /\ CalcNext(base, p, end) > 0 =>
                base < CalcNext(base, p, end) /\ CalcNext(base, p, end) <= end
  BY DEF CalcNext

\* maybeResetUserSubscriptionWithPlanTx keeps what a row is, and never resets
\* to a time after t.
LEMMA ResetGood ==
    ASSUME NEW s \in Rows, NEW r, NEW n \in Nat, Good(s, r, n),
           NEW t \in Nat, t <= n, NEW p \in Nat
    PROVE  /\ Good(s, ResetRow(r, t, p), n)
           /\ ResetRow(r, t, p).status = r.status
<1> DEFINE first == CalcNext(r.last, p, r.end)
           base == LastReset(r.last, p, t, r.end)
           then == CalcNext(base, p, r.end)
           done == [r EXCEPT !.used = 0, !.last = base, !.next = then]
           set == [r EXCEPT !.next = first]
<1>1. r \in Row /\ r.last \in Nat /\ r.end \in Nat /\ r.next \in Nat /\ r.used \in Nat
  BY DEF Good, Row
<1>2. Total[s] \in Nat
  BY StoreAssumption
<1>3. CASE p # 0 /\ 0 < first /\ first <= t
  <2>1. p > 0 /\ r.last + p <= r.end /\ r.last + p <= t
    BY <1>1, <1>3 DEF CalcNext
  <2>2. Earlier(t, r.end) - r.last \in Nat
    BY <1>1, <2>1 DEF Earlier
  <2>3. Earlier(t, r.end) <= t /\ Earlier(t, r.end) \in Nat
    BY <1>1 DEF Earlier
  <2>4. base \in Nat /\ base <= t
    <3> DEFINE x == Earlier(t, r.end) - r.last
    <3>1. p * (x \div p) \in Nat /\ p * (x \div p) <= x
      BY <2>1, <2>2, DivBounds
    <3>2. base = r.last + p * (x \div p)
      BY DEF LastReset
    <3> HIDE DEF x
    <3>3. x = Earlier(t, r.end) - r.last
      BY DEF x
    <3> QED
      BY <1>1, <2>3, <3>1, <3>2, <3>3
  <2>5. then \in Nat /\ (then > 0 => base < then /\ then <= r.end)
    BY <1>1, <2>4, CalcNextBounds
  <2> HIDE DEF base, then
  <2>6. /\ done \in Row
        /\ done.status = r.status /\ done.used = 0 /\ done.last = base
        /\ done.next = then /\ done.end = r.end
    BY <1>1, <2>4, <2>5 DEF Row
  <2> HIDE DEF done
  <2>7. Good(s, done, n) /\ done.status = r.status
    BY <1>2, <2>4, <2>5, <2>6 DEF Good, WithinTotal
  <2>8. CASE r.next > t
    BY <2>8 DEF ResetRow
  <2>9. CASE r.next <= t
    <3>1. ResetRow(r, t, p) = done
      BY <1>1, <1>3, <2>9 DEF ResetRow, done, base, then, first
    <3> QED
      BY <2>7, <3>1
  <2> QED
    BY <1>1, <2>8, <2>9
<1>4. CASE ~(p # 0 /\ 0 < first /\ first <= t)
  <2>1. first \in Nat /\ (first > 0 => r.last < first /\ first <= r.end)
    BY <1>1, CalcNextBounds
  <2> HIDE DEF first
  <2>2. Good(s, set, n) /\ set.status = r.status
    BY <1>1, <2>1 DEF Good, Row
  <2>3. ResetRow(r, t, p) = set \/ ResetRow(r, t, p) = r
    BY <1>1, <1>4 DEF ResetRow, first
  <2> QED
    BY <2>2, <2>3
<1> QED
  BY <1>3, <1>4

-----------------------------------------------------------------------------
(* What the steps have in common *)

\* A row stays good as time passes.
LEMMA GoodLater ==
    ASSUME NEW s, NEW r, NEW t \in Nat, NEW u \in Nat, t <= u, Good(s, r, t)
    PROVE  Good(s, r, u)
  BY DEF Good, Row

\* What a transaction saves after maybeReset is good.
LEMMA FreshGood ==
    ASSUME IInv, NEW a \in Actors, NEW s \in DOMAIN copy[a]
    PROVE  s \in Rows /\ Good(s, Fresh(a, s), now)
<1>1. copy[a] \in Copies /\ since[a] \in Nat /\ plan[a] \in Nat /\ now \in Nat
  BY DEF IInv, TypeOK
<1>2. s \in Rows
  BY <1>1, CopyType
<1>3. Good(s, copy[a][s], now) /\ since[a] <= now
  BY DEF IInv, CopiesGood
<1> QED
  BY <1>1, <1>2, <1>3, ResetGood DEF Fresh

\* Begin copies good rows.
LEMMA BeginCopies ==
    ASSUME IInv, NEW a \in Actors, NEW S \in SUBSET Rows, NEW label,
           Begin(a, S, label), now' = now
    PROVE  /\ copy' \in [Actors -> Copies] /\ CopiesGood'
           /\ DOMAIN copy'[a] = S
           /\ plan' \in [Actors -> Nat]
<1>1. [s \in S |-> row[s]] \in Copies
  BY IsCopy DEF IInv, TypeOK
<1>2. copy' = [copy EXCEPT ![a] = [s \in S |-> row[s]]] /\ copy \in [Actors -> Copies]
  BY DEF Begin, IInv, TypeOK
<1>3. copy' \in [Actors -> Copies]
  BY <1>1, <1>2
<1>4. ASSUME NEW b \in Actors, NEW s \in DOMAIN copy'[b]
      PROVE  Good(s, copy'[b][s], now')
  BY <1>2 DEF IInv, RowsGood, CopiesGood
<1>5. plan' \in [Actors -> Nat]
  BY DEF Begin, IInv, TypeOK
<1> QED
  BY <1>2, <1>3, <1>4, <1>5 DEF CopiesGood

\* End drops the copies of one actor.
LEMMA EndCopies ==
    ASSUME IInv, NEW a \in Actors, NEW label, End(a, label), now' = now
    PROVE  /\ copy' \in [Actors -> Copies] /\ CopiesGood'
           /\ plan' \in [Actors -> Nat]
<1>1. NoCopy \in [{} -> Row]
  BY DEF NoCopy
<1>2. NoCopy \in Copies
  BY <1>1, IsCopy
<1>3. copy' = [copy EXCEPT ![a] = NoCopy] /\ copy \in [Actors -> Copies]
  BY DEF End, IInv, TypeOK
<1>4. ASSUME NEW b \in Actors, NEW s \in DOMAIN copy'[b]
      PROVE  Good(s, copy'[b][s], now')
  BY <1>3 DEF IInv, CopiesGood, NoCopy
<1>5. plan' \in [Actors -> Nat]
  BY DEF End, IInv, TypeOK
<1> QED
  BY <1>2, <1>3, <1>4, <1>5 DEF CopiesGood

\* Rows that are good one by one make a good table.
LEMMA RowsFrom ==
    ASSUME row' = [s \in Rows |-> row'[s]],
           \A s \in Rows : Good(s, row'[s], now')
    PROVE  row' \in [Rows -> Row] /\ RowsGood'
<1>1. \A s \in Rows : row'[s] \in Row
  BY DEF Good
<1> QED
  BY <1>1 DEF RowsGood

-----------------------------------------------------------------------------
(* The steps of a request *)

\* PreConsumeUserSubscription keeps the invariant.
LEMMA PreKeeps ==
    ASSUME IInv, NEW q \in Requests, PreRead(q) \/ PreWrite(q)
    PROVE  IInv'
<1> USE StoreAssumption
<1>q. q \in Actors
  BY DEF Actors
<1>1. CASE PreRead(q)
  <2>1. Payable \in SUBSET Rows
    BY DEF Payable
  <2>2. row' = row /\ now' = now /\ period' = period
    BY <1>1 DEF PreRead, rowVars
  <2>3. copy' \in [Actors -> Copies] /\ CopiesGood' /\ plan' \in [Actors -> Nat]
    <3>1. CASE Begin(q, Payable, "preWrite")
      BY <1>q, <2>1, <2>2, <3>1, BeginCopies
    <3>2. CASE Skip(q, "done")
      BY <2>2, <3>2 DEF Skip, IInv, TypeOK, CopiesGood
    <3> QED
      BY <1>1, <3>1, <3>2 DEF PreRead
  <2>4. since' \in [Actors -> Nat] /\ \A a \in Actors : since'[a] <= now'
    <3>1. since \in [Actors -> Nat] /\ now \in Nat /\ \A a \in Actors : since[a] <= now
      BY DEF IInv, TypeOK
    <3>2. since' = since \/ since' = [since EXCEPT ![q] = now]
      BY <1>1 DEF PreRead
    <3> QED
      BY <2>2, <3>1, <3>2
  <2>5. amount' \in [Requests -> Nat]
    BY <1>1 DEF PreRead, IInv, TypeOK
  <2>6. pc' \in [Actors -> Labels]
        /\ pc'[q] \in {"preWrite", "done"}
        /\ \A a \in Actors \ {q} : pc'[a] = pc[a] /\ copy'[a] = copy[a]
    BY <1>1, <1>q DEF PreRead, Begin, Skip, Goto, Labels, IInv, TypeOK
  <2>7. sub' = sub /\ target' = target /\ left' = left /\ due' = due /\ count' = count
    BY <1>1 DEF PreRead, masterVars
  <2>8. SubKnown'
    BY <2>6, <2>7 DEF SubKnown, IInv, Actors
  <2>9. TypeOK'
    BY <2>2, <2>3, <2>4, <2>5, <2>6, <2>7, TypedCopies DEF IInv, TypeOK
  <2>10. RowsGood'
    BY <2>2 DEF RowsGood, IInv
  <2> QED
    BY <2>3, <2>4, <2>8, <2>9, <2>10 DEF IInv
<1>2. CASE PreWrite(q)
  <2>1. now' = now /\ period' = period /\ amount' = amount /\ target' = target
        /\ left' = left /\ due' = due /\ count' = count
    BY <1>2 DEF PreWrite, masterVars
  <2>2. copy' \in [Actors -> Copies] /\ CopiesGood' /\ plan' \in [Actors -> Nat]
    BY <1>2, <1>q, <2>1, EndCopies DEF PreWrite
  <2>3. since' \in [Actors -> Nat] /\ \A a \in Actors : since'[a] <= now'
    BY <1>2, <1>q, <2>1 DEF PreWrite, IInv, TypeOK
  <2>4. pc' \in [Actors -> Labels]
        /\ pc'[q] \in {"held", "done"}
        /\ \A a \in Actors \ {q} : pc'[a] = pc[a] /\ copy'[a] = copy[a]
    BY <1>2, <1>q DEF PreWrite, End, Goto, Labels, IInv, TypeOK
  <2>5. CASE \E s \in Fitting(q) :
            /\ row' = [x \in Rows |->
                        IF x = s THEN [Fresh(q, x) EXCEPT !.used = @ + amount[q]]
                        ELSE IF x \in DOMAIN copy[q] /\ x < s /\ Fresh(q, x) # copy[q][x]
                             THEN Fresh(q, x) ELSE row[x]]
            /\ sub' = [sub EXCEPT ![q] = s]
    <3>1. PICK s \in Fitting(q) :
            /\ row' = [x \in Rows |->
                        IF x = s THEN [Fresh(q, x) EXCEPT !.used = @ + amount[q]]
                        ELSE IF x \in DOMAIN copy[q] /\ x < s /\ Fresh(q, x) # copy[q][x]
                             THEN Fresh(q, x) ELSE row[x]]
            /\ sub' = [sub EXCEPT ![q] = s]
      BY <2>5
    <3>2. /\ s \in DOMAIN copy[q]
          /\ WithinTotal(s, Fresh(q, s).used + amount[q])
      BY DEF Fitting
    <3>3. s \in Rows /\ Good(s, Fresh(q, s), now)
      BY <1>q, <3>2, FreshGood
    <3>4. amount[q] \in Nat
      BY DEF IInv, TypeOK
    <3>5. Good(s, [Fresh(q, s) EXCEPT !.used = @ + amount[q]], now)
      <4> DEFINE f == Fresh(q, s)
      <4>1. f \in Row /\ Good(s, f, now) /\ WithinTotal(s, f.used + amount[q])
        BY <3>2, <3>3 DEF Good
      <4> HIDE DEF f
      <4>2. Good(s, [f EXCEPT !.used = @ + amount[q]], now)
        BY <3>4, <4>1 DEF Good, Row
      <4> QED
        BY <4>2 DEF f
    <3>6. ASSUME NEW x \in Rows PROVE Good(x, row'[x], now')
      <4>1. CASE x = s
        BY <2>1, <3>1, <3>5, <4>1
      <4>2. CASE x # s /\ x \in DOMAIN copy[q] /\ x < s /\ Fresh(q, x) # copy[q][x]
        <5>1. row'[x] = Fresh(q, x)
          BY <3>1, <4>2
        <5> QED
          BY <1>q, <2>1, <4>2, <5>1, FreshGood
      <4>3. CASE x # s /\ ~(x \in DOMAIN copy[q] /\ x < s /\ Fresh(q, x) # copy[q][x])
        <5>1. row'[x] = row[x]
          BY <3>1, <4>3
        <5> QED
          BY <2>1, <5>1 DEF IInv, RowsGood
      <4> QED
        BY <4>1, <4>2, <4>3
    <3>7. row' = [x \in Rows |-> row'[x]]
      BY <3>1
    <3>8. row' \in [Rows -> Row] /\ RowsGood'
      BY <3>6, <3>7, RowsFrom
    <3>9. sub' \in [Requests -> Rows \cup {NoRow}] /\ sub'[q] \in Rows
          /\ \A r \in Requests \ {q} : sub'[r] = sub[r]
      BY <3>1, <3>3 DEF IInv, TypeOK
    <3>10. SubKnown'
      BY <2>4, <3>9 DEF SubKnown, IInv, Actors
    <3>11. TypeOK'
      BY <2>1, <2>2, <2>3, <2>4, <3>8, <3>9, TypedCopies DEF IInv, TypeOK
    <3> QED
      BY <2>2, <2>3, <3>8, <3>10, <3>11 DEF IInv
  <2>6. CASE row' = row /\ sub' = sub /\ End(q, "done")
    <3>1. pc'[q] = "done"
      BY <1>q, <2>6 DEF End, Goto, Labels, IInv, TypeOK
    <3>2. SubKnown'
      BY <2>4, <2>6, <3>1 DEF SubKnown, IInv, Actors
    <3>3. TypeOK'
      BY <2>1, <2>2, <2>3, <2>4, <2>6, TypedCopies DEF IInv, TypeOK
    <3>4. RowsGood'
      BY <2>1, <2>6 DEF RowsGood, IInv
    <3> QED
      BY <2>2, <2>3, <3>2, <3>3, <3>4 DEF IInv
  <2> QED
    BY <1>2, <2>5, <2>6 DEF PreWrite
<1> QED
  BY <1>1, <1>2

\* PostConsumeUserSubscriptionDelta, and the end of a request, keep the invariant.
LEMMA DeltaKeeps ==
    ASSUME IInv, NEW q \in Requests, DeltaRead(q) \/ DeltaWrite(q) \/ Finish(q)
    PROVE  IInv'
<1> USE StoreAssumption
<1>q. q \in Actors
  BY DEF Actors
<1>1. CASE DeltaRead(q)
  <2>1. row' = row /\ now' = now /\ period' = period /\ since' = since
        /\ amount' = amount /\ sub' = sub /\ due' = due /\ count' = count
    BY <1>1 DEF DeltaRead, rowVars, masterVars
  <2>2. sub[q] \in Rows
    BY <1>1 DEF DeltaRead, IInv, SubKnown
  <2>3. left' \in [Requests -> Nat] /\ target' \in [Requests -> Nat]
    BY <1>1 DEF DeltaRead, IInv, TypeOK
  <2>4. CASE Begin(q, {sub[q]}, "deltaWrite")
    <3>1. copy' \in [Actors -> Copies] /\ CopiesGood' /\ plan' \in [Actors -> Nat]
          /\ DOMAIN copy'[q] = {sub[q]}
      BY <1>q, <2>1, <2>2, <2>4, BeginCopies
    <3>2. pc' \in [Actors -> Labels]
          /\ \A a \in Actors \ {q} : pc'[a] = pc[a] /\ copy'[a] = copy[a]
      BY <1>q, <2>4 DEF Begin, Goto, Labels, IInv, TypeOK
    <3>3. SubKnown'
      BY <2>1, <2>2, <3>1, <3>2 DEF SubKnown, IInv, Actors
    <3>4. TypeOK'
      BY <2>1, <2>3, <3>1, <3>2, TypedCopies DEF IInv, TypeOK
    <3> QED
      BY <2>1, <3>1, <3>3, <3>4 DEF IInv, RowsGood
  <2>5. CASE Skip(q, "held")
    <3>1. copy' = copy /\ plan' = plan
      BY <2>5 DEF Skip
    <3>2. pc' \in [Actors -> Labels]
          /\ pc'[q] = "held" /\ \A a \in Actors \ {q} : pc'[a] = pc[a]
      BY <1>q, <2>5 DEF Skip, Goto, Labels, IInv, TypeOK
    <3>3. SubKnown'
      BY <2>1, <2>2, <3>1, <3>2 DEF SubKnown, IInv, Actors
    <3>4. TypeOK'
      BY <2>1, <2>3, <3>1, <3>2, TypedCopies DEF IInv, TypeOK
    <3> QED
      BY <2>1, <3>1, <3>3, <3>4 DEF IInv, RowsGood, CopiesGood
  <2> QED
    BY <1>1, <2>4, <2>5 DEF DeltaRead
<1>2. CASE DeltaWrite(q)
  <2>1. now' = now /\ period' = period /\ since' = since /\ sub' = sub
        /\ left' = left /\ due' = due /\ count' = count /\ End(q, "held")
    BY <1>2 DEF DeltaWrite, masterVars
  <2>2. sub[q] \in Rows /\ DOMAIN copy[q] = {sub[q]}
    BY <1>2 DEF DeltaWrite, IInv, SubKnown
  <2>3. copy' \in [Actors -> Copies] /\ CopiesGood' /\ plan' \in [Actors -> Nat]
    BY <1>q, <2>1, EndCopies
  <2>4. target' \in [Requests -> Nat] /\ amount' \in [Requests -> Nat]
    BY <1>2 DEF DeltaWrite, IInv, TypeOK
  <2>5. pc' \in [Actors -> Labels]
        /\ pc'[q] = "held"
        /\ \A a \in Actors \ {q} : pc'[a] = pc[a] /\ copy'[a] = copy[a]
    BY <1>q, <2>1 DEF End, Goto, Labels, IInv, TypeOK
  <2>6. row' \in [Rows -> Row] /\ RowsGood'
    <3>1. CASE row' = row
      BY <2>1, <3>1 DEF IInv, TypeOK, RowsGood
    <3>2. CASE /\ WithinTotal(sub[q], NewUsed(q))
               /\ row' = [row EXCEPT ![sub[q]] = [copy[q][sub[q]] EXCEPT !.used = NewUsed(q)]]
      <4> DEFINE c == copy[q][sub[q]]
                 u == NewUsed(q)
      <4>1. Good(sub[q], c, now)
        BY <1>q, <2>2 DEF IInv, CopiesGood
      <4>2. c.used \in Nat /\ amount[q] \in Nat /\ target[q] \in Nat
        BY <4>1 DEF Good, Row, IInv, TypeOK
      <4>3. u \in Nat
        BY <4>2 DEF NewUsed, ClampZero
      <4> HIDE DEF c, u
      <4>4. Good(sub[q], [c EXCEPT !.used = u], now)
        BY <3>2, <4>1, <4>3 DEF Good, Row, u
      <4>5. row' = [row EXCEPT ![sub[q]] = [c EXCEPT !.used = u]]
        BY <3>2 DEF c, u
      <4>6. ASSUME NEW s \in Rows PROVE Good(s, row'[s], now')
        <5>1. CASE s = sub[q]
          BY <2>1, <4>4, <4>5, <5>1 DEF IInv, TypeOK
        <5>2. CASE s # sub[q]
          BY <2>1, <4>5, <5>2 DEF IInv, TypeOK, RowsGood
        <5> QED
          BY <5>1, <5>2
      <4>7. row' = [s \in Rows |-> row'[s]]
        BY <4>5 DEF IInv, TypeOK
      <4> QED
        BY <4>6, <4>7, RowsFrom
    <3> QED
      BY <1>2, <3>1, <3>2 DEF DeltaWrite, Allowed
  <2>7. SubKnown'
    BY <2>1, <2>2, <2>5 DEF SubKnown, IInv, Actors
  <2>8. TypeOK'
    BY <2>1, <2>3, <2>4, <2>5, <2>6, TypedCopies DEF IInv, TypeOK
  <2> QED
    BY <2>1, <2>3, <2>6, <2>7, <2>8 DEF IInv
<1>3. CASE Finish(q)
  <2>1. row' = row /\ now' = now /\ period' = period /\ since' = since
        /\ copy' = copy /\ plan' = plan /\ target' = target
        /\ due' = due /\ count' = count
    BY <1>3 DEF Finish, Skip, rowVars, masterVars
  <2>2. amount' \in [Requests -> Nat] /\ sub' \in [Requests -> Rows \cup {NoRow}]
        /\ left' \in [Requests -> Nat]
        /\ \A r \in Requests \ {q} : sub'[r] = sub[r]
    BY <1>3 DEF Finish, IInv, TypeOK
  <2>3. pc' \in [Actors -> Labels]
        /\ pc'[q] = "done" /\ \A a \in Actors \ {q} : pc'[a] = pc[a]
    BY <1>3, <1>q DEF Finish, Skip, Goto, Labels, IInv, TypeOK
  <2>4. SubKnown'
    BY <2>1, <2>2, <2>3 DEF SubKnown, IInv, Actors
  <2>5. TypeOK'
    BY <2>1, <2>2, <2>3, TypedCopies DEF IInv, TypeOK
  <2> QED
    BY <2>1, <2>4, <2>5 DEF IInv, RowsGood, CopiesGood
<1> QED
  BY <1>1, <1>2, <1>3

-----------------------------------------------------------------------------
(* The steps of a master *)

\* ExpireDueSubscriptions and ResetDueSubscriptions keep the invariant.
LEMMA MaintainKeeps ==
    ASSUME IInv, NEW m \in Masters, Maintain(m)
    PROVE  IInv'
<1> USE StoreAssumption
<1>m. m \in Actors /\ m \notin Requests
  BY DEF Actors
<1>0. CASE FindEnded(m)
  <2>1. row' = row /\ now' = now /\ period' = period /\ copy' = copy
        /\ plan' = plan /\ due' = due /\ count' = count /\ amount' = amount
        /\ sub' = sub /\ target' = target /\ left' = left
    BY <1>0 DEF FindEnded, Skip, rowVars, masterVars, requestVars
  <2>2. pc' \in [Actors -> Labels]
        /\ \A a \in Actors \ {m} : pc'[a] = pc[a]
    BY <1>0, <1>m DEF FindEnded, Skip, Goto, Labels, IInv, TypeOK
  <2>3. since' \in [Actors -> Nat] /\ \A a \in Actors : since'[a] <= now'
    BY <1>0, <1>m, <2>1 DEF FindEnded, IInv, TypeOK
  <2>4. SubKnown'
    BY <1>m, <2>1, <2>2 DEF SubKnown, IInv, Actors
  <2>5. TypeOK'
    BY <2>1, <2>2, <2>3, TypedCopies DEF IInv, TypeOK
  <2> QED
    BY <2>1, <2>3, <2>4, <2>5 DEF IInv, RowsGood, CopiesGood
<1>1. CASE Expire(m)
  <2>1. now' = now /\ period' = period /\ copy' = copy
        /\ plan' = plan /\ due' = due /\ count' = count /\ amount' = amount
        /\ sub' = sub /\ target' = target /\ left' = left
    BY <1>1 DEF Expire, Skip, masterVars, requestVars
  <2>2. pc' \in [Actors -> Labels]
        /\ \A a \in Actors \ {m} : pc'[a] = pc[a]
    BY <1>1, <1>m DEF Expire, Skip, Goto, Labels, IInv, TypeOK
  <2>0. since' \in [Actors -> Nat] /\ \A a \in Actors : since'[a] <= now'
    BY <1>1, <1>m, <2>1 DEF Expire, IInv, TypeOK
  <2>3. row' \in [Rows -> Row] /\ RowsGood'
    <3>1. ASSUME NEW s \in Rows PROVE Good(s, row'[s], now')
      <4>1. Good(s, row[s], now)
        BY DEF IInv, RowsGood
      <4>2. Good(s, [row[s] EXCEPT !.status = "expired"], now)
        BY <4>1 DEF Good, Row, Statuses
      <4>3. row'[s] = row[s] \/ row'[s] = [row[s] EXCEPT !.status = "expired"]
        BY <1>1 DEF Expire
      <4> QED
        BY <2>1, <4>1, <4>2, <4>3
    <3>2. row' = [s \in Rows |-> row'[s]]
      BY <1>1 DEF Expire
    <3> QED
      BY <3>1, <3>2, RowsFrom
  <2>4. SubKnown'
    BY <1>m, <2>1, <2>2 DEF SubKnown, IInv, Actors
  <2>5. TypeOK'
    BY <2>0, <2>1, <2>2, <2>3, TypedCopies DEF IInv, TypeOK
  <2> QED
    BY <2>0, <2>1, <2>3, <2>4, <2>5 DEF IInv, CopiesGood
<1>2. CASE ListDue(m)
  <2>1. row' = row /\ now' = now /\ period' = period /\ copy' = copy
        /\ plan' = plan /\ amount' = amount
        /\ sub' = sub /\ target' = target /\ left' = left
    BY <1>2 DEF ListDue, Skip, rowVars, requestVars
  <2>2. pc' \in [Actors -> Labels]
        /\ \A a \in Actors \ {m} : pc'[a] = pc[a]
    BY <1>2, <1>m DEF ListDue, Skip, Goto, Labels, IInv, TypeOK
  <2>3. due' \in [Masters -> SUBSET Rows] /\ count' \in [Masters -> Nat]
    BY <1>2 DEF ListDue, Due, IInv, TypeOK
  <2>4. since' \in [Actors -> Nat] /\ \A a \in Actors : since'[a] <= now'
    BY <1>2, <1>m, <2>1 DEF ListDue, IInv, TypeOK
  <2>5. SubKnown'
    BY <1>m, <2>1, <2>2 DEF SubKnown, IInv, Actors
  <2>6. TypeOK'
    BY <2>1, <2>2, <2>3, <2>4, TypedCopies DEF IInv, TypeOK
  <2> QED
    BY <2>1, <2>4, <2>5, <2>6 DEF IInv, RowsGood, CopiesGood
<1>3. ASSUME NEW s \in Rows, ResetRead(m, s) PROVE IInv'
  <2>1. row' = row /\ now' = now /\ period' = period /\ since' = since
        /\ count' = count /\ amount' = amount
        /\ sub' = sub /\ target' = target /\ left' = left
    BY <1>3 DEF ResetRead, rowVars, requestVars
  <2>2. copy' \in [Actors -> Copies] /\ CopiesGood' /\ plan' \in [Actors -> Nat]
    <3>1. CASE Begin(m, {s}, "resetWrite")
      BY <1>m, <2>1, <3>1, BeginCopies
    <3>2. CASE Skip(m, "reset")
      BY <2>1, <3>2 DEF Skip, IInv, TypeOK, CopiesGood
    <3> QED
      BY <1>3, <3>1, <3>2 DEF ResetRead
  <2>3. pc' \in [Actors -> Labels]
        /\ \A a \in Actors \ {m} : pc'[a] = pc[a] /\ copy'[a] = copy[a]
    BY <1>3, <1>m DEF ResetRead, Begin, Skip, Goto, Labels, IInv, TypeOK
  <2>4. due' \in [Masters -> SUBSET Rows]
    BY <1>3 DEF ResetRead, IInv, TypeOK
  <2>5. SubKnown'
    BY <1>m, <2>1, <2>3 DEF SubKnown, IInv, Actors
  <2>6. TypeOK'
    BY <2>1, <2>2, <2>3, <2>4, TypedCopies DEF IInv, TypeOK
  <2> QED
    BY <2>1, <2>2, <2>5, <2>6 DEF IInv, RowsGood
<1>4. CASE ResetWrite(m)
  <2>1. now' = now /\ period' = period /\ since' = since /\ due' = due
        /\ amount' = amount /\ sub' = sub /\ target' = target /\ left' = left
        /\ End(m, "reset")
    BY <1>4 DEF ResetWrite, requestVars
  <2>2. copy' \in [Actors -> Copies] /\ CopiesGood' /\ plan' \in [Actors -> Nat]
    BY <1>m, <2>1, EndCopies
  <2>3. pc' \in [Actors -> Labels]
        /\ \A a \in Actors \ {m} : pc'[a] = pc[a] /\ copy'[a] = copy[a]
    BY <1>m, <2>1 DEF End, Goto, Labels, IInv, TypeOK
  <2>4. count' \in [Masters -> Nat]
    BY <1>4 DEF ResetWrite, IInv, TypeOK
  <2>5. row' \in [Rows -> Row] /\ RowsGood'
    <3>1. ASSUME NEW s \in Rows PROVE Good(s, row'[s], now')
      <4>1. CASE s \in DOMAIN copy[m] /\ row'[s] = Fresh(m, s)
        BY <1>m, <2>1, <4>1, FreshGood
      <4>2. CASE row'[s] = row[s]
        BY <2>1, <4>2 DEF IInv, RowsGood
      <4> QED
        BY <1>4, <4>1, <4>2 DEF ResetWrite
    <3>2. row' = [s \in Rows |-> row'[s]]
      BY <1>4 DEF ResetWrite
    <3> QED
      BY <3>1, <3>2, RowsFrom
  <2>6. SubKnown'
    BY <1>m, <2>1, <2>3 DEF SubKnown, IInv, Actors
  <2>7. TypeOK'
    BY <2>1, <2>2, <2>3, <2>4, <2>5, TypedCopies DEF IInv, TypeOK
  <2> QED
    BY <2>1, <2>2, <2>5, <2>6, <2>7 DEF IInv
<1>5. CASE ResetEnds(m)
  <2>1. row' = row /\ now' = now /\ period' = period /\ copy' = copy
        /\ plan' = plan /\ due' = due /\ amount' = amount
        /\ sub' = sub /\ target' = target /\ left' = left
    BY <1>5 DEF ResetEnds, Skip, rowVars, requestVars
  <2>2. pc' \in [Actors -> Labels]
        /\ \A a \in Actors \ {m} : pc'[a] = pc[a]
    BY <1>5, <1>m DEF ResetEnds, Skip, Goto, Labels, IInv, TypeOK
  <2>3. count' \in [Masters -> Nat] /\ since' \in [Actors -> Nat]
        /\ \A a \in Actors : since'[a] <= now'
    BY <1>5, <1>m, <2>1 DEF ResetEnds, IInv, TypeOK
  <2>4. SubKnown'
    BY <1>m, <2>1, <2>2 DEF SubKnown, IInv, Actors
  <2>5. TypeOK'
    BY <2>1, <2>2, <2>3, TypedCopies DEF IInv, TypeOK
  <2> QED
    BY <2>1, <2>3, <2>4, <2>5 DEF IInv, RowsGood, CopiesGood
<1> QED
  BY <1>0, <1>1, <1>2, <1>3, <1>4, <1>5 DEF Maintain

-----------------------------------------------------------------------------
(* The other steps, and the theorems *)

\* Administration, failing transactions and time keep the invariant.
LEMMA OthersKeep ==
    ASSUME IInv,
           \/ Tick \/ UpdatePlan \/ (\E a \in Actors : Fail(a))
           \/ \E s \in Rows : Cancel(s) \/ Delete(s)
    PROVE  IInv'
<1> USE StoreAssumption
<1>1. CASE Tick
  <2>1. row' = row /\ period' = period /\ pc' = pc /\ copy' = copy /\ since' = since
        /\ plan' = plan /\ due' = due /\ count' = count /\ amount' = amount
        /\ sub' = sub /\ target' = target /\ left' = left
    BY <1>1 DEF Tick, masterVars, requestVars
  <2>2. now \in Nat /\ now' \in Nat /\ now <= now'
    BY <1>1 DEF Tick, IInv, TypeOK
  <2>3. RowsGood'
    BY <2>1, <2>2, GoodLater DEF IInv, RowsGood
  <2>4. CopiesGood'
    BY <2>1, <2>2, GoodLater DEF IInv, CopiesGood
  <2>5. TypeOK' /\ SubKnown'
    BY <2>1, <2>2 DEF IInv, TypeOK, SubKnown
  <2>6. \A a \in Actors : since'[a] <= now'
    BY <2>1, <2>2 DEF IInv, TypeOK
  <2> QED
    BY <2>1, <2>3, <2>4, <2>5, <2>6 DEF IInv
<1>2. CASE UpdatePlan
  <2>1. row' = row /\ now' = now /\ pc' = pc /\ copy' = copy /\ since' = since
        /\ plan' = plan /\ due' = due /\ count' = count /\ amount' = amount
        /\ sub' = sub /\ target' = target /\ left' = left /\ period' \in Nat
    BY <1>2 DEF UpdatePlan, masterVars, requestVars
  <2> QED
    BY <2>1 DEF IInv, TypeOK, SubKnown, RowsGood, CopiesGood
<1>3. ASSUME NEW a \in Actors, Fail(a) PROVE IInv'
  <2>1. row' = row /\ now' = now /\ period' = period /\ sub' = sub /\ left' = left
    BY <1>3 DEF Fail, rowVars
  <2>2. copy' \in [Actors -> Copies] /\ CopiesGood' /\ plan' \in [Actors -> Nat]
    <3>1. CASE UNCHANGED <<copy, plan>>
      BY <2>1, <3>1 DEF IInv, TypeOK, CopiesGood
    <3>2. CASE ~UNCHANGED <<copy, plan>>
      BY <1>3, <2>1, <3>2, EndCopies DEF Fail, Skip
    <3> QED
      BY <3>1, <3>2
  <2>3. /\ pc' \in [Actors -> Labels]
        /\ pc'[a] \in {"done", "expire"} \/ (pc[a] = "deltaWrite" /\ pc'[a] = "held")
        /\ \A b \in Actors \ {a} : pc'[b] = pc[b] /\ copy'[b] = copy[b]
    <3>1. pc \in [Actors -> Labels] /\ copy \in [Actors -> Copies]
      BY DEF IInv, TypeOK
    <3>2. copy' = [copy EXCEPT ![a] = NoCopy] \/ copy' = copy
      BY <1>3 DEF Fail, End, Skip
    <3>3. \/ pc' = [pc EXCEPT ![a] = "done"]
          \/ pc' = [pc EXCEPT ![a] = "expire"]
          \/ pc[a] = "deltaWrite" /\ pc' = [pc EXCEPT ![a] = "held"]
      BY <1>3 DEF Fail, End, Skip, Goto
    <3> QED
      BY <3>1, <3>2, <3>3 DEF Labels
  <2>4. due' \in [Masters -> SUBSET Rows] /\ count' \in [Masters -> Nat]
    BY <1>3 DEF Fail, IInv, TypeOK
  <2>5. amount' \in [Requests -> Nat] /\ target' \in [Requests -> Nat]
    BY <1>3 DEF Fail, IInv, TypeOK
  <2>6. since' \in [Actors -> Nat] /\ \A b \in Actors : since'[b] <= now'
    BY <1>3, <2>1 DEF Fail, IInv, TypeOK
  <2>7. SubKnown'
    BY <2>1, <2>3 DEF SubKnown, IInv, Actors
  <2>8. TypeOK'
    BY <2>1, <2>2, <2>3, <2>4, <2>5, <2>6, TypedCopies DEF IInv, TypeOK
  <2> QED
    BY <2>1, <2>2, <2>6, <2>7, <2>8 DEF IInv, RowsGood
<1>4. ASSUME NEW s \in Rows, Cancel(s) \/ Delete(s) PROVE IInv'
  <2>1. now' = now /\ period' = period /\ pc' = pc /\ copy' = copy /\ since' = since
        /\ plan' = plan /\ due' = due /\ count' = count /\ amount' = amount
        /\ sub' = sub /\ target' = target /\ left' = left
    BY <1>4 DEF Cancel, Delete, masterVars, requestVars
  <2>2. Good(s, row[s], now) /\ now \in Nat /\ Total[s] \in Nat
    BY DEF IInv, RowsGood, TypeOK
  <2>3. Good(s, [row[s] EXCEPT !.status = "cancelled", !.end = now], now)
    <3> DEFINE r == row[s]
               e == [r EXCEPT !.status = "cancelled", !.end = now]
    <3>1. r \in Row /\ Good(s, r, now)
      BY <2>2 DEF Good
    <3> HIDE DEF r
    <3>2. e \in Row /\ e.status = "cancelled" /\ e.used = r.used /\ e.last = r.last
          /\ e.next = r.next
      BY <2>2, <3>1 DEF Row, Statuses
    <3> HIDE DEF e
    <3>3. Good(s, e, now)
      BY <3>1, <3>2 DEF Good
    <3> QED
      BY <3>3 DEF e, r
  <2>4. Good(s, Gone, now)
    BY <2>2 DEF Good, Gone, Row, Statuses, WithinTotal
  <2>5. row' \in [Rows -> Row] /\ RowsGood'
    <3>1. ASSUME NEW x \in Rows PROVE Good(x, row'[x], now')
      <4>1. row'[x] = row[x] \/ (x = s /\ (row'[x] = Gone \/
                row'[x] = [row[s] EXCEPT !.status = "cancelled", !.end = now]))
        BY <1>4 DEF Cancel, Delete, IInv, TypeOK
      <4> QED
        BY <2>1, <2>3, <2>4, <4>1 DEF IInv, RowsGood
    <3>2. row' = [x \in Rows |-> row'[x]]
      BY <1>4 DEF Cancel, Delete, IInv, TypeOK
    <3> QED
      BY <3>1, <3>2, RowsFrom
  <2> QED
    BY <2>1, <2>5 DEF IInv, TypeOK, SubKnown, CopiesGood
<1> QED
  BY <1>1, <1>2, <1>3, <1>4

\* The invariant holds at the start.
LEMMA InitInv ==
    ASSUME Init
    PROVE  IInv
<1> USE StoreAssumption
<1>1. ASSUME NEW s \in Rows PROVE Good(s, row[s], now)
  <2>1. EndTime[s] \in Nat /\ period \in Nat /\ Total[s] \in Nat
    BY DEF Init
  <2>2. CalcNext(0, period, EndTime[s]) \in Nat
        /\ (CalcNext(0, period, EndTime[s]) > 0 =>
                CalcNext(0, period, EndTime[s]) <= EndTime[s])
    BY <2>1, CalcNextBounds
  <2>3. row[s] = [status |-> "active", used |-> 0, last |-> 0,
                  next |-> CalcNext(0, period, EndTime[s]), end |-> EndTime[s]]
        /\ now = 0
    BY DEF Init
  <2> QED
    BY <2>1, <2>2, <2>3 DEF Good, Row, Statuses, WithinTotal
<1>2. row \in [Rows -> Row]
  <2>1. \A s \in Rows : row[s] \in Row
    BY <1>1 DEF Good
  <2> QED
    BY <2>1 DEF Init
<1>3. NoCopy \in Copies
  <2>1. NoCopy \in [{} -> Row]
    BY DEF NoCopy
  <2> QED
    BY <2>1, IsCopy
<1>4. copy \in [Actors -> Copies] /\ CopiesGood
  BY <1>3 DEF Init, CopiesGood, NoCopy
<1>5. TypeOK
  BY <1>2, <1>4, TypedCopies DEF Init, TypeOK, Labels
<1>6. SubKnown
  BY DEF Init, SubKnown, Actors
<1>7. \A a \in Actors : since[a] <= now
  BY DEF Init
<1> QED
  BY <1>1, <1>4, <1>5, <1>6, <1>7 DEF IInv, RowsGood

\* The invariant holds in every behaviour.
LEMMA Invariance == Spec => []IInv
<1>1. Init => IInv
  BY InitInv
<1>2. IInv /\ [Next]_vars => IInv'
  <2> SUFFICES ASSUME IInv, [Next]_vars PROVE IInv'
    OBVIOUS
  <2>1. CASE UNCHANGED vars
    BY <2>1 DEF vars, IInv, TypeOK, RowsGood, CopiesGood, SubKnown
  <2>2. CASE Next
    BY <2>2, PreKeeps, DeltaKeeps, MaintainKeeps, OthersKeep DEF Next, Request
  <2> QED
    BY <2>1, <2>2
<1> QED
  BY <1>1, <1>2, PTL DEF Spec

\* The columns and copies keep their types; amount_used never becomes negative,
\* also when PostConsumeUserSubscriptionDelta refunds a row that was reset.
THEOREM TypeCorrect == Spec => []TypeOK
<1>1. IInv => TypeOK
  BY DEF IInv
<1> QED
  BY <1>1, Invariance, PTL

\* PreConsumeUserSubscription and PostConsumeUserSubscriptionDelta never save more
\* than amount_total, whatever other transactions do to the row meanwhile.
THEOREM UsedWithinTotalHolds == Spec => []UsedWithinTotal
<1>1. IInv => UsedWithinTotal
  BY DEF IInv, RowsGood, Good, UsedWithinTotal
<1> QED
  BY <1>1, Invariance, PTL

\* maybeResetUserSubscriptionWithPlanTx leaves a last reset that is past and a
\* next reset after it, within an active subscription, through stale saves, edits
\* of the plan and cancellations.
THEOREM ResetScheduleHolds == Spec => []ResetSchedule
<1>1. IInv => ResetSchedule
  BY DEF IInv, RowsGood, Good, ResetSchedule
<1> QED
  BY <1>1, Invariance, PTL
=============================================================================
