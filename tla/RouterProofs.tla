------------------------------ MODULE RouterProofs ------------------------------
(***************************************************************************)
(* What route finds in its table and what becomes of the datagrams, for    *)
(* every number of interfaces, routes and datagrams and every order of     *)
(* frames, ticks and calls.                                                *)
(***************************************************************************)
EXTENDS Router, InductionLemmas

------------------------------------------------------------------------------
(* The loops of the code. *)

\* A loop: at is the state after each round, and round i applies step to i and
\* what round i - 1 left.
Rounds(at, n, X, first, step) ==
    /\ at \in [0..n -> X]
    /\ at[0] = first
    /\ \A i \in 1..n : at[i] = step[<<i, at[i - 1]>>]

\* The states of a loop with n rounds can be listed.
LEMMA LoopRuns ==
    ASSUME NEW X, NEW first \in X, NEW n \in Nat, NEW step \in [(1..n) \X X -> X]
    PROVE  \E at : Rounds(at, n, X, first, step)
  <1> DEFINE S == {m \in Nat : m <= n => \E at : Rounds(at, m, X, first, step)}
  <1>1. 0 \in S
    <2>1. Rounds([i \in 0..0 |-> first], 0, X, first, step)
      BY DEF Rounds
    <2> QED BY <2>1
  <1>2. ASSUME NEW m \in Nat, m \in S PROVE m + 1 \in S
    <2> SUFFICES ASSUME m + 1 <= n PROVE \E at : Rounds(at, m + 1, X, first, step)
      OBVIOUS
    <2>1. PICK at : Rounds(at, m, X, first, step)
      BY <1>2
    <2>2. at[m] \in X /\ step[<<m + 1, at[m]>>] \in X
      BY <2>1 DEF Rounds
    <2> DEFINE longer == [i \in 0..m + 1 |-> IF i <= m THEN at[i] ELSE step[<<m + 1, at[m]>>]]
    <2>3. longer \in [0..m + 1 -> X]
      BY <2>1, <2>2 DEF Rounds
    <2>4. longer[0] = first
      BY <2>1 DEF Rounds
    <2>5. ASSUME NEW i \in 1..m + 1 PROVE longer[i] = step[<<i, longer[i - 1]>>]
      <3>1. CASE i <= m
        BY <2>1, <3>1 DEF Rounds
      <3>2. CASE i = m + 1
        BY <3>2, SMTT(60)
      <3> QED BY <3>1, <3>2
    <2> HIDE DEF longer
    <2> QED BY <2>3, <2>4, <2>5 DEF Rounds
  <1>3. Nat \subseteq S
    <2> HIDE DEF S
    <2> QED BY <1>1, <1>2, SetInduction
  <1> QED BY <1>3

\* Induction up to a bound.
LEMMA BoundedInduction ==
    ASSUME NEW n \in Nat, NEW S, 0 \in S, \A i \in 1..n : i - 1 \in S => i \in S
    PROVE  0..n \subseteq S
  <1> DEFINE T == {i \in Nat : i <= n => i \in S}
  <1>1. 0 \in T
    OBVIOUS
  <1>2. ASSUME NEW i \in Nat, i \in T PROVE i + 1 \in T
    <2> SUFFICES ASSUME i + 1 <= n PROVE i + 1 \in S
      OBVIOUS
    <2>1. i \in S /\ i + 1 \in 1..n /\ (i + 1) - 1 = i
      BY <1>2
    <2> QED BY <2>1
  <1>3. Nat \subseteq T
    <2> HIDE DEF T
    <2> QED BY <1>1, <1>2, SetInduction
  <1> QED BY <1>3

------------------------------------------------------------------------------
(* The table of routes. *)

\* What the loops over the table carry from route to route.
Match == [interface : Nat \union {NoNode}, length : Nat, next_hop : IP \union {NoHop}]

\* The routes of the first num rows of a table, and the first k of the next.
Seen(table, num, k) ==
    {x \in Nat \X Routes : \E i \in 1..Len(table) : \E j \in 1..Len(table[i]) :
        x = <<i - 1, table[i][j]>> /\ (i <= num \/ (i = num + 1 /\ j <= k))}

Entries(table) == Seen(table, Len(table), 0)

\* m is a route among those of S that match, and none of them is longer.
Longest(m, S, dst) ==
    LET Matching == {x \in S : ipPrefixMatched(dst, x[2].prefix, x[2].length)}
    IN  /\ m = NoMatch <=> Matching = {}
        /\ m # NoMatch =>
             /\ \E x \in Matching : x[1] = m.interface /\ x[2].length = m.length
                                    /\ x[2].next_hop = m.next_hop
             /\ \A x \in Matching : x[2].length <= m.length

\* The members of a route of the table.
LEMMA RouteMembers ==
    ASSUME NEW route \in Routes
    PROVE  /\ route.prefix \in IP /\ route.length \in Nat
           /\ route.next_hop \in IP \union {NoHop}
  BY RoutesAssumption, WidthAssumption

\* One comparison: at equal length the later route wins.
LEMMA BetterKeeps ==
    ASSUME NEW best \in Match, NEW num \in Nat, NEW route \in Routes, NEW dst,
           NEW S \in SUBSET (Nat \X Routes), Longest(best, S, dst)
    PROVE  /\ Better(best, num, route, dst) \in Match
           /\ Longest(Better(best, num, route, dst), S \union {<<num, route>>}, dst)
  <1> DEFINE Matches(r) == ipPrefixMatched(dst, r.prefix, r.length)
             M == {x \in S : Matches(x[2])}
             N == {x \in S \union {<<num, route>>} : Matches(x[2])}
             b == Better(best, num, route, dst)
             taken == [interface |-> num, length |-> route.length, next_hop |-> route.next_hop]
  <1>1. taken \in Match /\ taken # NoMatch /\ route.length \in Nat
    BY RouteMembers, NullAssumption DEF Match, NoMatch
  <1>2. \A x \in M : x[2] \in Routes /\ x[2].length \in Nat
    BY RouteMembers
  <1>3. best = NoMatch => \A x \in M : FALSE
    BY DEF Longest
  <1>4. best # NoMatch => \A x \in M : x[2].length <= best.length
    BY DEF Longest
  <1>5. best.length \in Nat
    BY DEF Match
  <1>6. CASE Matches(route) /\ route.length >= best.length
    <2>1. b = taken
      BY <1>6 DEF Better
    <2>2. <<num, route>> \in N
      BY <1>6
    <2>3. \A x \in N : x \in M \/ x = <<num, route>>
      OBVIOUS
    <2>4. \A x \in N : x[2].length <= route.length
      BY <1>1, <1>2, <1>3, <1>4, <1>5, <1>6, <2>3
    <2>5. \E x \in N : x[1] = taken.interface /\ x[2].length = taken.length
                         /\ x[2].next_hop = taken.next_hop
      BY <2>2
    <2> QED BY <1>1, <2>1, <2>2, <2>4, <2>5 DEF Longest
  <1>7. CASE Matches(route) /\ ~(route.length >= best.length)
    <2>1. b = best
      BY <1>7 DEF Better
    <2>2. best # NoMatch
      BY <1>1, <1>7 DEF NoMatch
    <2>3. \A x \in N : x \in M \/ x = <<num, route>>
      OBVIOUS
    <2>4. \A x \in N : x[2].length <= best.length
      BY <1>1, <1>4, <1>5, <1>7, <2>2, <2>3
    <2>5. \E x \in M : x[1] = best.interface /\ x[2].length = best.length
                         /\ x[2].next_hop = best.next_hop
      BY <2>2 DEF Longest
    <2>6. M \subseteq N
      OBVIOUS
    <2>7. \E x \in N : x[1] = best.interface /\ x[2].length = best.length
                         /\ x[2].next_hop = best.next_hop
      BY <2>5, <2>6
    <2> HIDE DEF b, Matches
    <2>8. N # {}
      BY <2>7
    <2> QED BY <2>1, <2>2, <2>4, <2>7, <2>8 DEF Longest, Matches, b
  <1>8. CASE ~Matches(route)
    <2>1. b = best
      BY <1>8 DEF Better
    <2>2. N = M
      BY <1>8
    <2> QED BY <2>1, <2>2 DEF Longest
  <1> QED BY <1>6, <1>7, <1>8

\* One more route of a row has been seen.
LEMMA SeenNext ==
    ASSUME NEW table \in Seq(Seq(Routes)), NEW num \in 1..Len(table), NEW k \in 1..Len(table[num])
    PROVE  /\ Seen(table, num - 1, k)
                = Seen(table, num - 1, k - 1) \union {<<num - 1, table[num][k]>>}
           /\ table[num][k] \in Routes /\ num - 1 \in Nat
  <1>1. table[num] \in Seq(Routes) /\ num - 1 \in Nat
    OBVIOUS
  <1>2. table[num][k] \in Routes /\ k \in Nat \ {0}
    BY <1>1
  <1> DEFINE e == <<num - 1, table[num][k]>>
  <1>3. e \in Nat \X Routes
    BY <1>1, <1>2
  <1>4. ASSUME NEW x \in Seen(table, num - 1, k) PROVE x \in Seen(table, num - 1, k - 1) \union {e}
    <2>1. PICK i \in 1..Len(table) : \E j \in 1..Len(table[i]) :
            x = <<i - 1, table[i][j]>> /\ (i <= num - 1 \/ (i = num - 1 + 1 /\ j <= k))
      BY <1>4 DEF Seen
    <2>2. PICK j \in 1..Len(table[i]) :
            x = <<i - 1, table[i][j]>> /\ (i <= num - 1 \/ (i = num - 1 + 1 /\ j <= k))
      BY <2>1
    <2>3. CASE i = num /\ j = k
      BY <2>2, <2>3
    <2>4. CASE ~(i = num /\ j = k)
      <3>1. i <= num - 1 \/ (i = num - 1 + 1 /\ j <= k - 1)
        BY <1>2, <2>2, <2>4
      <3> QED BY <1>4, <2>2, <3>1 DEF Seen
    <2> QED BY <2>3, <2>4
  <1>5. ASSUME NEW x \in Seen(table, num - 1, k - 1) PROVE x \in Seen(table, num - 1, k)
    <2>1. PICK i \in 1..Len(table) : \E j \in 1..Len(table[i]) :
            x = <<i - 1, table[i][j]>> /\ (i <= num - 1 \/ (i = num - 1 + 1 /\ j <= k - 1))
      BY <1>5 DEF Seen
    <2>2. PICK j \in 1..Len(table[i]) :
            x = <<i - 1, table[i][j]>> /\ (i <= num - 1 \/ (i = num - 1 + 1 /\ j <= k - 1))
      BY <2>1
    <2>3. i <= num - 1 \/ (i = num - 1 + 1 /\ j <= k)
      BY <1>2, <2>2
    <2> QED BY <1>5, <2>2, <2>3 DEF Seen
  <1>6. e \in Seen(table, num - 1, k)
    <2>1. num = num - 1 + 1 /\ k <= k
      BY <1>2
    <2> QED BY <1>3, <2>1 DEF Seen
  <1> QED BY <1>1, <1>2, <1>4, <1>5, <1>6

\* A row that has been seen to its end is one of the rows before the next.
LEMMA SeenRow ==
    ASSUME NEW table \in Seq(Seq(Routes)), NEW num \in 1..Len(table)
    PROVE  Seen(table, num - 1, Len(table[num])) = Seen(table, num, 0)
  <1>1. \A i \in 1..Len(table) : \A j \in 1..Len(table[i]) :
           (i <= num - 1 \/ (i = num - 1 + 1 /\ j <= Len(table[num])))
           <=> (i <= num \/ (i = num + 1 /\ j <= 0))
    OBVIOUS
  <1> QED BY <1>1 DEF Seen

\* The inner loop looks at every route of its row.
LEMMA ScanIsLongest ==
    ASSUME NEW table \in Seq(Seq(Routes)), NEW num \in 1..Len(table), NEW best \in Match, NEW dst
    PROVE  /\ Scan(table, num, best, dst) \in Match
           /\ Longest(best, Seen(table, num - 1, 0), dst)
                => Longest(Scan(table, num, best, dst), Seen(table, num, 0), dst)
  <1> DEFINE n == Len(table[num])
             step == [x \in (1..n) \X Match |-> Better(x[2], num - 1, table[num][x[1]], dst)]
             Unfolds(f) == f = [k \in 0..n |-> IF k = 0 THEN best
                                               ELSE Better(f[k - 1], num - 1, table[num][k], dst)]
             after == CHOOSE f : Unfolds(f)
             Known == Longest(best, Seen(table, num - 1, 0), dst)
             Good == {k \in 0..n : /\ after[k] \in Match
                                   /\ Known => Longest(after[k], Seen(table, num - 1, k), dst)}
  <1>1. n \in Nat /\ num - 1 \in Nat /\ \A k \in 1..n : table[num][k] \in Routes
    BY SeenNext
  <1>2. \A b \in Match, r \in Routes : Better(b, num - 1, r, dst) \in Match
    <2>1. ASSUME NEW b \in Match, NEW r \in Routes PROVE Better(b, num - 1, r, dst) \in Match
      BY <1>1, RouteMembers DEF Better, Match
    <2> QED BY <2>1
  <1>3. step \in [(1..n) \X Match -> Match]
    BY <1>1, <1>2
  <1>4. PICK at : Rounds(at, n, Match, best, step)
    <2> HIDE DEF n, step
    <2> QED BY <1>1, <1>3, LoopRuns
  <1>5. Unfolds(at)
    <2> HIDE DEF n
    <2>1. at \in [0..n -> Match] /\ at[0] = best /\ \A k \in 1..n : at[k] = step[<<k, at[k - 1]>>]
      BY <1>4 DEF Rounds
    <2>2. ASSUME NEW k \in 1..n PROVE at[k] = Better(at[k - 1], num - 1, table[num][k], dst)
      <3>1. k - 1 \in 0..n
        BY <1>1
      <3>2. at[k - 1] \in Match
        BY <2>1, <3>1
      <3> QED BY <2>1, <3>2
    <2> HIDE DEF step
    <2> QED BY <1>1, <2>1, <2>2
  <1>6. Unfolds(after)
    <2> HIDE DEF Unfolds
    <2> QED BY <1>5
  <1>7. \A k \in 0..n : after[k] = IF k = 0 THEN best
                                   ELSE Better(after[k - 1], num - 1, table[num][k], dst)
    <2> HIDE DEF after, n
    <2> QED BY <1>6
  <1> HIDE DEF after, n, Unfolds
  <1>8. 0 \in Good
    <2>1. 0 \in 0..n
      BY <1>1
    <2> QED BY <1>7, <2>1
  <1>9. ASSUME NEW k \in 1..n, k - 1 \in Good PROVE k \in Good
    <2> DEFINE prev == after[k - 1]
               next == Better(prev, num - 1, table[num][k], dst)
    <2>1. prev \in Match /\ (Known => Longest(prev, Seen(table, num - 1, k - 1), dst))
      BY <1>9
    <2>2. k \in 0..n /\ after[k] = next
      <3>1. k \in 0..n /\ k # 0
        BY <1>1
      <3> QED BY <1>7, <3>1
    <2>3. table[num][k] \in Routes /\ k \in 1..Len(table[num])
      BY <1>1 DEF n
    <2>4. /\ Seen(table, num - 1, k) = Seen(table, num - 1, k - 1) \union {<<num - 1, table[num][k]>>}
          /\ Seen(table, num - 1, k - 1) \in SUBSET (Nat \X Routes)
      BY <2>3, SeenNext, ZenonT(60) DEF Seen
    <2> HIDE DEF prev
    <2>5. Known => Longest(next, Seen(table, num - 1, k), dst)
      <3> DEFINE S == Seen(table, num - 1, k - 1)
                 route == table[num][k]
                 m == num - 1
      <3>1. /\ S \in SUBSET (Nat \X Routes) /\ route \in Routes /\ m \in Nat
            /\ Seen(table, num - 1, k) = S \union {<<m, route>>}
        BY <1>1, <2>3, <2>4
      <3>2. Known => Longest(prev, S, dst)
        BY <2>1
      <3> HIDE DEF S, route, m, Known
      <3>3. Known => Longest(Better(prev, m, route, dst), S \union {<<m, route>>}, dst)
        BY <2>1, <3>1, <3>2, BetterKeeps
      <3> QED BY <3>1, <3>3 DEF m, route
    <2>6. next \in Match
      BY <1>2, <2>1, <2>3
    <2> HIDE DEF next, Known
    <2> QED BY <2>2, <2>5, <2>6
  <1>10. n \in Good
    <2> HIDE DEF Good
    <2>1. 0..n \subseteq Good
      BY <1>1, <1>8, <1>9, BoundedInduction
    <2> QED BY <1>1, <2>1
  <1>11. Scan(table, num, best, dst) = after[n]
    BY DEF Scan, after, n, Unfolds
  <1> QED BY <1>10, <1>11, SeenRow DEF n

\* The two loops find the longest route that matches, wherever it stands in
\* the table.
THEOREM LookupIsLongest ==
    ASSUME NEW table \in Seq(Seq(Routes)), NEW dst
    PROVE  /\ Lookup(table, dst) \in Match
           /\ Longest(Lookup(table, dst), Entries(table), dst)
  <1> DEFINE n == Len(table)
             step == [x \in (1..n) \X Match |-> Scan(table, x[1], x[2], dst)]
             Unfolds(f) == f = [num \in 0..n |-> IF num = 0 THEN NoMatch
                                                 ELSE Scan(table, num, f[num - 1], dst)]
             overall == CHOOSE f : Unfolds(f)
             Good == {num \in 0..n : /\ overall[num] \in Match
                                     /\ Longest(overall[num], Seen(table, num, 0), dst)}
  <1>1. n \in Nat /\ NoMatch \in Match
    BY DEF Match, NoMatch
  <1>2. \A num \in 1..n, b \in Match : Scan(table, num, b, dst) \in Match
    BY ScanIsLongest
  <1> HIDE DEF n
  <1>3. step \in [(1..n) \X Match -> Match]
    BY <1>2
  <1>4. PICK at : Rounds(at, n, Match, NoMatch, step)
    <2> HIDE DEF step
    <2> QED BY <1>1, <1>3, LoopRuns
  <1>5. Unfolds(at)
    <2>1. at \in [0..n -> Match] /\ at[0] = NoMatch /\ \A k \in 1..n : at[k] = step[<<k, at[k - 1]>>]
      BY <1>4 DEF Rounds
    <2>2. ASSUME NEW k \in 1..n PROVE at[k] = Scan(table, k, at[k - 1], dst)
      <3>1. k - 1 \in 0..n
        BY <1>1
      <3>2. at[k - 1] \in Match
        BY <2>1, <3>1
      <3> QED BY <2>1, <3>2
    <2> HIDE DEF step
    <2> QED BY <1>1, <2>1, <2>2
  <1>6. Unfolds(overall)
    <2> HIDE DEF Unfolds
    <2> QED BY <1>5
  <1>7. \A k \in 0..n : overall[k] = IF k = 0 THEN NoMatch ELSE Scan(table, k, overall[k - 1], dst)
    <2> HIDE DEF overall
    <2> QED BY <1>6
  <1> HIDE DEF overall, Unfolds
  <1>8. 0 \in Good
    <2>1. 0 \in 0..n
      BY <1>1
    <2>2. Seen(table, 0, 0) = {}
      BY DEF Seen
    <2>3. overall[0] = NoMatch
      BY <1>7, <2>1
    <2> QED BY <1>1, <2>1, <2>2, <2>3 DEF Longest
  <1>9. ASSUME NEW k \in 1..n, k - 1 \in Good PROVE k \in Good
    <2> DEFINE prev == overall[k - 1]
               next == Scan(table, k, prev, dst)
    <2>1. prev \in Match /\ Longest(prev, Seen(table, k - 1, 0), dst)
      BY <1>9
    <2>2. k \in 0..n /\ overall[k] = next
      <3>1. k \in 0..n /\ k # 0
        BY <1>1
      <3> QED BY <1>7, <3>1
    <2> HIDE DEF prev
    <2>3. next \in Match /\ Longest(next, Seen(table, k, 0), dst)
      BY <2>1, ScanIsLongest DEF n
    <2> HIDE DEF next
    <2> QED BY <2>2, <2>3
  <1>10. n \in Good
    <2> HIDE DEF Good
    <2>1. 0..n \subseteq Good
      BY <1>1, <1>8, <1>9, BoundedInduction
    <2> QED BY <1>1, <2>1
  <1>11. Lookup(table, dst) = overall[n]
    BY DEF Lookup, overall, n, Unfolds
  <1> QED BY <1>10, <1>11 DEF n, Entries

\* What a table holds, without a count of what has been seen.
LEMMA EntriesMembers ==
    ASSUME NEW table \in Seq(Seq(Routes))
    PROVE  Entries(table) = {x \in Nat \X Routes : \E i \in 1..Len(table) :
                                \E j \in 1..Len(table[i]) : x = <<i - 1, table[i][j]>>}
  BY SMTT(60) DEF Entries, Seen

\* The table and the calls of add_route that made it.
TableInv ==
    /\ router_table \in Seq(Seq(Routes))
    /\ added \in Seq(Nat \X Routes)
    /\ Entries(router_table) \subseteq ToSet(added)
    /\ ~AnyRouteOrder => ToSet(added) \subseteq Entries(router_table)

\* add_route: the rows from num + 2 on are cut off; without them there is one
\* route more.
LEMMA AddRouteKeeps ==
    ASSUME TableInv, NEW num \in Nat, NEW route \in Routes, AddRoute(num, route)
    PROVE  TableInv' /\ Len(router_table') = num + 1 /\ ToSet(added) \subseteq ToSet(added')
  <1> DEFINE t == router_table
             row == IF num + 1 <= Len(t) THEN t[num + 1] ELSE <<>>
             u == router_table'
  <1>1. t \in Seq(Seq(Routes)) /\ Len(t) \in Nat
    BY DEF TableInv
  <1>2. Resized(t, num + 1) \in Seq(Seq(Routes)) /\ Len(Resized(t, num + 1)) = num + 1
    BY <1>1 DEF Resized
  <1>3. row \in Seq(Routes)
    BY <1>1
  <1>4. /\ u \in Seq(Seq(Routes)) /\ Len(u) = num + 1
        /\ \A i \in 1..num : u[i] = IF i <= Len(t) THEN t[i] ELSE <<>>
        /\ u[num + 1] = Append(row, route)
    <2>1. u = [Resized(t, num + 1) EXCEPT ![num + 1] = Append(row, route)]
      <3>1. Resized(t, num + 1)[num + 1] = row
        BY DEF Resized
      <3> QED BY <3>1 DEF AddRoute
    <2>2. Append(row, route) \in Seq(Routes)
      BY <1>3
    <2>3. \A i \in 1..num : Resized(t, num + 1)[i] = IF i <= Len(t) THEN t[i] ELSE <<>>
      BY DEF Resized
    <2> HIDE DEF row, u
    <2> QED BY <1>2, <2>1, <2>2, <2>3
  <1> DEFINE e == <<num, route>>
  <1>5. added' = Append(added, e) /\ added \in Seq(Nat \X Routes) /\ e \in Nat \X Routes
    BY DEF AddRoute, TableInv
  <1>6. added' \in Seq(Nat \X Routes) /\ ToSet(added') = ToSet(added) \union {e}
    <2> HIDE DEF e
    <2> QED BY <1>5, SMTT(60) DEF ToSet
  <1>7. Entries(u) \subseteq Entries(t) \union {e}
    <2> SUFFICES ASSUME NEW x \in Entries(u) PROVE x \in Entries(t) \union {e}
      OBVIOUS
    <2>1. PICK i \in 1..num + 1 : \E j \in 1..Len(u[i]) : x = <<i - 1, u[i][j]>>
      BY <1>4, EntriesMembers, SMTT(60)
    <2>2. PICK j \in 1..Len(u[i]) : x = <<i - 1, u[i][j]>>
      BY <2>1
    <2>3. x \in Nat \X Routes
      BY <1>4, EntriesMembers
    <2>4. CASE i <= Len(t) /\ j <= Len(t[i]) /\ u[i][j] = t[i][j]
      <3>1. i \in 1..Len(t) /\ j \in 1..Len(t[i])
        BY <2>4
      <3> QED BY <1>1, <2>2, <2>3, <2>4, <3>1, EntriesMembers
    <2>5. CASE i = num + 1 /\ j = Len(row) + 1
      <3>1. u[i][j] = route
        BY <1>3, <1>4, <2>5
      <3> QED BY <2>2, <2>5, <3>1
    <2>6. CASE i \in 1..num
      <3>1. i <= Len(t) /\ u[i] = t[i]
        BY <1>1, <1>4, <2>6, SMTT(60)
      <3> QED BY <2>4, <3>1
    <2>7. CASE i = num + 1 /\ j # Len(row) + 1
      <3>1. u[i] = Append(row, route)
        BY <1>4, <2>7
      <3>2. j <= Len(row) /\ u[i][j] = row[j]
        BY <1>3, <2>7, <3>1
      <3>3. i <= Len(t) /\ row = t[i]
        BY <1>1, <2>7, <3>2
      <3> QED BY <2>4, <3>2, <3>3
    <2> QED BY <2>5, <2>6, <2>7
  <1>8. e \in Entries(u)
    <2>1. num + 1 \in 1..Len(u) /\ Len(row) + 1 \in 1..Len(u[num + 1])
          /\ u[num + 1][Len(row) + 1] = route /\ (num + 1) - 1 = num
      BY <1>3, <1>4
    <2>2. e = <<(num + 1) - 1, u[num + 1][Len(row) + 1]>>
      BY <2>1
    <2> HIDE DEF row, u, e
    <2> QED BY <1>4, <1>5, <2>1, <2>2, EntriesMembers
  <1>9. ASSUME ~AnyRouteOrder, NEW x \in Entries(t) PROVE x \in Entries(u)
    <2>1. PICK i \in 1..Len(t) : \E j \in 1..Len(t[i]) : x = <<i - 1, t[i][j]>>
      BY <1>1, EntriesMembers
    <2>2. PICK j \in 1..Len(t[i]) : x = <<i - 1, t[i][j]>>
      BY <2>1
    <2>3. i <= num + 1
      BY <1>1, <1>9 DEF AddRoute
    <2>4. j \in 1..Len(u[i]) /\ u[i][j] = t[i][j]
      <3>1. CASE i = num + 1
        <4>1. row = t[i] /\ u[i] = Append(row, route)
          BY <1>4, <3>1
        <4> QED BY <1>3, <4>1
      <3>2. CASE i # num + 1
        BY <1>4, <2>3, <3>2, SMTT(60)
      <3> QED BY <3>1, <3>2
    <2>5. x \in Nat \X Routes /\ i \in 1..Len(u)
      BY <1>1, <1>4, <2>3, EntriesMembers
    <2> QED BY <1>4, <2>2, <2>4, <2>5, EntriesMembers
  <1> HIDE DEF t, u, e
  <1>10. Entries(u) \subseteq ToSet(added')
    BY <1>6, <1>7 DEF TableInv, t
  <1>11. ~AnyRouteOrder => ToSet(added') \subseteq Entries(u)
    BY <1>6, <1>8, <1>9 DEF TableInv, t
  <1> QED BY <1>4, <1>6, <1>10, <1>11 DEF TableInv, u

------------------------------------------------------------------------------
(* The interfaces and the datagrams they hold. *)

Datagram == [id : Nat, dst : IP, ttl : Nat, ttl_in : Nat, cksum : Nat]

MyEth == {InterfaceEth[i] : i \in 1..Len(InterfaceIP)}

Entry == [mapping : MappingNode \union {NoNode, Dangling},
          request : RequestNode \union {NoNode, Dangling}, pending : Seq(Datagram)]

DatagramFrame == [dst : Eth, src : MyEth, type : {"IPv4"}, payload : Datagram]

ARPFrame == [dst : {ETHERNET_BROADCAST}, src : MyEth, type : {"ARP"},
             payload : [opcode : {"request"}, sender_eth : MyEth, sender_ip : IP,
                        target_eth : {NoEth}, target_ip : IP]]

Frame == DatagramFrame \union ARPFrame

Interface ==
    [ethernet_address : MyEth, ipv4 : IP, frames : Seq(Frame), mappings : Seq(MappingNode),
     requests : Seq(RequestNode), arp_table : [IP -> Entry], timestamp : Nat]

\* No pointer of the interface leads into a freed queue.
Owned(n) == \A ip \in IP : n.arp_table[ip].mapping # Dangling /\ n.arp_table[ip].request # Dangling

\* The datagrams in frames, and those that wait for an answer.
InFrames(frames) == {frames[i].payload : i \in {j \in DOMAIN frames : frames[j].type = "IPv4"}}

Pending(table) == UNION {ToSet(table[ip].pending) : ip \in IP}

\* Both together are what an interface is to send.
LEMMA OutgoingParts ==
    ASSUME NEW n
    PROVE  Outgoing(n) = InFrames(n.frames) \union Pending(n.arp_table)
  BY DEF Outgoing, InFrames, Pending

\* The members of an interface.
LEMMA InterfaceMembers ==
    ASSUME NEW n \in Interface
    PROVE  /\ n.ethernet_address \in MyEth /\ n.ipv4 \in IP /\ n.frames \in Seq(Frame)
           /\ n.mappings \in Seq(MappingNode) /\ n.requests \in Seq(RequestNode)
           /\ n.arp_table \in [IP -> Entry] /\ n.timestamp \in Nat
           /\ \A ip \in IP : /\ n.arp_table[ip] \in Entry
                             /\ n.arp_table[ip].mapping \in MappingNode \union {NoNode, Dangling}
                             /\ n.arp_table[ip].request \in RequestNode \union {NoNode, Dangling}
                             /\ n.arp_table[ip].pending \in Seq(Datagram)
  <1>1. /\ n.ethernet_address \in MyEth /\ n.ipv4 \in IP /\ n.frames \in Seq(Frame)
        /\ n.mappings \in Seq(MappingNode) /\ n.requests \in Seq(RequestNode)
        /\ n.arp_table \in [IP -> Entry] /\ n.timestamp \in Nat
    BY DEF Interface
  <1>2. \A e \in Entry : /\ e.mapping \in MappingNode \union {NoNode, Dangling}
                         /\ e.request \in RequestNode \union {NoNode, Dangling}
                         /\ e.pending \in Seq(Datagram)
    BY DEF Entry
  <1>3. \A ip \in IP : n.arp_table[ip] \in Entry
    BY <1>1
  <1> QED BY <1>1, <1>2, <1>3

\* One more frame.
LEMMA FrameAppended ==
    ASSUME NEW q \in Seq(Frame), NEW f \in Frame
    PROVE  /\ Append(q, f) \in Seq(Frame)
           /\ InFrames(Append(q, f)) \subseteq InFrames(q) \union {f.payload}
           /\ f.type = "ARP" => InFrames(Append(q, f)) \subseteq InFrames(q)
  <1> DEFINE r == Append(q, f)
  <1>1. r \in Seq(Frame) /\ DOMAIN r = 1..Len(q) + 1 /\ DOMAIN q = 1..Len(q) /\ Len(q) \in Nat
    OBVIOUS
  <1>2. r[Len(q) + 1] = f /\ \A i \in 1..Len(q) : r[i] = q[i]
    OBVIOUS
  <1> HIDE DEF r
  <1>3. ASSUME NEW x \in InFrames(r)
        PROVE  x \in InFrames(q) \/ (x = f.payload /\ f.type = "IPv4")
    <2>1. PICK i \in DOMAIN r : r[i].type = "IPv4" /\ r[i].payload = x
      BY <1>3 DEF InFrames
    <2>2. CASE i = Len(q) + 1
      BY <1>2, <2>1, <2>2
    <2>3. CASE i # Len(q) + 1
      <3>1. i \in DOMAIN q /\ r[i] = q[i]
        BY <1>1, <1>2, <2>3
      <3> QED BY <2>1, <3>1 DEF InFrames
    <2> QED BY <2>2, <2>3
  <1> QED BY <1>1, <1>3 DEF r

\* Frames put behind others.
LEMMA FramesJoined ==
    ASSUME NEW q \in Seq(Frame), NEW r \in Seq(Frame)
    PROVE  q \o r \in Seq(Frame) /\ InFrames(q \o r) \subseteq InFrames(q) \union InFrames(r)
  <1> DEFINE c == q \o r
  <1>1. /\ c \in Seq(Frame) /\ DOMAIN c = 1..Len(q) + Len(r)
        /\ DOMAIN q = 1..Len(q) /\ DOMAIN r = 1..Len(r) /\ Len(q) \in Nat /\ Len(r) \in Nat
    OBVIOUS
  <1>2. \A i \in 1..Len(q) + Len(r) : c[i] = IF i <= Len(q) THEN q[i] ELSE r[i - Len(q)]
    OBVIOUS
  <1> HIDE DEF c
  <1>3. ASSUME NEW x \in InFrames(c) PROVE x \in InFrames(q) \union InFrames(r)
    <2>1. PICK i \in DOMAIN c : c[i].type = "IPv4" /\ c[i].payload = x
      BY <1>3 DEF InFrames
    <2>2. CASE i <= Len(q)
      <3>1. i \in DOMAIN q /\ c[i] = q[i]
        BY <1>1, <1>2, <2>2
      <3> QED BY <2>1, <3>1 DEF InFrames
    <2>3. CASE ~(i <= Len(q))
      <3>1. i - Len(q) \in DOMAIN r /\ c[i] = r[i - Len(q)]
        BY <1>1, <1>2, <2>3
      <3> QED BY <2>1, <3>1 DEF InFrames
    <2> QED BY <2>2, <2>3
  <1> QED BY <1>1, <1>3 DEF c

\* A table in which the same datagrams wait.
LEMMA PendingSame ==
    ASSUME NEW t, NEW u, \A ip \in IP : u[ip].pending = t[ip].pending
    PROVE  Pending(u) = Pending(t)
  BY DEF Pending

\* What an interface has become without a datagram that is not in new.
Becomes(n, m, new) ==
    /\ m \in Interface /\ m.ipv4 = n.ipv4
    /\ Outgoing(m) \subseteq Outgoing(n) \union new

\* A datagram is framed, or waits behind the others for its next hop, or is
\* dropped; nothing else is sent in its place.
LEMMA SendEffect ==
    ASSUME NEW n \in Interface, Owned(n), NEW d \in Datagram, NEW hop \in IP
    PROVE  Becomes(n, send_datagram(n, d, hop), {d}) /\ Owned(send_datagram(n, d, hop))
  <1> DEFINE m == send_datagram(n, d, hop)
             entry == n.arp_table[hop]
  <1>1. entry \in Entry /\ entry.pending \in Seq(Datagram)
    BY InterfaceMembers
  <1>2. CASE entry.mapping # NoNode
    <2>1. entry.mapping \in MappingNode /\ entry.mapping.eth_addr \in Eth
      <3>1. entry.mapping \in MappingNode
        BY <1>2, InterfaceMembers DEF Owned
      <3> QED BY <3>1 DEF MappingNode
    <2> DEFINE f == IPv4Frame(n, entry.mapping.eth_addr, d)
    <2>2. f \in Frame /\ f.payload = d
      BY <2>1, InterfaceMembers DEF IPv4Frame, Frame, DatagramFrame
    <2>3. m = [n EXCEPT !.frames = Append(@, f)]
      BY <1>2 DEF send_datagram
    <2>4. n.frames \in Seq(Frame)
      BY InterfaceMembers
    <2> DEFINE q == Append(n.frames, f)
    <2> HIDE DEF f
    <2>5. q \in Seq(Frame) /\ InFrames(q) \subseteq InFrames(n.frames) \union {d}
      BY <2>2, <2>4, FrameAppended
    <2> HIDE DEF q
    <2>6. m = [n EXCEPT !.frames = q]
      BY <2>3 DEF q
    <2>7. m \in Interface /\ m.frames = q /\ m.arp_table = n.arp_table /\ m.ipv4 = n.ipv4
      BY <2>5, <2>6 DEF Interface
    <2> HIDE DEF m
    <2>8. Outgoing(m) \subseteq Outgoing(n) \union {d}
      BY <2>5, <2>7, OutgoingParts
    <2>9. Owned(m)
      BY <2>7 DEF Owned
    <2> QED BY <2>7, <2>8, <2>9 DEF Becomes, m
  <1>3. CASE entry.mapping = NoNode /\ MayAsk(entry)
    <2> DEFINE node == [ipv4 |-> hop, timestamp |-> n.timestamp]
               f == RequestFrame(n, hop)
               q == Append(n.frames, f)
               more == [entry EXCEPT !.request = node, !.pending = Append(@, d)]
               t == [n.arp_table EXCEPT ![hop] = more]
    <2>1. f \in Frame /\ f.type = "ARP"
      BY InterfaceMembers DEF RequestFrame, Frame, ARPFrame
    <2>2. node \in RequestNode /\ node # Dangling
      BY InterfaceMembers, NullAssumption DEF RequestNode
    <2>3. more \in Entry /\ more.pending = Append(entry.pending, d)
          /\ more.request = node /\ more.mapping = entry.mapping
      <3>1. Append(entry.pending, d) \in Seq(Datagram)
        BY <1>1
      <3> HIDE DEF node
      <3> QED BY <1>1, <2>2, <3>1 DEF Entry
    <2>4. m = [n EXCEPT !.frames = q, !.requests = Append(n.requests, node), !.arp_table = t]
      <3>1. m = Ask(n, d, hop)
        BY <1>3 DEF send_datagram
      <3>2. /\ n.frames \in Seq(Frame) /\ n.requests \in Seq(RequestNode) /\ n.arp_table \in [IP -> Entry]
        BY InterfaceMembers
      <3>3. Ask(n, d, hop) = [n EXCEPT !.frames = Append(n.frames, RequestFrame(n, hop)),
                                       !.requests = Append(n.requests, node),
                                       !.arp_table = [n.arp_table EXCEPT ![hop] =
                                           [n.arp_table[hop] EXCEPT
                                               !.request = node,
                                               !.pending = Append(entry.pending, d)]]]
        BY <3>2, ZenonT(60) DEF Ask, Interface
      <3> QED BY <3>1, <3>3
    <2>5. q \in Seq(Frame) /\ InFrames(q) \subseteq InFrames(n.frames)
      <3> HIDE DEF f
      <3> QED BY <2>1, FrameAppended, InterfaceMembers
    <2>6. Append(n.requests, node) \in Seq(RequestNode)
      <3> HIDE DEF node
      <3> QED BY <2>2, InterfaceMembers
    <2> HIDE DEF node, f, q, more
    <2>7. t \in [IP -> Entry] /\ \A ip \in IP : t[ip] = IF ip = hop THEN more ELSE n.arp_table[ip]
      BY <2>3, InterfaceMembers
    <2>8. Pending(t) \subseteq Pending(n.arp_table) \union {d}
      <3> SUFFICES ASSUME NEW ip \in IP, NEW x \in ToSet(t[ip].pending)
                   PROVE  x \in ToSet(n.arp_table[ip].pending) \union {d}
        BY DEF Pending
      <3>1. CASE ip # hop
        BY <2>7, <3>1
      <3>2. CASE ip = hop
        <4>1. x \in ToSet(Append(entry.pending, d))
          BY <2>3, <2>7, <3>2
        <4> QED BY <1>1, <3>2, <4>1 DEF ToSet
      <3> QED BY <3>1, <3>2
    <2> HIDE DEF t, m
    <2>9. m \in Interface /\ m.frames = q /\ m.arp_table = t /\ m.ipv4 = n.ipv4
      BY <2>4, <2>5, <2>6, <2>7 DEF Interface
    <2>10. Owned(m)
      BY <2>2, <2>3, <2>7, <2>9 DEF Owned
    <2>11. Outgoing(m) \subseteq Outgoing(n) \union {d}
      BY <2>5, <2>8, <2>9, OutgoingParts
    <2> QED BY <2>9, <2>10, <2>11 DEF Becomes, m
  <1>4. CASE entry.mapping = NoNode /\ ~MayAsk(entry)
    <2>1. m = n
      BY <1>4 DEF send_datagram
    <2> QED BY <2>1 DEF Becomes
  <1> QED BY <1>2, <1>3, <1>4

\* An answer moves what waited for it into frames.
LEMMA LearnEffect ==
    ASSUME NEW n \in Interface, NEW ip \in IP, NEW eth \in Eth
    PROVE  Becomes(n, Learn(n, ip, eth), {})
  <1> DEFINE m == Learn(n, ip, eth)
             pending == n.arp_table[ip].pending
             node == [ipv4 |-> ip, eth_addr |-> eth, timestamp |-> n.timestamp]
             sent == [i \in 1..Len(pending) |-> IPv4Frame(n, eth, pending[i])]
             q == n.frames \o sent
             left == [n.arp_table[ip] EXCEPT !.mapping = node, !.pending = <<>>]
             t == [n.arp_table EXCEPT ![ip] = left]
             nodes == Append(n.mappings, node)
  <1>1. pending \in Seq(Datagram) /\ Len(pending) \in Nat /\ \A i \in 1..Len(pending) : pending[i] \in Datagram
    <2>1. pending \in Seq(Datagram)
      BY InterfaceMembers
    <2> HIDE DEF pending
    <2> QED BY <2>1
  <1>2. \A d \in Datagram : IPv4Frame(n, eth, d) \in Frame /\ IPv4Frame(n, eth, d).payload = d
    BY InterfaceMembers DEF IPv4Frame, Frame, DatagramFrame
  <1>3. sent \in Seq(Frame) /\ InFrames(sent) \subseteq ToSet(pending)
    <2> HIDE DEF pending
    <2>1. sent \in Seq(Frame) /\ DOMAIN sent = 1..Len(pending)
          /\ \A i \in 1..Len(pending) : sent[i].payload = pending[i]
      BY <1>1, <1>2
    <2>2. DOMAIN pending = 1..Len(pending)
      BY <1>1
    <2> HIDE DEF sent
    <2> QED BY <2>1, <2>2 DEF InFrames, ToSet
  <1>4. node \in MappingNode
    BY InterfaceMembers DEF MappingNode
  <1>5. left \in Entry /\ left.pending = <<>>
    <2> DEFINE e == n.arp_table[ip]
    <2>1. e \in Entry
      BY InterfaceMembers
    <2> HIDE DEF node, e
    <2>2. \A p \in Seq(Datagram) :
             /\ [e EXCEPT !.mapping = node, !.pending = p] \in Entry
             /\ [e EXCEPT !.mapping = node, !.pending = p].pending = p
      BY <1>4, <2>1 DEF Entry
    <2> DEFINE none == <<>>
    <2>3. none \in Seq(Datagram)
      OBVIOUS
    <2> HIDE DEF none
    <2>4. /\ [e EXCEPT !.mapping = node, !.pending = none] \in Entry
          /\ [e EXCEPT !.mapping = node, !.pending = none].pending = none
      BY <2>2, <2>3
    <2> QED BY <2>4 DEF e, none
  <1>6. m = [n EXCEPT !.frames = q, !.mappings = nodes, !.arp_table = t]
    <2>1. /\ n.frames \in Seq(Frame) /\ n.mappings \in Seq(MappingNode)
          /\ n.arp_table \in [IP -> Entry] /\ n.arp_table[ip] \in Entry
      BY InterfaceMembers
    <2> QED BY <2>1, ZenonT(60) DEF Learn, Interface, Entry
  <1>7. q \in Seq(Frame) /\ InFrames(q) \subseteq InFrames(n.frames) \union InFrames(sent)
    <2> HIDE DEF sent
    <2> QED BY <1>3, FramesJoined, InterfaceMembers
  <1>8. nodes \in Seq(MappingNode)
    <2> HIDE DEF node
    <2> QED BY <1>4, InterfaceMembers
  <1> HIDE DEF node, sent, q, left, nodes
  <1>9. t \in [IP -> Entry] /\ \A a \in IP : t[a] = IF a = ip THEN left ELSE n.arp_table[a]
    BY <1>5, InterfaceMembers
  <1>10. Pending(t) \subseteq Pending(n.arp_table)
    <2> SUFFICES ASSUME NEW a \in IP, NEW x \in ToSet(t[a].pending)
                 PROVE  x \in ToSet(n.arp_table[a].pending)
      BY DEF Pending
    <2>1. ToSet(<<>>) = {}
      BY DEF ToSet
    <2> QED BY <1>5, <1>9, <2>1
  <1>11. ToSet(pending) \subseteq Pending(n.arp_table)
    BY DEF Pending
  <1> HIDE DEF t, m, pending
  <1>12. m \in Interface /\ m.frames = q /\ m.arp_table = t /\ m.ipv4 = n.ipv4
    BY <1>6, <1>7, <1>8, <1>9 DEF Interface
  <1>13. Outgoing(m) \subseteq Outgoing(n)
    BY <1>3, <1>7, <1>10, <1>11, <1>12, OutgoingParts
  <1> QED BY <1>12, <1>13 DEF Becomes, m

\* What a queue holds behind some of its front is a queue again.
LEMMA ExpiredRest ==
    ASSUME NEW Q, NEW queue \in Seq(Q), NEW now, NEW wait
    PROVE  SubSeq(queue, ExpiredCount(queue, now, wait) + 1, Len(queue)) \in Seq(Q)
  <1> DEFINE Stops == {k \in 0..Len(queue) :
                         k < Len(queue) => ~Expired(queue[k + 1], now, wait)}
             Taken(k) == /\ \A i \in 1..k : Expired(queue[i], now, wait)
                         /\ k < Len(queue) => ~Expired(queue[k + 1], now, wait)
  <1>1. Len(queue) \in Stops /\ Stops \in SUBSET Nat
    OBVIOUS
  <1>2. PICK k \in Stops : \A other \in Stops : k <= other
    <2> HIDE DEF Stops
    <2> QED BY <1>1, LeastNatural
  <1>3. \A i \in 1..k : Expired(queue[i], now, wait)
    <2> SUFFICES ASSUME NEW i \in 1..k, ~Expired(queue[i], now, wait) PROVE FALSE
      OBVIOUS
    <2>1. i - 1 \in Stops /\ k \in Nat
      BY <1>2
    <2>2. k <= i - 1
      BY <1>2, <2>1
    <2> QED BY <2>1, <2>2
  <1>4. \E j \in 0..Len(queue) : Taken(j)
    BY <1>2, <1>3
  <1>5. ExpiredCount(queue, now, wait) \in 0..Len(queue)
    <2>1. ExpiredCount(queue, now, wait) = CHOOSE j \in 0..Len(queue) : Taken(j)
      BY DEF ExpiredCount
    <2> HIDE DEF Taken
    <2> QED BY <1>4, <2>1
  <1> QED BY <1>5

\* Time takes nodes and pointers away, and no datagram.
LEMMA TickEffect ==
    ASSUME NEW n \in Interface
    PROVE  Becomes(n, tick(n, 1), {})
  <1> DEFINE m == tick(n, 1)
             now == n.timestamp + 1
             k == ExpiredCount(n.mappings, now, ArpTableEntryTimeoutMs)
             l == ExpiredCount(n.requests, now, ArpRequestWaitingMs)
             unmapped == Addresses(n.mappings, k)
             unasked == Addresses(n.requests, l)
             t == [ip \in IP |-> Forget(n.arp_table[ip], ip, unmapped, unasked)]
             mappings == SubSeq(n.mappings, k + 1, Len(n.mappings))
             requests == SubSeq(n.requests, l + 1, Len(n.requests))
  <1>1. mappings \in Seq(MappingNode) /\ requests \in Seq(RequestNode)
    BY ExpiredRest, InterfaceMembers
  <1>2. now \in Nat
    BY InterfaceMembers
  <1>3. m = [n EXCEPT !.timestamp = now, !.mappings = mappings, !.requests = requests, !.arp_table = t]
    BY DEF tick, Interface
  <1> HIDE DEF mappings, requests, unmapped, unasked, now
  <1>4. ASSUME NEW ip \in IP PROVE t[ip] \in Entry /\ t[ip].pending = n.arp_table[ip].pending
    <2> DEFINE e == n.arp_table[ip]
    <2>1. e \in Entry
      BY InterfaceMembers
    <2> HIDE DEF e
    <2>2. Forget(e, ip, unmapped, unasked) \in Entry
          /\ Forget(e, ip, unmapped, unasked).pending = e.pending
      BY <2>1 DEF Forget, Entry
    <2> QED BY <2>2 DEF e
  <1>5. t \in [IP -> Entry]
    BY <1>4
  <1>6. Pending(t) = Pending(n.arp_table)
    <2> HIDE DEF t
    <2> QED BY <1>4, PendingSame
  <1> HIDE DEF t, m
  <1>7. m \in Interface /\ m.frames = n.frames /\ m.arp_table = t /\ m.ipv4 = n.ipv4
    BY <1>1, <1>2, <1>3, <1>5 DEF Interface
  <1> QED BY <1>6, <1>7, OutgoingParts DEF Becomes, m

\* A frame is taken for transmission.
LEMMA MaybeSendEffect ==
    ASSUME NEW n \in Interface, n.frames # <<>>
    PROVE  Becomes(n, maybe_send(n), {})
  <1> DEFINE m == maybe_send(n)
             q == n.frames
             r == Tail(q)
  <1>1. q \in Seq(Frame)
    BY InterfaceMembers
  <1>2. r \in Seq(Frame) /\ DOMAIN r = 1..Len(q) - 1 /\ DOMAIN q = 1..Len(q) /\ Len(q) \in Nat
        /\ \A i \in 1..Len(q) - 1 : r[i] = q[i + 1]
    <2> HIDE DEF q
    <2> QED BY <1>1 DEF q
  <1>3. m = [n EXCEPT !.frames = r]
    BY DEF maybe_send, Interface
  <1> HIDE DEF q, r, m
  <1>4. InFrames(r) \subseteq InFrames(q)
    <2> SUFFICES ASSUME NEW x \in InFrames(r) PROVE x \in InFrames(q)
      OBVIOUS
    <2>1. PICK i \in DOMAIN r : r[i].type = "IPv4" /\ r[i].payload = x
      BY DEF InFrames
    <2>2. i + 1 \in DOMAIN q /\ q[i + 1] = r[i]
      BY <1>2
    <2> QED BY <2>1, <2>2 DEF InFrames
  <1>5. m \in Interface /\ m.frames = r /\ m.arp_table = n.arp_table /\ m.ipv4 = n.ipv4
    BY <1>2, <1>3 DEF Interface
  <1>6. Outgoing(m) \subseteq Outgoing(n)
    BY <1>4, <1>5, OutgoingParts DEF q
  <1> QED BY <1>5, <1>6 DEF Becomes, m

\* The copy of an interface holds the same datagrams.
LEMMA CopiedEffect ==
    ASSUME NEW n \in Interface
    PROVE  Becomes(n, Copied(n), {})
  <1> DEFINE m == Copied(n)
             t == [ip \in IP |-> CopiedEntry(n.arp_table[ip])]
  <1>1. m = [n EXCEPT !.arp_table = t]
    BY DEF Copied
  <1>2. ASSUME NEW ip \in IP PROVE t[ip] \in Entry /\ t[ip].pending = n.arp_table[ip].pending
    <2> DEFINE e == n.arp_table[ip]
    <2>1. e \in Entry
      BY InterfaceMembers
    <2> HIDE DEF e
    <2>2. CopiedEntry(e) \in Entry /\ CopiedEntry(e).pending = e.pending
      BY <2>1 DEF Entry, CopiedEntry
    <2> QED BY <2>2 DEF e
  <1>3. t \in [IP -> Entry]
    BY <1>2
  <1>4. Pending(t) = Pending(n.arp_table)
    <2> HIDE DEF t
    <2> QED BY <1>2, PendingSame
  <1> HIDE DEF t, m
  <1>5. m \in Interface /\ m.frames = n.frames /\ m.arp_table = t /\ m.ipv4 = n.ipv4
    BY <1>1, <1>3 DEF Interface
  <1> QED BY <1>4, <1>5, OutgoingParts DEF Becomes, m

\* A new interface holds no datagram.
LEMMA NewEffect ==
    ASSUME NEW i \in 1..Len(InterfaceIP)
    PROVE  LET m == NewInterface(InterfaceEth[i], InterfaceIP[i])
           IN  m \in Interface /\ m.ipv4 = InterfaceIP[i] /\ Outgoing(m) = {}
  <1> DEFINE m == NewInterface(InterfaceEth[i], InterfaceIP[i])
  <1>1. InterfaceEth[i] \in MyEth /\ InterfaceIP[i] \in IP
    BY NetworksAssumption DEF MyEth
  <1>2. EmptyEntry \in Entry /\ EmptyEntry.pending = <<>>
    BY DEF EmptyEntry, Entry
  <1>3. m \in Interface /\ m.ipv4 = InterfaceIP[i] /\ m.frames = <<>>
        /\ m.arp_table = [ip \in IP |-> EmptyEntry]
    BY <1>1, <1>2 DEF NewInterface, Interface
  <1>4. InFrames(m.frames) = {}
    BY <1>3 DEF InFrames
  <1>5. Pending(m.arp_table) = {}
    BY <1>2, <1>3 DEF Pending, ToSet
  <1> QED BY <1>3, <1>4, <1>5, OutgoingParts

------------------------------------------------------------------------------
(* Where the datagrams are.  ifs are interfaces, ins their queues of       *)
(* received datagrams, last is the last identity given, calls the routes   *)
(* that have been added.                                                   *)

\* What was received has its own identity, and its ttl is untouched.
InputFresh(ins, last) ==
    \A a \in 1..Len(ins) : \A i \in 1..Len(ins[a]) :
        ins[a][i].id \in 1..last /\ ins[a][i].ttl = ins[a][i].ttl_in

\* No datagram is received twice.
InputOnce(ins) ==
    \A a, b \in 1..Len(ins) : \A i \in 1..Len(ins[a]), j \in 1..Len(ins[b]) :
        ins[a][i].id = ins[b][j].id => a = b /\ i = j

\* d may leave on interface b.
Right(d, b, last, calls) ==
    /\ d.id \in 1..last /\ d.ttl = d.ttl_in - 1 /\ d.ttl > 0
    /\ \E x \in calls : x[1] = b - 1 /\ ipPrefixMatched(d.dst, x[2].prefix, x[2].length)

OutputRight(ifs, last, calls) ==
    \A b \in 1..Len(ifs) : \A d \in Outgoing(ifs[b]) : Right(d, b, last, calls)

OutputOnce(ifs) ==
    \A b, c \in 1..Len(ifs) : \A d \in Outgoing(ifs[b]), e \in Outgoing(ifs[c]) :
        d.id = e.id => b = c /\ d = e

\* No datagram is both received and forwarded.
Apart(ifs, ins) ==
    \A a \in 1..Len(ins), b \in 1..Len(ifs) : \A i \in 1..Len(ins[a]), e \in Outgoing(ifs[b]) :
        ins[a][i].id # e.id

Tracked(ifs, ins, last, calls) ==
    /\ ifs \in Seq(Interface) /\ ins \in Seq(Seq(Datagram)) /\ Len(ins) = Len(ifs)
    /\ InputFresh(ins, last) /\ InputOnce(ins)
    /\ OutputRight(ifs, last, calls) /\ OutputOnce(ifs) /\ Apart(ifs, ins)

\* If the interfaces hold no more than before, and more calls are known, all of
\* this stays true.
LEMMA TrackedShrinks ==
    ASSUME NEW ifs, NEW ins, NEW last \in Nat, NEW calls, Tracked(ifs, ins, last, calls),
           NEW u \in Seq(Interface), Len(u) = Len(ifs),
           \A b \in 1..Len(ifs) : Outgoing(u[b]) \subseteq Outgoing(ifs[b]),
           NEW more, calls \subseteq more
    PROVE  Tracked(u, ins, last, more)
  <1>1. OutputRight(u, last, more)
    BY DEF Tracked, OutputRight, Right
  <1>2. OutputOnce(u)
    <2>1. OutputOnce(ifs)
      BY DEF Tracked
    <2> QED BY <2>1 DEF OutputOnce
  <1>3. Apart(u, ins)
    BY DEF Tracked, Apart
  <1> QED BY <1>1, <1>2, <1>3 DEF Tracked

\* Nothing has the identity id.
Alone(ifs, ins, id) ==
    /\ \A b \in 1..Len(ifs) : \A e \in Outgoing(ifs[b]) : e.id # id
    /\ \A a \in 1..Len(ins) : \A i \in 1..Len(ins[a]) : ins[a][i].id # id

\* One more datagram on interface m, with an identity that nothing else has.
LEMMA TrackedGrows ==
    ASSUME NEW ifs, NEW ins, NEW last \in Nat, NEW calls, Tracked(ifs, ins, last, calls),
           NEW u \in Seq(Interface), Len(u) = Len(ifs), NEW m \in 1..Len(ifs), NEW d,
           Right(d, m, last, calls),
           \A b \in 1..Len(ifs) : b # m => u[b] = ifs[b],
           Outgoing(u[m]) \subseteq Outgoing(ifs[m]) \union {d}, Alone(ifs, ins, d.id)
    PROVE  Tracked(u, ins, last, calls)
  <1>1. \A b \in 1..Len(u) : \A e \in Outgoing(u[b]) :
            (b = m /\ e = d) \/ e \in Outgoing(ifs[b])
    OBVIOUS
  <1>2. OutputRight(u, last, calls)
    BY <1>1 DEF Tracked, OutputRight
  <1>3. OutputOnce(u)
    <2> SUFFICES ASSUME NEW b \in 1..Len(u), NEW c \in 1..Len(u),
                        NEW e \in Outgoing(u[b]), NEW f \in Outgoing(u[c]), e.id = f.id
                 PROVE  b = c /\ e = f
      BY DEF OutputOnce
    <2>1. CASE e \in Outgoing(ifs[b]) /\ f \in Outgoing(ifs[c])
      BY <2>1 DEF Tracked, OutputOnce
    <2>2. CASE e \in Outgoing(ifs[b]) /\ c = m /\ f = d
      BY <2>2 DEF Alone
    <2>3. CASE b = m /\ e = d /\ f \in Outgoing(ifs[c])
      BY <2>3 DEF Alone
    <2>4. CASE b = m /\ e = d /\ c = m /\ f = d
      BY <2>4
    <2> QED BY <1>1, <2>1, <2>2, <2>3, <2>4
  <1>4. Apart(u, ins)
    <2>1. Apart(ifs, ins)
      BY DEF Tracked
    <2> SUFFICES ASSUME NEW a \in 1..Len(ins), NEW b \in 1..Len(u),
                        NEW i \in 1..Len(ins[a]), NEW e \in Outgoing(u[b])
                 PROVE  ins[a][i].id # e.id
      BY DEF Apart
    <2>2. CASE e = d
      BY <2>2 DEF Alone
    <2>3. CASE e \in Outgoing(ifs[b])
      BY <2>1, <2>3 DEF Apart
    <2> QED BY <1>1, <2>2, <2>3
  <1> QED BY <1>2, <1>3, <1>4 DEF Tracked

\* Two places with one identity are one place.
LEMMA OnePlace ==
    ASSUME NEW ins, InputOnce(ins), NEW a \in 1..Len(ins), NEW b \in 1..Len(ins),
           NEW i \in 1..Len(ins[a]), NEW j \in 1..Len(ins[b]), ins[a][i].id = ins[b][j].id
    PROVE  a = b /\ i = j
  BY DEF InputOnce

\* No place on an interface has the identity of a place in a queue.
LEMMA ApartAt ==
    ASSUME NEW ifs, NEW ins, Apart(ifs, ins), NEW a \in 1..Len(ins), NEW b \in 1..Len(ifs),
           NEW i \in 1..Len(ins[a]), NEW e \in Outgoing(ifs[b])
    PROVE  ins[a][i].id # e.id
  BY DEF Apart

\* Everything in a queue has an identity that was given.
LEMMA FreshAt ==
    ASSUME NEW ins, NEW last, InputFresh(ins, last), NEW a \in 1..Len(ins), NEW i \in 1..Len(ins[a])
    PROVE  ins[a][i].id \in 1..last /\ ins[a][i].ttl = ins[a][i].ttl_in
  BY DEF InputFresh

\* The queues when the first of queue i is gone.
Rest(ins, i) == [ins EXCEPT ![i] = Tail(@)]

\* maybe_receive takes the first of a queue; nothing else has its identity.
LEMMA TrackedTaken ==
    ASSUME NEW ifs, NEW ins, NEW last \in Nat, NEW calls, Tracked(ifs, ins, last, calls),
           NEW i \in 1..Len(ins), ins[i] # <<>>
    PROVE  /\ Head(ins[i]) \in Datagram /\ Head(ins[i]).id \in 1..last
           /\ Head(ins[i]).ttl = Head(ins[i]).ttl_in
           /\ Tracked(ifs, Rest(ins, i), last, calls)
           /\ Alone(ifs, Rest(ins, i), Head(ins[i]).id)
  <1> DEFINE q == ins[i]
             d == Head(q)
             left == [ins EXCEPT ![i] = Tail(q)]
  <1>1. /\ ins \in Seq(Seq(Datagram)) /\ Len(ins) \in Nat /\ Len(ins) = Len(ifs)
        /\ \A a \in 1..Len(ins) : ins[a] \in Seq(Datagram)
    BY DEF Tracked
  <1>2. /\ q \in Seq(Datagram) /\ q # <<>>
        /\ 1 \in 1..Len(q) /\ d = q[1] /\ d \in Datagram
        /\ Tail(q) \in Seq(Datagram) /\ Len(Tail(q)) = Len(q) - 1 /\ Len(q) \in Nat
        /\ \A j \in 1..Len(q) - 1 : Tail(q)[j] = q[j + 1]
    <2>1. q \in Seq(Datagram)
      BY <1>1
    <2> HIDE DEF q
    <2> QED BY <2>1 DEF q
  <1> HIDE DEF q, d
  <1>3. /\ left \in Seq(Seq(Datagram)) /\ Len(left) = Len(ins)
        /\ \A a \in 1..Len(ins) : left[a] = IF a = i THEN Tail(q) ELSE ins[a]
    BY <1>1, <1>2
  <1> HIDE DEF left
  <1>4. d.id \in 1..last /\ d.ttl = d.ttl_in
    BY <1>2 DEF Tracked, InputFresh, q
  <1> DEFINE was(a, j) == IF a = i THEN j + 1 ELSE j
  <1>5. ASSUME NEW a \in 1..Len(left), NEW j \in 1..Len(left[a])
        PROVE  /\ a \in 1..Len(ins) /\ was(a, j) \in 1..Len(ins[a])
               /\ left[a][j] = ins[a][was(a, j)] /\ j \in Nat
               /\ a = i => was(a, j) # 1
    <2>1. CASE a = i
      <3>1. left[a] = Tail(q) /\ ins[a] = q
        BY <1>3, <2>1 DEF q
      <3> QED BY <1>2, <1>3, <2>1, <3>1
    <2>2. CASE a # i
      BY <1>1, <1>3, <2>2, SMTT(60)
    <2> QED BY <2>1, <2>2
  <1> HIDE DEF was
  <1>6. InputFresh(left, last)
    BY <1>5, ZenonT(60) DEF Tracked, InputFresh
  <1>7. InputOnce(left)
    <2> SUFFICES ASSUME NEW a \in 1..Len(left), NEW b \in 1..Len(left),
                        NEW j \in 1..Len(left[a]), NEW k \in 1..Len(left[b]),
                        left[a][j].id = left[b][k].id
                 PROVE  a = b /\ j = k
      BY DEF InputOnce
    <2>0. InputOnce(ins)
      BY DEF Tracked
    <2>1. a = b /\ was(a, j) = was(b, k)
      <3> DEFINE v == was(a, j)
                 w == was(b, k)
      <3>1. /\ a \in 1..Len(ins) /\ v \in 1..Len(ins[a]) /\ left[a][j] = ins[a][v]
            /\ b \in 1..Len(ins) /\ w \in 1..Len(ins[b]) /\ left[b][k] = ins[b][w]
        BY <1>5
      <3> HIDE DEF v, w
      <3>2. ins[a][v].id = ins[b][w].id
        BY <3>1
      <3>3. a = b /\ v = w
        BY <2>0, <3>1, <3>2, OnePlace, SMTT(60)
      <3> QED BY <3>3 DEF v, w
    <2> QED BY <1>5, <2>1 DEF was
  <1>8. Apart(ifs, left)
    <2>1. Apart(ifs, ins)
      BY DEF Tracked
    <2> SUFFICES ASSUME NEW a \in 1..Len(left), NEW b \in 1..Len(ifs),
                        NEW j \in 1..Len(left[a]), NEW e \in Outgoing(ifs[b])
                 PROVE  left[a][j].id # e.id
      BY DEF Apart
    <2> DEFINE v == was(a, j)
    <2>2. a \in 1..Len(ins) /\ v \in 1..Len(ins[a]) /\ left[a][j] = ins[a][v]
      BY <1>5
    <2> HIDE DEF v
    <2> QED BY <2>1, <2>2 DEF Apart
  <1>9. Tracked(ifs, left, last, calls)
    BY <1>1, <1>3, <1>6, <1>7, <1>8 DEF Tracked
  <1>10. \A b \in 1..Len(ifs) : \A e \in Outgoing(ifs[b]) : e.id # d.id
    BY <1>2 DEF Tracked, Apart, q
  <1>11. ASSUME NEW a \in 1..Len(left), NEW j \in 1..Len(left[a]) PROVE left[a][j].id # d.id
    <2>1. InputOnce(ins)
      BY DEF Tracked
    <2>2. ins[a][was(a, j)].id = ins[i][1].id => a = i /\ was(a, j) = 1
      BY <1>2, <1>5, <2>1, SMTT(60) DEF InputOnce, q
    <2> QED BY <1>2, <1>5, <2>2 DEF q
  <1> QED BY <1>2, <1>4, <1>9, <1>10, <1>11 DEF left, d, q, Rest, Alone

------------------------------------------------------------------------------
(* route *)

\* The interfaces as they are while no pointer dangles.
Intact(ifs) == \A b \in 1..Len(ifs) : Owned(ifs[b]) /\ ifs[b].ipv4 = InterfaceIP[b]

\* A datagram leaves on an interface that exists and has a route for it.
LEMMA ForwardEffect ==
    ASSUME NEW ifs, NEW ins, Tracked(ifs, ins, arrived, ToSet(added)), Intact(ifs),
           arrived \in Nat, TableInv, Len(router_table) <= Len(ifs), NEW d \in Datagram,
           d.id \in 1..arrived, d.ttl = d.ttl_in, ~TtlExpired(d),
           Lookup(router_table, d.dst) # NoMatch, Alone(ifs, ins, d.id)
    PROVE  LET u == Forward(ifs, d, Lookup(router_table, d.dst))
           IN  Tracked(u, ins, arrived, ToSet(added)) /\ Intact(u) /\ Len(u) = Len(ifs)
  <1> DEFINE match == Lookup(router_table, d.dst)
             hop == IF match.next_hop = NoHop THEN d.dst ELSE match.next_hop
             sent == [d EXCEPT !.ttl = @ - 1]
             m == match.interface + 1
             u == Forward(ifs, d, match)
  <1>1. router_table \in Seq(Seq(Routes)) /\ Len(router_table) \in Nat
        /\ Entries(router_table) \subseteq ToSet(added)
    BY DEF TableInv
  <1>2. match \in Match /\ Longest(match, Entries(router_table), d.dst)
    BY <1>1, LookupIsLongest
  <1> HIDE DEF match
  <1>3. PICK x \in Entries(router_table) :
            /\ ipPrefixMatched(d.dst, x[2].prefix, x[2].length)
            /\ x[1] = match.interface
    BY <1>2 DEF Longest, match
  <1>4. m \in 1..Len(ifs) /\ x[1] = m - 1
    <2>1. PICK i \in 1..Len(router_table) :
              \E j \in 1..Len(router_table[i]) : x = <<i - 1, router_table[i][j]>>
      <3> DEFINE t == router_table
      <3>1. t \in Seq(Seq(Routes)) /\ x \in Entries(t)
        BY <1>1
      <3> HIDE DEF t
      <3>2. \E i \in 1..Len(t) : \E j \in 1..Len(t[i]) : x = <<i - 1, t[i][j]>>
        BY <3>1, EntriesMembers, SMTT(60)
      <3> QED BY <3>2 DEF t
    <2>2. x[1] = i - 1
      BY <2>1
    <2>3. Len(ifs) \in Nat
      BY DEF Tracked
    <2> QED BY <1>1, <1>3, <2>2, <2>3
  <1>5. hop \in IP
    BY <1>2 DEF Match, Datagram
  <1>6. sent \in Datagram /\ sent.id = d.id /\ sent.dst = d.dst
        /\ sent.ttl = d.ttl - 1 /\ sent.ttl_in = d.ttl_in /\ sent.ttl > 0
    BY DEF Datagram, TtlExpired
  <1>7. /\ ifs \in Seq(Interface) /\ Len(ifs) \in Nat
        /\ \A b \in 1..Len(ifs) : ifs[b] \in Interface /\ Owned(ifs[b]) /\ ifs[b].ipv4 = InterfaceIP[b]
    BY DEF Tracked, Intact
  <1> DEFINE new == send_datagram(ifs[m], sent, hop)
  <1>8. u = [ifs EXCEPT ![m] = new]
    BY DEF Forward
  <1> HIDE DEF hop, sent, m, u
  <1>9. Becomes(ifs[m], new, {sent}) /\ Owned(new)
    BY <1>4, <1>5, <1>6, <1>7, SendEffect
  <1> HIDE DEF new
  <1>10. new \in Interface /\ new.ipv4 = ifs[m].ipv4
         /\ Outgoing(new) \subseteq Outgoing(ifs[m]) \union {sent}
    BY <1>9 DEF Becomes
  <1>11. /\ u \in Seq(Interface) /\ Len(u) = Len(ifs) /\ u[m] = new
         /\ \A b \in 1..Len(ifs) : b # m => u[b] = ifs[b]
    BY <1>4, <1>7, <1>8, <1>10
  <1>12. Right(sent, m, arrived, ToSet(added))
    BY <1>1, <1>3, <1>4, <1>6 DEF Right
  <1>13. Tracked(u, ins, arrived, ToSet(added))
    <2>1. Alone(ifs, ins, sent.id)
      BY <1>6
    <2>2. Outgoing(u[m]) \subseteq Outgoing(ifs[m]) \union {sent}
      BY <1>10, <1>11
    <2> QED BY <1>4, <1>11, <1>12, <2>1, <2>2, TrackedGrows
  <1>14. Intact(u)
    BY <1>4, <1>7, <1>9, <1>10, <1>11 DEF Intact
  <1> QED BY <1>11, <1>13, <1>14 DEF u, match

\* What the loop over the interfaces works on.
Places == [interfaces : Seq(Interface), datagrams_in : Seq(Seq(Datagram))]

Sound(s) ==
    /\ s \in Places /\ Len(s.interfaces) = Len(interfaces) /\ Intact(s.interfaces)
    /\ Tracked(s.interfaces, s.datagrams_in, arrived, ToSet(added))

\* One round: a datagram that is taken is forwarded once or dropped.
LEMMA RouteFromEffect ==
    ASSUME NEW s, Sound(s), NEW i \in 1..Len(interfaces),
           arrived \in Nat, TableInv, Len(router_table) <= Len(interfaces)
    PROVE  Sound(RouteFrom(s, i))
  <1> DEFINE ifs == s.interfaces
             ins == s.datagrams_in
             d == Head(ins[i])
             left == Rest(ins, i)
             match == Lookup(router_table, d.dst)
  <1>1. CASE ins[i] = <<>>
    BY <1>1 DEF RouteFrom
  <1>2. CASE ins[i] # <<>>
    <2>1. /\ Tracked(ifs, ins, arrived, ToSet(added)) /\ Intact(ifs)
          /\ Len(ifs) = Len(interfaces) /\ Len(ins) = Len(ifs) /\ i \in 1..Len(ins)
      BY DEF Sound, Tracked
    <2>2. /\ d \in Datagram /\ d.id \in 1..arrived /\ d.ttl = d.ttl_in
          /\ Tracked(ifs, left, arrived, ToSet(added)) /\ Alone(ifs, left, d.id)
      <3>1. arrived \in Nat /\ i \in 1..Len(ins) /\ Tracked(ifs, ins, arrived, ToSet(added))
        BY <2>1
      <3> HIDE DEF ifs, ins
      <3> QED BY <1>2, <3>1, TrackedTaken, SMTT(60)
    <2> DEFINE u == IF match = NoMatch \/ TtlExpired(d) THEN ifs ELSE Forward(ifs, d, match)
    <2>3. RouteFrom(s, i) = [datagrams_in |-> left, interfaces |-> u]
      BY <1>2 DEF RouteFrom, Rest
    <2>4. Tracked(u, left, arrived, ToSet(added)) /\ Intact(u) /\ Len(u) = Len(ifs)
      <3>1. CASE match = NoMatch \/ TtlExpired(d)
        BY <2>1, <2>2, <3>1
      <3>2. CASE match # NoMatch /\ ~TtlExpired(d)
        <4> DEFINE v == Forward(ifs, d, match)
        <4>1. Tracked(v, left, arrived, ToSet(added)) /\ Intact(v) /\ Len(v) = Len(ifs)
          <5> HIDE DEF ifs, left, d
          <5> QED BY <2>1, <2>2, <3>2, ForwardEffect
        <4>2. u = v
          BY <3>2
        <4> QED BY <4>1, <4>2
      <3> QED BY <3>1, <3>2
    <2> HIDE DEF left, u
    <2>5. [datagrams_in |-> left, interfaces |-> u] \in Places
      BY <2>2, <2>4 DEF Places, Tracked
    <2> QED BY <2>1, <2>3, <2>4, <2>5 DEF Sound
  <1> QED BY <1>1, <1>2

\* The loop over all interfaces.
LEMMA RoutedEffect ==
    ASSUME NEW s, Sound(s), arrived \in Nat, TableInv, Len(router_table) <= Len(interfaces),
           Len(interfaces) \in Nat
    PROVE  Sound(Routed(s))
  <1> DEFINE n == Len(s.interfaces)
             X == {x \in Places : Sound(x)}
             step == [x \in (1..n) \X X |-> RouteFrom(x[2], x[1])]
             Unfolds(f) == f = [i \in 0..n |-> IF i = 0 THEN s ELSE RouteFrom(f[i - 1], i)]
             after == CHOOSE f : Unfolds(f)
             Good == {i \in 0..n : Sound(after[i])}
  <1>1. n \in Nat /\ n = Len(interfaces) /\ s \in X
    BY DEF Sound
  <1>2. ASSUME NEW i \in 1..n, NEW x, Sound(x) PROVE Sound(RouteFrom(x, i))
    BY <1>1, <1>2, RouteFromEffect
  <1> HIDE DEF n
  <1>3. step \in [(1..n) \X X -> X]
    <2>1. \A x : x \in X <=> Sound(x)
      BY DEF Sound
    <2> HIDE DEF X
    <2> QED BY <1>2, <2>1
  <1>4. PICK at : Rounds(at, n, X, s, step)
    <2> HIDE DEF step, X
    <2> QED BY <1>1, <1>3, LoopRuns
  <1>5. Unfolds(at)
    <2>1. at \in [0..n -> X] /\ at[0] = s /\ \A k \in 1..n : at[k] = step[<<k, at[k - 1]>>]
      BY <1>4 DEF Rounds
    <2> HIDE DEF X
    <2>2. ASSUME NEW k \in 1..n PROVE at[k] = RouteFrom(at[k - 1], k)
      <3>1. k - 1 \in 0..n
        BY <1>1
      <3>2. at[k - 1] \in X
        BY <2>1, <3>1
      <3> QED BY <2>1, <3>2
    <2> HIDE DEF step
    <2> QED BY <1>1, <2>1, <2>2
  <1>6. Unfolds(after)
    <2> HIDE DEF Unfolds
    <2> QED BY <1>5
  <1>7. \A k \in 0..n : after[k] = IF k = 0 THEN s ELSE RouteFrom(after[k - 1], k)
    <2> HIDE DEF after
    <2> QED BY <1>6
  <1> HIDE DEF after, Unfolds
  <1>8. 0 \in Good
    <2>1. 0 \in 0..n
      BY <1>1
    <2> QED BY <1>7, <2>1
  <1>9. ASSUME NEW k \in 1..n, k - 1 \in Good PROVE k \in Good
    <2>1. k \in 0..n /\ k # 0 /\ Sound(after[k - 1])
      BY <1>1, <1>9
    <2>2. after[k] = RouteFrom(after[k - 1], k)
      BY <1>7, <2>1
    <2>3. Sound(RouteFrom(after[k - 1], k))
      BY <1>2, <2>1
    <2> QED BY <2>1, <2>2, <2>3
  <1>10. n \in Good
    <2> HIDE DEF Good
    <2>1. 0..n \subseteq Good
      BY <1>1, <1>8, <1>9, BoundedInduction
    <2> QED BY <1>1, <2>1
  <1>11. Routed(s) = after[n]
    BY DEF Routed, after, n, Unfolds
  <1> QED BY <1>10, <1>11

------------------------------------------------------------------------------
(* The other actions. *)

\* One more interface, which holds nothing.
LEMMA TrackedAdded ==
    ASSUME NEW ifs, NEW ins, NEW last \in Nat, NEW calls, Tracked(ifs, ins, last, calls),
           NEW u \in Seq(Interface), Len(u) = Len(ifs) + 1,
           \A b \in 1..Len(ifs) : Outgoing(u[b]) \subseteq Outgoing(ifs[b]),
           Outgoing(u[Len(ifs) + 1]) = {}
    PROVE  Tracked(u, Append(ins, <<>>), last, calls)
  <1> DEFINE more == Append(ins, <<>>)
  <1>1. /\ ins \in Seq(Seq(Datagram)) /\ Len(ins) = Len(ifs) /\ Len(ifs) \in Nat
        /\ InputFresh(ins, last) /\ InputOnce(ins)
        /\ OutputRight(ifs, last, calls) /\ OutputOnce(ifs) /\ Apart(ifs, ins)
    BY DEF Tracked
  <1>2. /\ more \in Seq(Seq(Datagram)) /\ Len(more) = Len(u)
        /\ \A a \in 1..Len(more) : more[a] = IF a = Len(u) THEN <<>> ELSE ins[a]
    BY <1>1
  <1>3. \A a \in 1..Len(more) : \A j \in 1..Len(more[a]) : a \in 1..Len(ins) /\ more[a] = ins[a]
    <2> HIDE DEF more
    <2>1. ASSUME NEW a \in 1..Len(more), NEW j \in 1..Len(more[a]) PROVE a # Len(u)
      <3> SUFFICES ASSUME a = Len(u) PROVE FALSE
        OBVIOUS
      <3>1. more[a] = <<>>
        BY <1>2
      <3> QED BY <3>1
    <2> QED BY <1>1, <1>2, <2>1
  <1>4. \A b \in 1..Len(u) : \A e \in Outgoing(u[b]) : b \in 1..Len(ifs) /\ e \in Outgoing(ifs[b])
    <2> SUFFICES ASSUME NEW b \in 1..Len(u), NEW e \in Outgoing(u[b])
                 PROVE  b \in 1..Len(ifs) /\ e \in Outgoing(ifs[b])
      OBVIOUS
    <2>1. b # Len(ifs) + 1
      OBVIOUS
    <2>2. b \in 1..Len(ifs)
      BY <1>1, <2>1
    <2> QED BY <2>2
  <1> HIDE DEF more
  <1>5. InputFresh(more, last)
    BY <1>1, <1>3, ZenonT(60) DEF InputFresh
  <1>6. InputOnce(more)
    <2> SUFFICES ASSUME NEW a \in 1..Len(more), NEW b \in 1..Len(more),
                        NEW j \in 1..Len(more[a]), NEW k \in 1..Len(more[b]),
                        more[a][j].id = more[b][k].id
                 PROVE  a = b /\ j = k
      BY DEF InputOnce
    <2>1. /\ a \in 1..Len(ins) /\ more[a] = ins[a] /\ b \in 1..Len(ins) /\ more[b] = ins[b]
      BY <1>3
    <2>2. j \in 1..Len(ins[a]) /\ k \in 1..Len(ins[b]) /\ ins[a][j].id = ins[b][k].id
      BY <2>1
    <2> QED BY <1>1, <2>1, <2>2, OnePlace, SMTT(60)
  <1>7. OutputRight(u, last, calls)
    BY <1>1, <1>4 DEF OutputRight
  <1>8. OutputOnce(u)
    BY <1>1, <1>4 DEF OutputOnce
  <1>9. Apart(u, more)
    <2> SUFFICES ASSUME NEW a \in 1..Len(more), NEW b \in 1..Len(u),
                        NEW j \in 1..Len(more[a]), NEW e \in Outgoing(u[b])
                 PROVE  more[a][j].id # e.id
      BY DEF Apart
    <2>1. a \in 1..Len(ins) /\ more[a] = ins[a] /\ b \in 1..Len(ifs) /\ e \in Outgoing(ifs[b])
      BY <1>3, <1>4
    <2>2. j \in 1..Len(ins[a])
      BY <2>1
    <2>3. ins[a][j].id # e.id
      <3>1. Apart(ifs, ins) /\ a \in 1..Len(ins) /\ b \in 1..Len(ifs) /\ e \in Outgoing(ifs[b])
        BY <1>1, <2>1
      <3>2. \A c \in 1..Len(ins), f \in 1..Len(ifs) :
                \A i \in 1..Len(ins[c]), g \in Outgoing(ifs[f]) : ins[c][i].id # g.id
        BY <3>1, Zenon DEF Apart
      <3>3. \A i \in 1..Len(ins[a]), g \in Outgoing(ifs[b]) : ins[a][i].id # g.id
        BY <3>1, <3>2, Zenon
      <3> QED BY <2>2, <3>1, <3>3, Zenon
    <2> QED BY <2>1, <2>3
  <1> QED BY <1>2, <1>5, <1>6, <1>7, <1>8, <1>9 DEF Tracked, more

\* One more datagram, with the next identity, behind those of queue i.
LEMMA TrackedReceived ==
    ASSUME NEW ifs, NEW ins, NEW last \in Nat, NEW calls, Tracked(ifs, ins, last, calls),
           NEW i \in 1..Len(ins), NEW d \in Datagram, d.id = last + 1, d.ttl = d.ttl_in
    PROVE  Tracked(ifs, [ins EXCEPT ![i] = Append(@, d)], last + 1, calls)
  <1> DEFINE q == Append(ins[i], d)
             more == [ins EXCEPT ![i] = q]
             n == Len(ins[i]) + 1
  <1>1. /\ ins \in Seq(Seq(Datagram)) /\ Len(ins) = Len(ifs) /\ Len(ifs) \in Nat
        /\ InputFresh(ins, last) /\ InputOnce(ins)
        /\ OutputRight(ifs, last, calls) /\ OutputOnce(ifs) /\ Apart(ifs, ins)
    BY DEF Tracked
  <1>2. /\ ins[i] \in Seq(Datagram) /\ q \in Seq(Datagram) /\ Len(q) = n /\ n \in Nat
        /\ q[n] = d /\ \A j \in 1..Len(q) : j # n => j \in 1..Len(ins[i]) /\ q[j] = ins[i][j]
    <2>1. ins[i] \in Seq(Datagram)
      BY <1>1
    <2> DEFINE s == ins[i]
    <2> HIDE DEF s
    <2>2. s \in Seq(Datagram) /\ Len(s) \in Nat
      BY <2>1 DEF s
    <2>3. /\ Append(s, d) \in Seq(Datagram) /\ Len(Append(s, d)) = Len(s) + 1
          /\ Append(s, d)[Len(s) + 1] = d
          /\ \A j \in 1..Len(s) + 1 : j # Len(s) + 1 => j \in 1..Len(s) /\ Append(s, d)[j] = s[j]
      BY <2>2
    <2> QED BY <2>2, <2>3 DEF s
  <1> HIDE DEF q, n
  <1>3. /\ more \in Seq(Seq(Datagram)) /\ Len(more) = Len(ins)
        /\ \A a \in 1..Len(ins) : more[a] = IF a = i THEN q ELSE ins[a]
    BY <1>1, <1>2, SMTT(60)
  <1> HIDE DEF more
  <1>4. \A a \in 1..Len(more) : \A j \in 1..Len(more[a]) :
            \/ a = i /\ j = n /\ more[a][j] = d
            \/ a \in 1..Len(ins) /\ j \in 1..Len(ins[a]) /\ more[a][j] = ins[a][j]
    <2> SUFFICES ASSUME NEW a \in 1..Len(more), NEW j \in 1..Len(more[a]), ~(a = i /\ j = n)
                 PROVE  a \in 1..Len(ins) /\ j \in 1..Len(ins[a]) /\ more[a][j] = ins[a][j]
      BY <1>2, <1>3
    <2>1. CASE a = i
      <3>1. a \in 1..Len(ins) /\ more[a] = q
        BY <1>3, <2>1
      <3>2. j \in 1..Len(q) /\ j # n
        BY <2>1, <3>1
      <3> QED BY <1>2, <2>1, <3>1, <3>2
    <2>2. CASE a # i
      BY <1>3, <2>2
    <2> QED BY <2>1, <2>2
  <1>5. \A a \in 1..Len(ins) : \A j \in 1..Len(ins[a]) : ins[a][j].id # d.id
    <2> SUFFICES ASSUME NEW a \in 1..Len(ins), NEW j \in 1..Len(ins[a]), ins[a][j].id = d.id
                 PROVE  FALSE
      OBVIOUS
    <2>1. ins[a][j].id \in 1..last
      BY <1>1, FreshAt
    <2> QED BY <2>1
  <1>6. InputFresh(more, last + 1)
    <2> SUFFICES ASSUME NEW a \in 1..Len(more), NEW j \in 1..Len(more[a])
                 PROVE  more[a][j].id \in 1..last + 1 /\ more[a][j].ttl = more[a][j].ttl_in
      BY DEF InputFresh
    <2>1. CASE more[a][j] = d
      BY <2>1
    <2>2. CASE more[a][j] # d
      <3>1. a \in 1..Len(ins) /\ j \in 1..Len(ins[a]) /\ more[a][j] = ins[a][j]
        BY <1>4, <2>2
      <3>2. ins[a][j].id \in 1..last /\ ins[a][j].ttl = ins[a][j].ttl_in
        BY <1>1, <3>1, FreshAt
      <3>3. 1..last \subseteq 1..last + 1
        OBVIOUS
      <3> QED BY <3>1, <3>2, <3>3, Zenon
    <2> QED BY <2>1, <2>2
  <1>7. InputOnce(more)
    <2> SUFFICES ASSUME NEW a \in 1..Len(more), NEW b \in 1..Len(more),
                        NEW j \in 1..Len(more[a]), NEW k \in 1..Len(more[b]),
                        more[a][j].id = more[b][k].id
                 PROVE  a = b /\ j = k
      BY DEF InputOnce
    <2>1. CASE more[a][j] = d /\ more[b][k] = d
      BY <1>4, <1>5, <2>1, ZenonT(60)
    <2>2. CASE more[a][j] # d /\ more[b][k] # d
      <3>1. /\ a \in 1..Len(ins) /\ j \in 1..Len(ins[a]) /\ more[a][j] = ins[a][j]
            /\ b \in 1..Len(ins) /\ k \in 1..Len(ins[b]) /\ more[b][k] = ins[b][k]
        BY <1>4, <2>2
      <3>2. ins[a][j].id = ins[b][k].id
        BY <3>1
      <3>3. InputOnce(ins)
        BY <1>1
      <3>4. \A f \in 1..Len(ins[a]), g \in 1..Len(ins[b]) :
                ins[a][f].id = ins[b][g].id => a = b /\ f = g
        BY <3>1, <3>3, Zenon DEF InputOnce
      <3> QED BY <3>1, <3>2, <3>4, Zenon
    <2>3. CASE more[a][j] = d /\ more[b][k] # d
      BY <1>4, <1>5, <2>3, ZenonT(60)
    <2>4. CASE more[a][j] # d /\ more[b][k] = d
      BY <1>4, <1>5, <2>4, SMTT(60)
    <2> QED BY <2>1, <2>2, <2>3, <2>4
  <1>8. OutputRight(ifs, last + 1, calls)
    BY <1>1, SMTT(60) DEF OutputRight, Right
  <1>9. Apart(ifs, more)
    <2> SUFFICES ASSUME NEW a \in 1..Len(more), NEW b \in 1..Len(ifs),
                        NEW j \in 1..Len(more[a]), NEW e \in Outgoing(ifs[b])
                 PROVE  more[a][j].id # e.id
      BY DEF Apart
    <2>1. CASE more[a][j] = d
      <3>1. Right(e, b, last, calls)
        BY <1>1 DEF OutputRight
      <3>2. e.id \in 1..last
        BY <3>1 DEF Right
      <3> QED BY <2>1, <3>2
    <2>2. CASE more[a][j] # d
      <3>1. a \in 1..Len(ins) /\ j \in 1..Len(ins[a]) /\ more[a][j] = ins[a][j]
        BY <1>4, <2>2
      <3>2. ins[a][j].id # e.id
        BY <1>1, <3>1, ApartAt, ZenonT(60)
      <3> QED BY <3>1, <3>2
    <2> QED BY <2>1, <2>2
  <1> QED BY <1>1, <1>3, <1>6, <1>7, <1>8, <1>9 DEF Tracked, more, q

\* The inductive invariant: the table holds routes that were added, and the
\* datagrams are where they belong.
RouterInv ==
    /\ TableInv
    /\ Len(router_table) <= Len(interfaces) /\ Len(interfaces) <= Len(InterfaceIP)
    /\ \A b \in 1..Len(interfaces) : interfaces[b].ipv4 = InterfaceIP[b]
    /\ arrived \in 0..MaxDatagrams
    /\ Tracked(interfaces, datagrams_in, arrived, ToSet(added))

\* Some facts of the invariant that most steps need.
LEMMA RouterInvFacts ==
    ASSUME RouterInv
    PROVE  /\ interfaces \in Seq(Interface) /\ datagrams_in \in Seq(Seq(Datagram))
           /\ Len(interfaces) \in Nat /\ Len(datagrams_in) = Len(interfaces)
           /\ Len(InterfaceIP) \in Nat /\ arrived \in Nat /\ Len(router_table) \in Nat
           /\ \A i \in Numbers : /\ i \in Nat /\ i + 1 \in 1..Len(interfaces)
                                 /\ interfaces[i + 1] \in Interface
                                 /\ datagrams_in[i + 1] \in Seq(Datagram)
  <1>1. /\ interfaces \in Seq(Interface) /\ datagrams_in \in Seq(Seq(Datagram))
        /\ Len(datagrams_in) = Len(interfaces)
    BY DEF RouterInv, Tracked
  <1>2. Len(InterfaceIP) \in Nat /\ arrived \in Nat /\ Len(router_table) \in Nat
    BY NetworksAssumption DEF RouterInv, TableInv
  <1> QED BY <1>1, <1>2 DEF Numbers

\* One interface does something that sends no new datagram.
LEMMA OneBecomes ==
    ASSUME RouterInv, NEW i \in Numbers, NEW m, Becomes(interfaces[i + 1], m, {}),
           interfaces' = [interfaces EXCEPT ![i + 1] = m],
           UNCHANGED <<datagrams_in, router_table, arrived, added>>
    PROVE  RouterInv'
  <1> DEFINE k == i + 1
  <1>1. /\ interfaces \in Seq(Interface) /\ k \in 1..Len(interfaces) /\ m \in Interface
        /\ Len(interfaces) \in Nat /\ arrived \in Nat
        /\ m.ipv4 = interfaces[k].ipv4 /\ Outgoing(m) \subseteq Outgoing(interfaces[k])
    BY RouterInvFacts DEF Becomes
  <1> HIDE DEF k
  <1> DEFINE u == interfaces'
  <1>2. /\ u \in Seq(Interface) /\ Len(u) = Len(interfaces)
        /\ \A b \in 1..Len(interfaces) : u[b] = IF b = k THEN m ELSE interfaces[b]
    BY <1>1 DEF k
  <1> HIDE DEF u
  <1>3. \A b \in 1..Len(interfaces) :
            Outgoing(u[b]) \subseteq Outgoing(interfaces[b]) /\ u[b].ipv4 = interfaces[b].ipv4
    BY <1>1, <1>2
  <1>4. Tracked(u, datagrams_in, arrived, ToSet(added))
    BY <1>1, <1>2, <1>3, TrackedShrinks DEF RouterInv
  <1> QED BY <1>2, <1>3, <1>4 DEF RouterInv, TableInv, u

\* An interface is added; those it joins may be copied.
LEMMA AddInterfaceKeeps ==
    ASSUME RouterInv, AddInterface
    PROVE  RouterInv'
  <1> DEFINE size == Len(interfaces)
             copies == [i \in 1..size |-> Copied(interfaces[i])]
             old == IF Reallocates(size) THEN copies ELSE interfaces
             new == NewInterface(InterfaceEth[size + 1], InterfaceIP[size + 1])
             u == Append(old, new)
             none == <<>>
  <1>1. /\ interfaces \in Seq(Interface) /\ size \in Nat /\ arrived \in Nat
        /\ size + 1 \in 1..Len(InterfaceIP)
        /\ \A b \in 1..size : interfaces[b] \in Interface /\ interfaces[b].ipv4 = InterfaceIP[b]
    BY RouterInvFacts DEF RouterInv, AddInterface
  <1>2. interfaces' = u /\ datagrams_in' = Append(datagrams_in, none)
        /\ UNCHANGED <<router_table, arrived, added>>
    BY DEF AddInterface
  <1>3. new \in Interface /\ new.ipv4 = InterfaceIP[size + 1] /\ Outgoing(new) = {}
    BY <1>1, NewEffect
  <1>4. \A b \in 1..size : Becomes(interfaces[b], Copied(interfaces[b]), {})
    BY <1>1, CopiedEffect
  <1>5. /\ old \in Seq(Interface) /\ Len(old) = size
        /\ \A b \in 1..size : Outgoing(old[b]) \subseteq Outgoing(interfaces[b])
                              /\ old[b].ipv4 = InterfaceIP[b]
    <2>1. CASE Reallocates(size)
      <3>1. copies \in Seq(Interface) /\ Len(copies) = size
            /\ \A b \in 1..size : copies[b] = Copied(interfaces[b])
        BY <1>1, <1>4 DEF Becomes
      <3> HIDE DEF copies
      <3> QED BY <1>1, <1>4, <2>1, <3>1 DEF Becomes
    <2>2. CASE ~Reallocates(size)
      BY <1>1, <2>2
    <2> QED BY <2>1, <2>2
  <1> HIDE DEF new, old
  <1>6. /\ u \in Seq(Interface) /\ Len(u) = size + 1 /\ u[size + 1] = new
        /\ \A b \in 1..size : u[b] = old[b]
    BY <1>3, <1>5
  <1> HIDE DEF u
  <1>7. Tracked(u, Append(datagrams_in, none), arrived, ToSet(added))
    <2>1. \A b \in 1..size : Outgoing(u[b]) \subseteq Outgoing(interfaces[b])
      BY <1>5, <1>6
    <2>2. Outgoing(u[size + 1]) = {}
      BY <1>3, <1>6
    <2> QED BY <1>1, <1>6, <2>1, <2>2, TrackedAdded DEF RouterInv
  <1>8. \A b \in 1..size + 1 : u[b].ipv4 = InterfaceIP[b]
    BY <1>1, <1>3, <1>5, <1>6, SMTT(60)
  <1>9. Len(router_table) <= size + 1 /\ size + 1 <= Len(InterfaceIP)
    BY <1>1, RouterInvFacts DEF RouterInv
  <1> HIDE DEF size, none
  <1>10. /\ interfaces' = u /\ router_table' = router_table /\ arrived' = arrived
         /\ added' = added /\ Len(u) = size + 1
    BY <1>2, <1>6
  <1> QED BY <1>2, <1>7, <1>8, <1>9, <1>10 DEF RouterInv, TableInv

\* A route is added to the table.
LEMMA AddRouteStep ==
    ASSUME RouterInv, NEW num \in Numbers, NEW route \in Routes, AddRoute(num, route)
    PROVE  RouterInv'
  <1>1. num \in Nat /\ num + 1 <= Len(interfaces) /\ arrived \in Nat
        /\ interfaces \in Seq(Interface) /\ TableInv
    BY RouterInvFacts DEF RouterInv
  <1>2. TableInv' /\ Len(router_table') = num + 1 /\ ToSet(added) \subseteq ToSet(added')
    BY <1>1, AddRouteKeeps
  <1>3. UNCHANGED <<interfaces, datagrams_in, arrived>>
    BY DEF AddRoute
  <1>4. Tracked(interfaces, datagrams_in, arrived, ToSet(added'))
    BY <1>1, <1>2, TrackedShrinks DEF RouterInv
  <1> QED BY <1>1, <1>2, <1>3, <1>4 DEF RouterInv

\* route.
LEMMA RouteKeeps ==
    ASSUME RouterInv, PointersOwned, Route
    PROVE  RouterInv'
  <1> DEFINE s == [interfaces |-> interfaces, datagrams_in |-> datagrams_in]
  <1>1. Sound(s)
    <2>1. Intact(interfaces)
      <3> SUFFICES ASSUME NEW b \in 1..Len(interfaces)
                   PROVE  Owned(interfaces[b]) /\ interfaces[b].ipv4 = InterfaceIP[b]
        BY DEF Intact
      <3>1. b - 1 \in Numbers /\ (b - 1) + 1 = b
        BY RouterInvFacts DEF Numbers
      <3>2. Owned(interfaces[b])
        BY <3>1 DEF PointersOwned, Owned
      <3> QED BY <3>2 DEF RouterInv
    <2>2. s \in Places
      BY RouterInvFacts DEF Places
    <2> QED BY <2>1, <2>2 DEF Sound, RouterInv
  <1>2. Sound(Routed(s))
    <2> HIDE DEF s
    <2> QED BY <1>1, RoutedEffect, RouterInvFacts DEF RouterInv
  <1>3. /\ interfaces' = Routed(s).interfaces /\ datagrams_in' = Routed(s).datagrams_in
        /\ UNCHANGED <<router_table, arrived, added>>
    BY DEF Route
  <1> HIDE DEF s
  <1>4. /\ Len(interfaces') = Len(interfaces) /\ Intact(interfaces')
        /\ Tracked(interfaces', datagrams_in', arrived, ToSet(added))
    BY <1>2, <1>3 DEF Sound
  <1>5. \A b \in 1..Len(interfaces') : interfaces'[b].ipv4 = InterfaceIP[b]
    BY <1>4 DEF Intact
  <1> QED BY <1>3, <1>4, <1>5 DEF RouterInv, TableInv

\* A datagram comes in: the interface stays as it is.
LEMMA RecvDatagramKeeps ==
    ASSUME RouterInv, NEW i \in Numbers, RecvDatagram(i)
    PROVE  RouterInv'
  <1> DEFINE n == interfaces[i + 1]
             q == datagrams_in[i + 1]
             d(dst, ttl) == [id |-> arrived + 1, dst |-> dst, ttl |-> ttl, ttl_in |-> ttl, cksum |-> ttl]
             f(dst, ttl) == [dst |-> n.ethernet_address, src |-> HostEth[dst], type |-> "IPv4",
                             payload |-> d(dst, ttl)]
  <1>1. PICK dst \in Destinations : \E ttl \in Ttls :
            arrived < MaxDatagrams /\ arrived' = arrived + 1 /\ RecvFrame(i, f(dst, ttl))
    BY DEF RecvDatagram
  <1>2. PICK ttl \in Ttls :
            arrived < MaxDatagrams /\ arrived' = arrived + 1 /\ RecvFrame(i, f(dst, ttl))
    BY <1>1
  <1>3. /\ interfaces \in Seq(Interface) /\ datagrams_in \in Seq(Seq(Datagram)) /\ arrived \in Nat
        /\ i + 1 \in 1..Len(interfaces) /\ Len(datagrams_in) = Len(interfaces)
        /\ q \in Seq(Datagram)
    BY RouterInvFacts
  <1> DEFINE e == d(dst, ttl)
  <1>4. e \in Datagram /\ e.id = arrived + 1 /\ e.ttl = e.ttl_in
    BY <1>3, NetworksAssumption, TrafficAssumption DEF Datagram
  <1>5. Received(n, f(dst, ttl)) = <<e>> /\ recv_frame(n, f(dst, ttl)) = n
    BY DEF Received, recv_frame, ForMe, ParseDatagram, Checksum
  <1>6. interfaces' = interfaces /\ UNCHANGED <<router_table, added>>
    BY <1>2, <1>3, <1>5 DEF RecvFrame
  <1>7. datagrams_in' = [datagrams_in EXCEPT ![i + 1] = Append(@, e)]
    <2>1. datagrams_in' = [datagrams_in EXCEPT ![i + 1] = q \o <<e>>]
      BY <1>2, <1>5 DEF RecvFrame
    <2> HIDE DEF e, q
    <2>2. q \o <<e>> = Append(q, e)
      BY <1>3, <1>4
    <2> QED BY <2>1, <2>2 DEF q
  <1> HIDE DEF e
  <1>8. Tracked(interfaces, datagrams_in', arrived + 1, ToSet(added))
    BY <1>3, <1>4, <1>7, TrackedReceived DEF RouterInv
  <1>9. arrived + 1 \in 0..MaxDatagrams
    BY <1>2, <1>3, TrafficAssumption
  <1> QED BY <1>2, <1>6, <1>8, <1>9 DEF RouterInv, TableInv

\* An answer comes in: the queue of received datagrams stays as it is.
LEMMA RecvARPKeeps ==
    ASSUME RouterInv, NEW i \in Numbers, RecvARP(i)
    PROVE  RouterInv'
  <1> DEFINE n == interfaces[i + 1]
             q == datagrams_in[i + 1]
             f(ip) == [dst |-> n.ethernet_address, src |-> HostEth[ip], type |-> "ARP",
                       payload |-> [opcode |-> "reply", sender_ip |-> ip, sender_eth |-> HostEth[ip],
                                    target_ip |-> n.ipv4, target_eth |-> n.ethernet_address]]
  <1>1. PICK ip \in DOMAIN HostEth : RecvFrame(i, f(ip)) /\ UNCHANGED arrived
    BY DEF RecvARP
  <1>2. /\ datagrams_in \in Seq(Seq(Datagram)) /\ n \in Interface /\ ip \in IP /\ HostEth[ip] \in Eth
        /\ i + 1 \in 1..Len(interfaces) /\ Len(datagrams_in) = Len(interfaces)
        /\ q \in Seq(Datagram)
    BY RouterInvFacts, NetworksAssumption, SMTT(60) DEF Eth
  <1> DEFINE m == IF Unknown(n.arp_table[ip]) THEN Learn(n, ip, HostEth[ip]) ELSE n
  <1>3. recv_frame(n, f(ip)) = m
    BY DEF recv_frame, ForMe, TakeARP, ParseARP, SenderEth
  <1>4. Received(n, f(ip)) = <<>>
    BY DEF Received
  <1>5. Becomes(n, m, {})
    <2>1. CASE Unknown(n.arp_table[ip])
      BY <1>2, <2>1, LearnEffect
    <2>2. CASE ~Unknown(n.arp_table[ip])
      BY <1>2, <2>2 DEF Becomes
    <2> QED BY <2>1, <2>2
  <1>6. interfaces' = [interfaces EXCEPT ![i + 1] = m] /\ UNCHANGED <<router_table, added>>
    BY <1>1, <1>3 DEF RecvFrame
  <1>7. UNCHANGED datagrams_in
    <2>1. datagrams_in' = [datagrams_in EXCEPT ![i + 1] = q \o <<>>]
      BY <1>1, <1>4 DEF RecvFrame
    <2>2. q \o <<>> = q
      <3> HIDE DEF q
      <3> QED BY <1>2
    <2> QED BY <1>2, <2>1, <2>2
  <1> HIDE DEF m
  <1> QED BY <1>1, <1>5, <1>6, <1>7, OneBecomes

\* Time passes at an interface.
LEMMA TickKeeps ==
    ASSUME RouterInv, NEW i \in Numbers, Tick(i)
    PROVE  RouterInv'
  <1>1. Becomes(interfaces[i + 1], tick(interfaces[i + 1], 1), {})
    BY RouterInvFacts, TickEffect
  <1> QED BY <1>1, OneBecomes DEF Tick

\* A frame leaves.
LEMMA MaybeSendKeeps ==
    ASSUME RouterInv, NEW i \in Numbers, MaybeSend(i)
    PROVE  RouterInv'
  <1>1. interfaces[i + 1] \in Interface /\ interfaces[i + 1].frames # <<>>
    BY RouterInvFacts DEF MaybeSend
  <1>2. Becomes(interfaces[i + 1], maybe_send(interfaces[i + 1]), {})
    BY <1>1, MaybeSendEffect
  <1> QED BY <1>2, OneBecomes DEF MaybeSend

------------------------------------------------------------------------------
(* What always holds. *)

\* The invariant holds at first and after every step.
LEMMA RouterInvAlways == Spec => []RouterInv
  <1>1. Init => RouterInv
    <2> SUFFICES ASSUME Init PROVE RouterInv
      OBVIOUS
    <2>1. TableInv
      BY DEF Init, TableInv, Entries, Seen, ToSet
    <2>2. Tracked(interfaces, datagrams_in, arrived, ToSet(added))
      BY DEF Init, Tracked, InputFresh, InputOnce, OutputRight, OutputOnce, Apart
    <2> QED BY <2>1, <2>2, NetworksAssumption, TrafficAssumption DEF Init, RouterInv
  <1>2. RouterInv /\ [Next]_vars => RouterInv'
    <2> SUFFICES ASSUME RouterInv, [Next]_vars PROVE RouterInv'
      OBVIOUS
    <2>1. CASE AddInterface
      BY <2>1, AddInterfaceKeeps
    <2>2. ASSUME NEW num \in Numbers, NEW route \in Routes, AddRoute(num, route) PROVE RouterInv'
      BY <2>2, AddRouteStep
    <2>3. CASE PointersOwned /\ Route
      BY <2>3, RouteKeeps
    <2>4. ASSUME NEW i \in Numbers, RecvDatagram(i) PROVE RouterInv'
      BY <2>4, RecvDatagramKeeps
    <2>5. ASSUME NEW i \in Numbers, RecvARP(i) PROVE RouterInv'
      BY <2>5, RecvARPKeeps
    <2>6. ASSUME NEW i \in Numbers, Tick(i) PROVE RouterInv'
      BY <2>6, TickKeeps
    <2>7. ASSUME NEW i \in Numbers, MaybeSend(i) PROVE RouterInv'
      BY <2>7, MaybeSendKeeps
    <2>8. CASE UNCHANGED vars
      BY <2>8 DEF vars, RouterInv, TableInv
    <2> QED BY <2>1, <2>2, <2>3, <2>4, <2>5, <2>6, <2>7, <2>8 DEF Next
  <1> QED BY <1>1, <1>2, PTL DEF Spec

\* The fields of the router hold what they should: rows and interfaces fit
\* together, and every datagram in it has arrived.
THEOREM RouterTypeCorrect == Spec => []TypeOK
  <1>1. RouterInv => TypeOK
    <2> SUFFICES ASSUME RouterInv PROVE TypeOK
      OBVIOUS
    <2>1. ASSUME NEW num \in Numbers
          PROVE  /\ interfaces[num + 1].ipv4 = InterfaceIP[num + 1]
                 /\ \A x \in ToSet(datagrams_in[num + 1]) : x.id \in 1..arrived
                 /\ \A x \in Outgoing(interfaces[num + 1]) : x.id \in 1..arrived
      <3> DEFINE b == num + 1
      <3>1. b \in 1..Len(interfaces) /\ b \in 1..Len(datagrams_in) /\ datagrams_in[b] \in Seq(Datagram)
        BY RouterInvFacts
      <3> HIDE DEF b
      <3>2. interfaces[b].ipv4 = InterfaceIP[b]
        BY <3>1 DEF RouterInv
      <3>3. ASSUME NEW x \in ToSet(datagrams_in[b]) PROVE x.id \in 1..arrived
        <4>1. PICK j \in 1..Len(datagrams_in[b]) : datagrams_in[b][j] = x
          BY <3>1 DEF ToSet
        <4>2. InputFresh(datagrams_in, arrived)
          BY DEF RouterInv, Tracked
        <4> QED BY <3>1, <4>1, <4>2, FreshAt
      <3>4. ASSUME NEW x \in Outgoing(interfaces[b]) PROVE x.id \in 1..arrived
        <4>1. Right(x, b, arrived, ToSet(added))
          BY <3>1 DEF RouterInv, Tracked, OutputRight
        <4> QED BY <4>1 DEF Right
      <3> QED BY <3>2, <3>3, <3>4 DEF b
    <2>2. Len(datagrams_in) = Len(interfaces)
      BY RouterInvFacts
    <2>3. /\ Len(interfaces) <= Len(InterfaceIP) /\ Len(router_table) <= Len(interfaces)
          /\ router_table \in Seq(Seq(Routes)) /\ arrived \in 0..MaxDatagrams
      BY DEF RouterInv, TableInv
    <2> QED BY <2>1, <2>2, <2>3 DEF TypeOK
  <1> QED BY <1>1, RouterInvAlways, PTL

\* While routes are added in the order of their interfaces, what route looks
\* up is the longest route that was added and matches.
THEOREM LongestAlways ==
    ASSUME ~AnyRouteOrder
    PROVE  Spec => []LongestPrefix
  <1>1. RouterInv => LongestPrefix
    <2> SUFFICES ASSUME RouterInv, NEW dst \in Destinations
                 PROVE  Longest(Lookup(router_table, dst), ToSet(added), dst)
      BY DEF LongestPrefix, Longest
    <2>1. router_table \in Seq(Seq(Routes)) /\ Entries(router_table) = ToSet(added)
      BY DEF RouterInv, TableInv
    <2>2. Longest(Lookup(router_table, dst), Entries(router_table), dst)
      BY <2>1, LookupIsLongest
    <2> QED BY <2>1, <2>2
  <1> QED BY <1>1, RouterInvAlways, PTL

\* A datagram is in one place at a time, and leaves with one hop less on an
\* interface that has a route for it.
THEOREM EachForwardedOnce == Spec => []ForwardedOnce
  <1>1. RouterInv => ForwardedOnce
    <2> SUFFICES ASSUME RouterInv, NEW k \in Numbers, NEW l \in Numbers
                 PROVE  /\ \A x \in ToSet(datagrams_in[k + 1]), e \in Outgoing(interfaces[l + 1]) : x.id # e.id
                        /\ \A x \in Outgoing(interfaces[k + 1]), e \in Outgoing(interfaces[l + 1]) :
                               x.id = e.id => k = l /\ x = e
                        /\ \A x \in Outgoing(interfaces[k + 1]) :
                               /\ x.ttl = x.ttl_in - 1 /\ x.ttl > 0
                               /\ \E y \in ToSet(added) :
                                      y[1] = k /\ ipPrefixMatched(x.dst, y[2].prefix, y[2].length)
      BY DEF ForwardedOnce
    <2> DEFINE a == k + 1
               b == l + 1
    <2>1. /\ a \in 1..Len(interfaces) /\ a \in 1..Len(datagrams_in) /\ datagrams_in[a] \in Seq(Datagram)
          /\ b \in 1..Len(interfaces) /\ a - 1 = k /\ (a = b => k = l)
      <3>1. k \in Nat /\ l \in Nat
        BY RouterInvFacts
      <3>2. a \in 1..Len(interfaces) /\ b \in 1..Len(interfaces) /\ datagrams_in[a] \in Seq(Datagram)
            /\ Len(datagrams_in) = Len(interfaces)
        BY RouterInvFacts
      <3> QED BY <3>1, <3>2
    <2> HIDE DEF a, b
    <2>2. /\ OutputRight(interfaces, arrived, ToSet(added)) /\ OutputOnce(interfaces)
          /\ Apart(interfaces, datagrams_in)
      BY DEF RouterInv, Tracked
    <2>3. ASSUME NEW x \in ToSet(datagrams_in[a]), NEW e \in Outgoing(interfaces[b])
          PROVE  x.id # e.id
      <3>1. PICK j \in 1..Len(datagrams_in[a]) : datagrams_in[a][j] = x
        BY <2>1 DEF ToSet
      <3>2. datagrams_in[a][j].id # e.id
        BY <2>1, <2>2, ApartAt
      <3> QED BY <3>1, <3>2
    <2>4. ASSUME NEW x \in Outgoing(interfaces[a]), NEW e \in Outgoing(interfaces[b]), x.id = e.id
          PROVE  k = l /\ x = e
      <3>1. a = b /\ x = e
        BY <2>1, <2>2, <2>4 DEF OutputOnce
      <3> QED BY <2>1, <3>1
    <2>5. ASSUME NEW x \in Outgoing(interfaces[a])
          PROVE  /\ x.ttl = x.ttl_in - 1 /\ x.ttl > 0
                 /\ \E y \in ToSet(added) :
                        y[1] = k /\ ipPrefixMatched(x.dst, y[2].prefix, y[2].length)
      <3>1. Right(x, a, arrived, ToSet(added))
        BY <2>1, <2>2 DEF OutputRight
      <3> QED BY <2>1, <3>1 DEF Right
    <2> QED BY <2>3, <2>4, <2>5 DEF a, b
  <1> QED BY <1>1, RouterInvAlways, PTL

=============================================================================
