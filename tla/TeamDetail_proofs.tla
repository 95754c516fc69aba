-------------------------- MODULE TeamDetail_proofs --------------------------
(***************************************************************************)
(* The calendar of any team, with lists of any length, however many days   *)
(* begin while it is read.                                                 *)
(***************************************************************************)
EXTENDS TeamDetail, PageWalk_proofs

\* The first page of a list has all its rows, or no room for more, and what it has
\* no room for sorts before none of its rows.
LEMMA FirstPage ==
  ASSUME NEW l, IsFiniteSet(l.rows), NEW at \in Arrangements(l), NEW size \in Nat
  PROVE  /\ Page(at, 0, size) \subseteq l.rows
         /\ \A g \in l.rows \ Page(at, 0, size) :
              /\ Cardinality(Page(at, 0, size)) = size
              /\ \A r \in Page(at, 0, size) : <<g, r>> \notin l.ahead
<1> DEFINE n    == Cardinality(l.rows)
           page == Page(at, 0, size)
<1>1. n \in Nat  BY FS_CardinalityType
<1>2. /\ at \in Bijection(l.rows, 1..n)
      /\ \A p \in l.ahead : at[p[1]] < at[p[2]]
  BY DEF Arrangements
<1>3. at \in [l.rows -> 1..n]  BY <1>2 DEF Bijection, Injection
<1>4. page = {u \in l.rows : 1 <= at[u] /\ at[u] <= size}  BY <1>1, <1>3 DEF Page
<1>5. ASSUME NEW g \in l.rows \ page
      PROVE  Cardinality(page) = size /\ \A r \in page : <<g, r>> \notin l.ahead
  <2>1. at[g] \in 1..n /\ ~ (at[g] <= size)  BY <1>1, <1>3, <1>4
  <2>2. size <= n /\ 1 \in Nat \ {0} /\ 1 <= size + 1  BY <1>1, <2>1
  <2>3. Cardinality(page) = size
    <3>1. Cardinality({u \in l.rows : 1 <= at[u] /\ at[u] <= size}) = size + 1 - 1
      BY <1>2, <2>2, PlacesInInterval
    <3>2. page = {u \in l.rows : 1 <= at[u] /\ at[u] <= size}  BY <1>4
    <3> HIDE DEF page
    <3>3. QED BY <3>1, <3>2
  <2>4. ASSUME NEW r \in page, <<g, r>> \in l.ahead PROVE FALSE
    <3>1. at[g] < at[r]  BY <1>2, <2>4
    <3>2. at[r] \in 1..n /\ at[r] <= size  BY <1>3, <1>4
    <3>3. QED BY <1>1, <2>1, <3>1, <3>2
  <2> HIDE DEF page
  <2>5. QED BY <2>3, <2>4
<1>6. QED BY <1>4, <1>5

\* What each list has, as of the day it was read, and what it has no room for.
RecentInv ==
  /\ \A g \in recent : g.game_date <= asked
  /\ stage # "season" =>
       \A g \in OfTeam \ recent :
         g.game_date <= asked =>
           /\ Cardinality(recent) = DetailLimit
           /\ \A r \in recent : r.game_date >= g.game_date

UpcomingInv ==
  /\ \A g \in upcoming : g.game_date > today
  /\ stage = "answered" =>
       \A g \in OfTeam \ upcoming :
         g.game_date > today =>
           /\ Cardinality(upcoming) = DetailLimit
           /\ \A u \in upcoming : u.game_date <= g.game_date

DetailInv ==
  /\ calendar \in Calendars
  /\ today \in Nat /\ asked \in Nat /\ asked <= today
  /\ stage \in {"season", "recent", "answered"}
  /\ stage = "season" => recent = {}
  /\ stage # "answered" => upcoming = {}
  /\ recent \cup upcoming \subseteq OfTeam
  /\ RecentInv /\ UpcomingInv

LEMMA TeamGames ==
  ASSUME calendar \in Calendars
  PROVE  IsFiniteSet(OfTeam) /\ \A g \in OfTeam : g.game_date \in Int
<1>1. IsFiniteSet(calendar) /\ \A g \in calendar : g.game_date \in Int
  BY DetailAssumption DEF DetailAssumption
<1>2. OfTeam \subseteq calendar  BY DEF OfTeam
<1>3. QED BY <1>1, <1>2, FS_Subset

LEMMA RecentKeeps ==
  ASSUME DetailInv, ReadRecent
  PROVE  DetailInv'
<1> DEFINE l == RecentGames(today)
<1>1. PICK at \in Arrangements(l) : recent' = Page(at, 0, DetailLimit)
  BY DEF ReadRecent
<1>2. l.rows = {g \in OfTeam : g.game_date <= today}  BY DEF RecentGames
<1>3. \A g, r \in l.rows : g.game_date > r.game_date => <<g, r>> \in l.ahead
  BY DEF RecentGames
<1>4. IsFiniteSet(OfTeam) /\ \A g \in OfTeam : g.game_date \in Int
  BY TeamGames DEF DetailInv
<1>5. IsFiniteSet(l.rows) /\ DetailLimit \in Nat
  BY <1>2, <1>4, FS_Subset, DetailAssumption DEF DetailAssumption
<1>6. /\ asked' = today /\ stage' = "recent" /\ calendar' = calendar /\ today' = today
      /\ upcoming' = upcoming /\ stage = "season" /\ OfTeam' = OfTeam
  BY DEF ReadRecent, OfTeam
<1> HIDE DEF l
<1>7. /\ recent' \subseteq l.rows
      /\ \A g \in l.rows \ recent' :
           /\ Cardinality(recent') = DetailLimit
           /\ \A r \in recent' : <<g, r>> \notin l.ahead
  BY <1>1, <1>5, FirstPage
<1>8. RecentInv'
  <2>1. \A g \in recent' : g.game_date <= asked'  BY <1>2, <1>6, <1>7
  <2>2. ASSUME NEW g \in OfTeam \ recent', g.game_date <= asked'
        PROVE  /\ Cardinality(recent') = DetailLimit
               /\ \A r \in recent' : r.game_date >= g.game_date
    <3>1. g \in l.rows \ recent'  BY <1>2, <1>6, <2>2
    <3>2. ASSUME NEW r \in recent' PROVE r.game_date >= g.game_date
      <4>1. r \in l.rows /\ r \in OfTeam  BY <1>2, <1>7
      <4>2. ~ (g.game_date > r.game_date)  BY <1>3, <1>7, <3>1, <4>1
      <4>3. QED BY <1>4, <4>1, <4>2
    <3>3. QED BY <1>7, <3>1, <3>2
  <2>3. QED BY <1>6, <2>1, <2>2 DEF RecentInv
<1>9. UpcomingInv'  BY <1>6 DEF DetailInv, UpcomingInv
<1>10. QED BY <1>2, <1>6, <1>7, <1>8, <1>9 DEF DetailInv

LEMMA UpcomingKeeps ==
  ASSUME DetailInv, ReadUpcoming
  PROVE  DetailInv'
<1> DEFINE l == UpcomingGames(today)
<1>1. PICK at \in Arrangements(l) : upcoming' = Page(at, 0, DetailLimit)
  BY DEF ReadUpcoming
<1>2. l.rows = {g \in OfTeam : g.game_date > today}  BY DEF UpcomingGames
<1>3. \A g, r \in l.rows : g.game_date < r.game_date => <<g, r>> \in l.ahead
  BY DEF UpcomingGames
<1>4. IsFiniteSet(OfTeam) /\ \A g \in OfTeam : g.game_date \in Int
  BY TeamGames DEF DetailInv
<1>5. IsFiniteSet(l.rows) /\ DetailLimit \in Nat
  BY <1>2, <1>4, FS_Subset, DetailAssumption DEF DetailAssumption
<1>6. /\ stage' = "answered" /\ calendar' = calendar /\ today' = today /\ asked' = asked
      /\ recent' = recent /\ stage = "recent" /\ OfTeam' = OfTeam
  BY DEF ReadUpcoming, OfTeam
<1> HIDE DEF l
<1>7. /\ upcoming' \subseteq l.rows
      /\ \A g \in l.rows \ upcoming' :
           /\ Cardinality(upcoming') = DetailLimit
           /\ \A u \in upcoming' : <<g, u>> \notin l.ahead
  BY <1>1, <1>5, FirstPage
<1>8. UpcomingInv'
  <2>1. \A g \in upcoming' : g.game_date > today'  BY <1>2, <1>6, <1>7
  <2>2. ASSUME NEW g \in OfTeam \ upcoming', g.game_date > today'
        PROVE  /\ Cardinality(upcoming') = DetailLimit
               /\ \A u \in upcoming' : u.game_date <= g.game_date
    <3>1. g \in l.rows \ upcoming'  BY <1>2, <1>6, <2>2
    <3>2. ASSUME NEW u \in upcoming' PROVE u.game_date <= g.game_date
      <4>1. u \in l.rows /\ u \in OfTeam  BY <1>2, <1>7
      <4>2. ~ (g.game_date < u.game_date)  BY <1>3, <1>7, <3>1, <4>1
      <4>3. QED BY <1>4, <4>1, <4>2
    <3>3. QED BY <1>7, <3>1, <3>2
  <2>3. QED BY <1>6, <2>1, <2>2 DEF UpcomingInv
<1>9. RecentInv'  BY <1>6 DEF DetailInv, RecentInv
<1>10. QED BY <1>2, <1>6, <1>7, <1>8, <1>9 DEF DetailInv

LEMMA MidnightKeeps ==
  ASSUME DetailInv, Midnight
  PROVE  DetailInv'
<1>1. /\ stage # "answered" /\ today' = today + 1 /\ calendar' = calendar /\ asked' = asked
      /\ recent' = recent /\ upcoming' = upcoming /\ stage' = stage /\ OfTeam' = OfTeam
  BY DEF Midnight, OfTeam
<1>2. RecentInv' /\ UpcomingInv'  BY <1>1 DEF DetailInv, RecentInv, UpcomingInv
<1>3. QED BY <1>1, <1>2 DEF DetailInv

\* Each list that get_team_detail has read lies on its side of a day that has come by now.
THEOREM DetailInvariant == DetailSpec => []DetailInv
<1>1. DetailInit => DetailInv
  BY DEF DetailInit, DetailInv, RecentInv, UpcomingInv
<1>2. DetailInv /\ [DetailNext]_detailVars => DetailInv'
  <2>1. ASSUME DetailInv, UNCHANGED detailVars PROVE DetailInv'
    BY <2>1 DEF detailVars, DetailInv, RecentInv, UpcomingInv, OfTeam
  <2>2. QED BY <2>1, RecentKeeps, UpcomingKeeps, MidnightKeeps DEF DetailNext
<1>3. QED BY <1>1, <1>2, PTL DEF DetailSpec

\* No game is shown as played and as still to come.
THEOREM NeverInBothAlways == DetailSpec => []NeverInBoth
<1>1. ASSUME DetailInv, NEW g \in recent \cap upcoming PROVE FALSE
  <2>1. g \in OfTeam /\ g.game_date <= asked /\ g.game_date > today
    BY <1>1 DEF DetailInv, RecentInv, UpcomingInv
  <2>2. g.game_date \in Int  BY <1>1, <2>1, TeamGames DEF DetailInv
  <2>3. QED BY <1>1, <2>1, <2>2 DEF DetailInv
<1>2. DetailInv => NeverInBoth  BY <1>1 DEF NeverInBoth
<1>3. QED BY <1>2, DetailInvariant, PTL

\* A game is left out for want of room, by nearer ones, or at midnight.
THEOREM LostOnlyAtMidnightAlways == DetailSpec => []LostOnlyAtMidnight
<1>1. ASSUME DetailInv, stage = "answered", NEW g \in OfTeam \ (recent \cup upcoming)
      PROVE  \/ g.game_date \in (asked + 1)..today
             \/ /\ g.game_date <= asked /\ Cardinality(recent) = DetailLimit
                /\ \A r \in recent : r.game_date >= g.game_date
             \/ /\ g.game_date > today /\ Cardinality(upcoming) = DetailLimit
                /\ \A u \in upcoming : u.game_date <= g.game_date
  <2>1. g.game_date \in Int /\ asked \in Nat /\ today \in Nat
    BY <1>1, TeamGames DEF DetailInv
  <2>2. CASE g.game_date <= asked
    BY <1>1, <2>2 DEF DetailInv, RecentInv
  <2>3. CASE g.game_date > today
    BY <1>1, <2>3 DEF DetailInv, UpcomingInv
  <2>4. CASE ~ (g.game_date <= asked) /\ ~ (g.game_date > today)
    BY <2>1, <2>4
  <2>5. QED BY <2>2, <2>3, <2>4
<1>2. DetailInv => LostOnlyAtMidnight  BY <1>1 DEF LostOnlyAtMidnight
<1>3. QED BY <1>2, DetailInvariant, PTL
=============================================================================
