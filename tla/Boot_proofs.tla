----------------------------- MODULE Boot_proofs -----------------------------
(***************************************************************************)
(* The migrations, for any number of containers that boot together.        *)
(*                                                                         *)
(* The statements of an upgrade make the objects of Order one by one, each *)
(* after what it refers to; those of a downgrade drop them backwards.  So  *)
(* how far a transaction has come tells what it sees.                      *)
(***************************************************************************)
EXTENDS Boot, SequenceTheorems, TLAPS

Order ==
  [i \in 1..17 |-> IF i <= 3 THEN <<"alembic_version", "0001", "competition_phase">>[i]
                   ELSE IF i <= 13 THEN Tables[i - 3] ELSE Indexes[i - 13]]

CreateMissing(o) == Statement({o}, {}, TRUE)
DropExisting(o)  == Statement({}, {o}, TRUE)

\* The statements of an upgrade from nothing, and the schema before each.
Up(k) ==
  IF k = 18 THEN Stamp({"0001"}, {"0002"})
  ELSE IF k \in {1, 3} THEN CreateMissing(Order[k]) ELSE Create(Order[k])

UpTo(k) == IF k = 19 THEN Versioned("0002") ELSE {Order[i] : i \in 1..(k - 1)}

\* The statements of a downgrade from head, and the schema before each.
Down(k) ==
  IF k = 17 THEN Stamp({"0001"}, {})
  ELSE IF k = 16 THEN Stamp({"0002"}, {"0001"})
  ELSE IF k = 15 THEN DropExisting(Order[18 - k]) ELSE Drop(Order[18 - k])

DownTo(k) ==
  IF k = 18 THEN Versioned("base")
  ELSE IF k = 17 THEN Versioned("0001")
  ELSE {"alembic_version", "0002"} \cup {Order[i] : i \in 3..(18 - k)}

-----------------------------------------------------------------------------
(* The objects. *)

\* The objects in the order of their making.
LEMMA OrderIs ==
  /\ Order[1] = "alembic_version" /\ Order[2] = "0001" /\ Order[3] = "competition_phase"
  /\ Order[4] = "clubs" /\ Order[5] = "seasons" /\ Order[6] = "competitions"
  /\ Order[7] = "teams" /\ Order[8] = "players" /\ Order[9] = "coaches"
  /\ Order[10] = "rosters" /\ Order[11] = "coaching_assignments" /\ Order[12] = "games"
  /\ Order[13] = "box_scores" /\ Order[14] = "ix_games_competition_id"
  /\ Order[15] = "ix_box_scores_player_lookup" /\ Order[16] = "ix_games_date_competition"
  /\ Order[17] = "ix_box_scores_val_desc"
<1>1. \A i \in 1..3 : Order[i] = <<"alembic_version", "0001", "competition_phase">>[i]
  BY DEF Order
<1>2. \A i \in 4..13 : Order[i] = Tables[i - 3]  BY DEF Order
<1>3. \A i \in 14..17 : Order[i] = Indexes[i - 13]  BY DEF Order
<1>4. Order[1] = "alembic_version" /\ Order[2] = "0001" /\ Order[3] = "competition_phase"
  BY <1>1
<1>5. /\ Order[4] = Tables[1] /\ Order[5] = Tables[2] /\ Order[6] = Tables[3]
      /\ Order[7] = Tables[4] /\ Order[8] = Tables[5] /\ Order[9] = Tables[6]
      /\ Order[10] = Tables[7] /\ Order[11] = Tables[8] /\ Order[12] = Tables[9]
      /\ Order[13] = Tables[10]
  BY <1>2
<1>6. /\ Order[14] = Indexes[1] /\ Order[15] = Indexes[2] /\ Order[16] = Indexes[3]
      /\ Order[17] = Indexes[4]
  BY <1>3
<1>7. QED BY <1>4, <1>5, <1>6 DEF Tables, Indexes

\* No object is made twice.
LEMMA OrderInjective == \A i, j \in 1..17 : Order[i] = Order[j] => i = j
BY OrderIs

\* Every object is made after what it refers to.
LEMMA OrderTopological ==
  \A i \in 1..17 : Refers(Order[i]) \subseteq {Order[j] : j \in 1..(i - 1)}
<1>1. SUFFICES ASSUME NEW i \in 1..17, NEW o \in Refers(Order[i])
               PROVE  \E j \in 1..17 : j < i /\ o = Order[j]
  OBVIOUS
<1>2. QED BY OrderIs DEF Refers

\* Only the revisions refer to the version table, and nothing refers to them.
LEMMA OrderWithoutVersions ==
  \A i \in 3..17 : Refers(Order[i]) \subseteq {Order[j] : j \in 3..(i - 1)}
<1>1. SUFFICES ASSUME NEW i \in 3..17, NEW o \in Refers(Order[i])
               PROVE  \E j \in 3..17 : j < i /\ o = Order[j]
  OBVIOUS
<1>2. QED BY OrderIs DEF Refers

LEMMA HeadIs ==
  /\ Versioned("0002") = {"alembic_version", "0002"} \cup {Order[i] : i \in 3..17}
  /\ Versioned("0001") = {"alembic_version", "0001"}
  /\ Versioned("base") = {"alembic_version"}
  /\ "0002" \notin {Order[i] : i \in 1..17}
<1>1. ToSet(Tables) = {Tables[i] : i \in 1..10}  BY DEF ToSet, Tables
<1>2. ToSet(Indexes) = {Indexes[i] : i \in 1..4}  BY DEF ToSet, Indexes
<1>3. {Tables[i] : i \in 1..10} = {Order[i] : i \in 4..13}
  BY OrderIs DEF Tables
<1>4. {Indexes[i] : i \in 1..4} = {Order[i] : i \in 14..17}
  BY OrderIs DEF Indexes
<1>5. {Order[i] : i \in 3..17}
        = {"competition_phase"} \cup {Order[i] : i \in 4..13} \cup {Order[i] : i \in 14..17}
  BY OrderIs
<1>6. Entities = {Order[i] : i \in 3..17}  BY <1>1, <1>2, <1>3, <1>4, <1>5 DEF Entities
<1>7. QED BY <1>6, OrderIs DEF Versioned

-----------------------------------------------------------------------------
(* The statements. *)

Stmts == [make : SUBSET Objects, drop : SUBSET Objects, checkfirst : BOOLEAN]

LEMMA ObjectsAre == Objects = {"0002"} \cup {Order[i] : i \in 1..17}
<1>1. Objects = Versioned("base") \cup Versioned("0001") \cup Versioned("0002")
  BY DEF Objects, Revisions
<1>2. {Order[i] : i \in 1..17}
        = {"alembic_version"} \cup {"0001"} \cup {Order[i] : i \in 3..17}
  BY OrderIs
<1>3. QED BY <1>1, <1>2, HeadIs

LEMMA UpIsStatement == \A k \in 1..18 : Up(k) \in Stmts
BY ObjectsAre, OrderIs DEF Up, Stmts, Stamp, Create, CreateMissing, Statement

LEMMA DownIsStatement == \A k \in 1..17 : Down(k) \in Stmts
BY ObjectsAre, OrderIs DEF Down, Stmts, Stamp, Drop, DropExisting, Statement

\* s holds what f has at the n places after a.
Piece(s, f, a, n) ==
  s \in Seq(Stmts) /\ Len(s) = n /\ \A i \in 1..n : s[i] = f[a + i]

LEMMA OnePiece ==
  ASSUME NEW f, NEW a \in Nat, NEW e \in Stmts, e = f[a + 1]
  PROVE  Piece(<<e>>, f, a, 1)
BY DEF Piece

LEMMA TwoPieces ==
  ASSUME NEW f, NEW a \in Nat, NEW d \in Stmts, NEW e \in Stmts, d = f[a + 1], e = f[a + 2]
  PROVE  Piece(<<d, e>>, f, a, 2)
BY DEF Piece

LEMMA FunctionPiece ==
  ASSUME NEW f, NEW a \in Nat, NEW n \in Nat, \A i \in 1..n : f[a + i] \in Stmts
  PROVE  Piece([i \in 1..n |-> f[a + i]], f, a, n)
BY DEF Piece

LEMMA JoinPieces ==
  ASSUME NEW f, NEW a \in Nat, NEW m \in Nat, NEW n \in Nat, NEW s, NEW t,
         Piece(s, f, a, m), Piece(t, f, a + m, n)
  PROVE  Piece(s \o t, f, a, m + n)
<1>1. /\ s \in Seq(Stmts) /\ Len(s) = m /\ \A i \in 1..m : s[i] = f[a + i]
      /\ t \in Seq(Stmts) /\ Len(t) = n /\ \A i \in 1..n : t[i] = f[a + m + i]
  BY DEF Piece
<1>2. /\ s \o t \in Seq(Stmts) /\ Len(s \o t) = m + n
      /\ \A i \in 1..(m + n) : (s \o t)[i] = IF i <= m THEN s[i] ELSE t[i - m]
  <2>1. /\ s \o t \in Seq(Stmts) /\ Len(s \o t) = Len(s) + Len(t)
        /\ \A i \in 1..(Len(s) + Len(t)) :
              (s \o t)[i] = IF i <= Len(s) THEN s[i] ELSE t[i - Len(s)]
    <3>1. s \in Seq(Stmts) /\ t \in Seq(Stmts)  BY <1>1
    <3>2. QED BY <3>1, ConcatProperties, Zenon
  <2>2. QED BY <1>1, <2>1
<1>3. ASSUME NEW i \in 1..(m + n) PROVE (s \o t)[i] = f[a + i]
  <2>1. CASE i <= m
    <3>1. (s \o t)[i] = s[i]  BY <1>2, <2>1
    <3>2. QED BY <1>1, <2>1, <3>1
  <2>2. CASE i > m
    <3>1. (s \o t)[i] = t[i - m]  BY <1>2, <2>2
    <3>2. i - m \in 1..n /\ a + m + (i - m) = a + i  BY <2>2
    <3>3. QED BY <1>1, <3>1, <3>2
  <2>3. i <= m \/ i > m  OBVIOUS
  <2>4. QED BY <2>1, <2>2, <2>3, Zenon
<1>4. \A i \in 1..(m + n) : (s \o t)[i] = f[a + i]  BY <1>3
<1>5. s \o t \in Seq(Stmts) /\ Len(s \o t) = m + n  BY <1>2, Zenon
<1>6. QED BY <1>4, <1>5, Zenon DEF Piece

UpSeq == [k \in 1..18 |-> Up(k)]

LEMMA UpSeqType == \A k \in 1..18 : UpSeq[k] = Up(k) /\ UpSeq[k] \in Stmts
BY UpIsStatement DEF UpSeq

\* The statements that make no table and no index.
LEMMA UpAt ==
  /\ UpSeq[1] = CreateMissing("alembic_version") /\ UpSeq[2] = Create("0001")
  /\ UpSeq[3] = CreateMissing("competition_phase") /\ UpSeq[18] = Stamp({"0001"}, {"0002"})
BY UpSeqType, OrderIs DEF Up

\* An upgrade from revision 0001 runs the statements of Up from the third on.
LEMMA UpgradeIs == Piece(upgrade, UpSeq, 2, 16)
<1> DEFINE phase   == <<Statement({"competition_phase"}, {}, TRUE)>>
           tables  == Each(Tables, Create)
           indexes == Each(Indexes, Create)
           stamp   == <<Stamp({"0001"}, {"0002"})>>
<1>1. Piece(phase, UpSeq, 2, 1)
  <2>1. UpSeq[3] \in Stmts /\ UpSeq[3] = UpSeq[2 + 1]  BY UpSeqType
  <2>2. Piece(<<UpSeq[3]>>, UpSeq, 2, 1)  BY <2>1, OnePiece
  <2>3. QED BY <2>2, UpAt, Zenon DEF CreateMissing
<1>2. Piece(stamp, UpSeq, 17, 1)
  <2>1. UpSeq[18] \in Stmts /\ UpSeq[18] = UpSeq[17 + 1]  BY UpSeqType
  <2>2. Piece(<<UpSeq[18]>>, UpSeq, 17, 1)  BY <2>1, OnePiece
  <2>3. QED BY <2>2, UpAt, Zenon
<1>3. Piece(tables, UpSeq, 3, 10)
  <2>1. DOMAIN Tables = 1..10 /\ \A i \in 1..10 : Order[3 + i] = Tables[i]
    BY DEF Tables, Order
  <2>2. tables = [i \in 1..10 |-> Create(Tables[i])]  BY <2>1 DEF Each
  <2>3. \A i \in 1..10 : Create(Tables[i]) = UpSeq[3 + i]
    BY <2>1, UpSeqType DEF Up
  <2>4. tables = [i \in 1..10 |-> UpSeq[3 + i]]  BY <2>2, <2>3
  <2>5. \A i \in 1..10 : UpSeq[3 + i] \in Stmts  BY UpSeqType
  <2>6. Piece([i \in 1..10 |-> UpSeq[3 + i]], UpSeq, 3, 10)  BY <2>5, FunctionPiece
  <2>7. QED BY <2>4, <2>6, Zenon
<1>4. Piece(indexes, UpSeq, 13, 4)
  <2>1. DOMAIN Indexes = 1..4 /\ \A i \in 1..4 : Order[13 + i] = Indexes[i]
    BY DEF Indexes, Order
  <2>2. indexes = [i \in 1..4 |-> Create(Indexes[i])]  BY <2>1 DEF Each
  <2>3. \A i \in 1..4 : Create(Indexes[i]) = UpSeq[13 + i]
    BY <2>1, UpSeqType DEF Up
  <2>4. indexes = [i \in 1..4 |-> UpSeq[13 + i]]  BY <2>2, <2>3
  <2>5. \A i \in 1..4 : UpSeq[13 + i] \in Stmts  BY UpSeqType
  <2>6. Piece([i \in 1..4 |-> UpSeq[13 + i]], UpSeq, 13, 4)  BY <2>5, FunctionPiece
  <2>7. QED BY <2>4, <2>6, Zenon
<1>5. upgrade = ((phase \o tables) \o indexes) \o stamp  BY DEF upgrade
<1> HIDE DEF phase, tables, indexes, stamp
<1>6. Piece(phase \o tables, UpSeq, 2, 11)
  <2>1. Piece(tables, UpSeq, 2 + 1, 10)  BY <1>3
  <2>2. Piece(phase \o tables, UpSeq, 2, 1 + 10)  BY <1>1, <2>1, JoinPieces
  <2>3. QED BY <2>2
<1>7. Piece((phase \o tables) \o indexes, UpSeq, 2, 15)
  <2>1. Piece(indexes, UpSeq, 2 + 11, 4)  BY <1>4
  <2>2. Piece((phase \o tables) \o indexes, UpSeq, 2, 11 + 4)  BY <1>6, <2>1, JoinPieces
  <2>3. QED BY <2>2
<1>8. QED
  <2>1. Piece(stamp, UpSeq, 2 + 15, 1)  BY <1>2
  <2>2. Piece(upgrade, UpSeq, 2, 15 + 1)  BY <1>5, <1>7, <2>1, JoinPieces
  <2>3. QED BY <2>2

LEMMA UpgradeFromNothingIs == Piece(UpgradeBaseline \o upgrade, UpSeq, 0, 18)
<1>1. Piece(UpgradeBaseline, UpSeq, 0, 2)
  <2>1. /\ UpSeq[1] \in Stmts /\ UpSeq[1] = UpSeq[0 + 1]
        /\ UpSeq[2] \in Stmts /\ UpSeq[2] = UpSeq[0 + 2]
    BY UpSeqType
  <2>2. Piece(<<UpSeq[1], UpSeq[2]>>, UpSeq, 0, 2)  BY <2>1, TwoPieces
  <2>3. UpgradeBaseline = <<UpSeq[1], UpSeq[2]>>
    BY UpAt, Zenon DEF UpgradeBaseline, CreateMissing, Create, Stamp
  <2>4. QED BY <2>2, <2>3, Zenon
<1>2. Piece(upgrade, UpSeq, 0 + 2, 16)  BY UpgradeIs
<1>3. Piece(UpgradeBaseline \o upgrade, UpSeq, 0, 2 + 16)  BY <1>1, <1>2, JoinPieces
<1>4. QED BY <1>3

DownSeq == [k \in 1..17 |-> Down(k)]

LEMMA DownSeqType == \A k \in 1..17 : DownSeq[k] = Down(k) /\ DownSeq[k] \in Stmts
BY DownIsStatement DEF DownSeq

LEMMA DownAt ==
  /\ DownSeq[15] = DropExisting("competition_phase")
  /\ DownSeq[16] = Stamp({"0002"}, {"0001"}) /\ DownSeq[17] = Stamp({"0001"}, {})
BY DownSeqType, OrderIs DEF Down

\* A downgrade to base from head runs the statements of Down.
LEMMA DowngradeIs == Piece(downgrade \o <<Stamp({"0001"}, {})>>, DownSeq, 0, 17)
<1> DEFINE indexes == Each(Reverse(Indexes), Drop)
           tables  == Each(Reverse(Tables), Drop)
           phase   == <<Statement({}, {"competition_phase"}, TRUE), Stamp({"0002"}, {"0001"})>>
           stamp   == <<Stamp({"0001"}, {})>>
<1>1. Piece(indexes, DownSeq, 0, 4)
  <2>1. DOMAIN Reverse(Indexes) = 1..4 /\ \A i \in 1..4 : Reverse(Indexes)[i] = Indexes[5 - i]
    BY DEF Reverse, Indexes
  <2>2. \A i \in 1..4 : Order[18 - i] = Indexes[5 - i]  BY DEF Order
  <2>3. indexes = [i \in 1..4 |-> Drop(Reverse(Indexes)[i])]  BY <2>1 DEF Each
  <2>4. \A i \in 1..4 : Drop(Reverse(Indexes)[i]) = DownSeq[0 + i]
    BY <2>1, <2>2, DownSeqType DEF Down
  <2>5. indexes = [i \in 1..4 |-> DownSeq[0 + i]]  BY <2>3, <2>4
  <2>6. \A i \in 1..4 : DownSeq[0 + i] \in Stmts  BY DownSeqType
  <2>7. Piece([i \in 1..4 |-> DownSeq[0 + i]], DownSeq, 0, 4)  BY <2>6, FunctionPiece
  <2>8. QED BY <2>5, <2>7, Zenon
<1>2. Piece(tables, DownSeq, 4, 10)
  <2>1. DOMAIN Reverse(Tables) = 1..10 /\ \A i \in 1..10 : Reverse(Tables)[i] = Tables[11 - i]
    BY DEF Reverse, Tables
  <2>2. \A i \in 1..10 : Order[18 - (4 + i)] = Tables[11 - i]  BY DEF Order
  <2>3. tables = [i \in 1..10 |-> Drop(Reverse(Tables)[i])]  BY <2>1 DEF Each
  <2>4. \A i \in 1..10 : Drop(Reverse(Tables)[i]) = DownSeq[4 + i]
    BY <2>1, <2>2, DownSeqType DEF Down
  <2>5. tables = [i \in 1..10 |-> DownSeq[4 + i]]  BY <2>3, <2>4
  <2>6. \A i \in 1..10 : DownSeq[4 + i] \in Stmts  BY DownSeqType
  <2>7. Piece([i \in 1..10 |-> DownSeq[4 + i]], DownSeq, 4, 10)  BY <2>6, FunctionPiece
  <2>8. QED BY <2>5, <2>7, Zenon
<1>3. Piece(phase, DownSeq, 14, 2)
  <2>1. /\ DownSeq[15] \in Stmts /\ DownSeq[15] = DownSeq[14 + 1]
        /\ DownSeq[16] \in Stmts /\ DownSeq[16] = DownSeq[14 + 2]
    BY DownSeqType
  <2>2. Piece(<<DownSeq[15], DownSeq[16]>>, DownSeq, 14, 2)  BY <2>1, TwoPieces
  <2>3. QED BY <2>2, DownAt, Zenon DEF DropExisting
<1>4. Piece(stamp, DownSeq, 16, 1)
  <2>1. DownSeq[17] \in Stmts /\ DownSeq[17] = DownSeq[16 + 1]  BY DownSeqType
  <2>2. Piece(<<DownSeq[17]>>, DownSeq, 16, 1)  BY <2>1, OnePiece
  <2>3. QED BY <2>2, DownAt, Zenon
<1>5. downgrade = (indexes \o tables) \o phase  BY DEF downgrade
<1> HIDE DEF indexes, tables, phase, stamp
<1>6. Piece(indexes \o tables, DownSeq, 0, 14)
  <2>1. Piece(tables, DownSeq, 0 + 4, 10)  BY <1>2
  <2>2. Piece(indexes \o tables, DownSeq, 0, 4 + 10)  BY <1>1, <2>1, JoinPieces
  <2>3. QED BY <2>2
<1>7. Piece(downgrade, DownSeq, 0, 16)
  <2>1. Piece(phase, DownSeq, 0 + 14, 2)  BY <1>3
  <2>2. Piece(downgrade, DownSeq, 0, 14 + 2)  BY <1>5, <1>6, <2>1, JoinPieces
  <2>3. QED BY <2>2
<1>8. Piece(downgrade \o stamp, DownSeq, 0, 17)
  <2>1. Piece(stamp, DownSeq, 0 + 16, 1)  BY <1>4
  <2>2. Piece(downgrade \o stamp, DownSeq, 0, 16 + 1)  BY <1>7, <2>1, JoinPieces
  <2>3. QED BY <2>2
<1>9. QED BY <1>8 DEF stamp

-----------------------------------------------------------------------------
(* What each statement does to a schema that is as far as the statement. *)

AllThere(objects) == \A o \in objects : Refers(o) \subseteq objects

LEMMA UpFields ==
  /\ \A k \in 1..17 : /\ UpSeq[k].make = {Order[k]} /\ UpSeq[k].drop = {}
                      /\ UpSeq[k].checkfirst <=> k \in {1, 3}
  /\ UpSeq[18].make = {"0002"} /\ UpSeq[18].drop = {"0001"} /\ ~ UpSeq[18].checkfirst
<1>1. ASSUME NEW k \in 1..17
      PROVE  /\ UpSeq[k].make = {Order[k]} /\ UpSeq[k].drop = {}
             /\ UpSeq[k].checkfirst <=> k \in {1, 3}
  <2>1. CASE k \in {1, 3}
    <3>1. UpSeq[k] = CreateMissing(Order[k])  BY <2>1, UpSeqType DEF Up
    <3>2. QED BY <2>1, <3>1 DEF CreateMissing, Statement
  <2>2. CASE k \notin {1, 3}
    <3>1. UpSeq[k] = Create(Order[k])  BY <2>2, UpSeqType DEF Up
    <3>2. QED BY <2>2, <3>1 DEF Create, Statement
  <2>3. QED BY <2>1, <2>2
<1>2. UpSeq[18].make = {"0002"} /\ UpSeq[18].drop = {"0001"} /\ ~ UpSeq[18].checkfirst
  BY UpAt DEF Stamp, Statement
<1>3. QED BY <1>1, <1>2

LEMMA DownFields ==
  /\ \A k \in 1..15 : /\ DownSeq[k].make = {} /\ DownSeq[k].drop = {Order[18 - k]}
                      /\ DownSeq[k].checkfirst <=> k = 15
  /\ DownSeq[16].make = {"0001"} /\ DownSeq[16].drop = {"0002"} /\ ~ DownSeq[16].checkfirst
  /\ DownSeq[17].make = {} /\ DownSeq[17].drop = {"0001"} /\ ~ DownSeq[17].checkfirst
<1>1. ASSUME NEW k \in 1..15
      PROVE  /\ DownSeq[k].make = {} /\ DownSeq[k].drop = {Order[18 - k]}
             /\ DownSeq[k].checkfirst <=> k = 15
  <2>1. CASE k = 15
    <3>1. DownSeq[k] = DropExisting(Order[18 - k])  BY <2>1, DownSeqType DEF Down
    <3>2. QED BY <2>1, <3>1 DEF DropExisting, Statement
  <2>2. CASE k # 15
    <3>1. DownSeq[k] = Drop(Order[18 - k])  BY <2>2, DownSeqType DEF Down
    <3>2. QED BY <2>2, <3>1 DEF Drop, Statement
  <2>3. QED BY <2>1, <2>2
<1>2. QED BY <1>1, DownAt DEF Stamp, Statement

\* The next object is new, and all that it refers to is there.
LEMMA UpObject ==
  ASSUME NEW k \in 1..17
  PROVE  /\ Order[k] \notin UpTo(k)
         /\ UpTo(k + 1) = UpTo(k) \cup {Order[k]}
         /\ AllThere(UpTo(k + 1))
<1>1. UpTo(k) = {Order[i] : i \in 1..(k - 1)} /\ UpTo(k + 1) = {Order[i] : i \in 1..k}
  BY DEF UpTo
<1>2. Order[k] \notin UpTo(k)  BY <1>1, OrderInjective
<1>3. UpTo(k + 1) = UpTo(k) \cup {Order[k]}  BY <1>1
<1>4. ASSUME NEW o \in UpTo(k + 1) PROVE Refers(o) \subseteq UpTo(k + 1)
  <2>1. PICK i \in 1..k : o = Order[i]  BY <1>1
  <2>2. i \in 1..17 /\ \A j \in 1..(i - 1) : j \in 1..k  BY <2>1
  <2>3. Refers(o) \subseteq {Order[j] : j \in 1..(i - 1)}  BY <2>1, <2>2, OrderTopological
  <2>4. QED BY <1>1, <2>2, <2>3
<1>5. QED BY <1>2, <1>3, <1>4 DEF AllThere

\* The last statement of an upgrade leaves the schema of revision 0002.
LEMMA UpLast ==
  /\ "0002" \notin UpTo(18) /\ "0001" \in UpTo(18)
  /\ UpTo(19) = (UpTo(18) \cup {"0002"}) \ {"0001"}
  /\ AllThere(UpTo(19))
<1>1. UpTo(18) = {Order[i] : i \in 1..17} /\ UpTo(19) = Versioned("0002")  BY DEF UpTo
<1>2. "0002" \notin UpTo(18) /\ "0001" \in UpTo(18)  BY <1>1, HeadIs, OrderIs
<1>3. {Order[i] : i \in 1..17} = {"alembic_version", "0001"} \cup {Order[i] : i \in 3..17}
  BY OrderIs
<1>4. "0001" \notin {Order[i] : i \in 3..17}
  BY OrderInjective, OrderIs
<1>5. UpTo(19) = (UpTo(18) \cup {"0002"}) \ {"0001"}  BY <1>1, <1>3, <1>4, HeadIs
<1>6. ASSUME NEW o \in UpTo(19) PROVE Refers(o) \subseteq UpTo(19)
  <2>1. CASE o \in {"alembic_version", "0002"}
    <3>1. Refers(o) \subseteq {"alembic_version"}  BY <2>1 DEF Refers
    <3>2. QED BY <1>1, <3>1, HeadIs
  <2>2. CASE o \notin {"alembic_version", "0002"}
    <3>1. PICK i \in 3..17 : o = Order[i]  BY <1>1, <2>2, HeadIs
    <3>2. Refers(o) \subseteq {Order[j] : j \in 3..(i - 1)}  BY <3>1, OrderWithoutVersions
    <3>3. \A j \in 3..(i - 1) : j \in 3..17  BY <3>1
    <3>4. QED BY <1>1, <3>2, <3>3, HeadIs
  <2>3. QED BY <2>1, <2>2
<1>7. QED BY <1>2, <1>5, <1>6 DEF AllThere

\* The next object to drop is there, and nothing that is left refers to it.
LEMMA DownObject ==
  ASSUME NEW k \in 1..15
  PROVE  /\ Order[18 - k] \in DownTo(k)
         /\ DownTo(k + 1) = DownTo(k) \ {Order[18 - k]}
         /\ AllThere(DownTo(k + 1))
<1> DEFINE versions == {"alembic_version", "0002"}
           n        == 18 - k
<1>1. n \in 3..17  OBVIOUS
<1>2. /\ DownTo(k) = versions \cup {Order[i] : i \in 3..n}
      /\ DownTo(k + 1) = versions \cup {Order[i] : i \in 3..(n - 1)}
  BY DEF DownTo
<1>3. Order[n] \in DownTo(k)  BY <1>1, <1>2
<1>4. DownTo(k + 1) = DownTo(k) \ {Order[n]}
  <2>1. Order[n] \notin versions  BY <1>1, OrderIs, HeadIs
  <2>2. \A i \in 3..(n - 1) : i \in 1..17 /\ i # n /\ Order[i] # Order[n]
    BY <1>1, OrderInjective
  <2>3. \A i \in 3..n : i = n \/ i \in 3..(n - 1)  BY <1>1
  <2>4. QED BY <1>2, <2>1, <2>2, <2>3
<1>5. ASSUME NEW o \in DownTo(k + 1) PROVE Refers(o) \subseteq DownTo(k + 1)
  <2>1. CASE o \in versions
    <3>1. Refers(o) \subseteq {"alembic_version"}  BY <2>1 DEF Refers
    <3>2. QED BY <1>2, <3>1
  <2>2. CASE o \notin versions
    <3>1. PICK i \in 3..(n - 1) : o = Order[i]  BY <1>2, <2>2
    <3>2. i \in 3..17 /\ \A j \in 3..(i - 1) : j \in 3..(n - 1)  BY <1>1, <3>1
    <3>3. Refers(o) \subseteq {Order[j] : j \in 3..(i - 1)}
      BY <3>1, <3>2, OrderWithoutVersions
    <3>4. QED BY <1>2, <3>2, <3>3
  <2>3. QED BY <2>1, <2>2
<1>6. QED BY <1>3, <1>4, <1>5 DEF AllThere

LEMMA DownLast ==
  /\ "0001" \notin DownTo(16) /\ "0002" \in DownTo(16)
  /\ DownTo(17) = (DownTo(16) \cup {"0001"}) \ {"0002"} /\ AllThere(DownTo(17))
  /\ DownTo(18) = DownTo(17) \ {"0001"} /\ AllThere(DownTo(18))
<1>1. DownTo(16) = {"alembic_version", "0002"}  BY DEF DownTo
<1>2. DownTo(17) = {"alembic_version", "0001"} /\ DownTo(18) = {"alembic_version"}
  BY HeadIs DEF DownTo
<1>3. AllThere(DownTo(17)) /\ AllThere(DownTo(18))  BY <1>2 DEF AllThere, Refers
<1>4. QED BY <1>1, <1>2, <1>3

-----------------------------------------------------------------------------
(* The inductive invariant. *)

HeadSchema == Versioned("0002")

Versions == {{}} \cup {Versioned(v) : v \in Revisions}

Open(p) == pc[p] \in {"migrating", "checked"}

\* The transaction of p is about to run statement k of an upgrade.  Either it is
\* alone to have come that far; or another has upgraded meanwhile, and it has
\* not got to the first table, which it will find made; or nothing was to do.
UpgradingAt(p, k) ==
  /\ Piece(todo[p], UpSeq, k - 1, 19 - k)
  /\ k <= 18 => dropped[p] = {}
  /\ pc[p] = "checked" => k \in {1, 3}
  /\ \/ /\ catalog # HeadSchema
        /\ IF k = 1 THEN Seen(p) \subseteq {"alembic_version"} ELSE Seen(p) = UpTo(k)
        /\ pc[p] = "checked" => Order[k] \notin Seen(p)
        /\ k > 4 => "clubs" \in created[p]
     \/ /\ catalog = HeadSchema
        /\ k <= 4 \/ (k = 19 /\ Seen(p) = HeadSchema)

Upgrading(p) == \E k \in 1..19 : UpgradingAt(p, k)

\* The transaction of p is about to run statement k of a downgrade.
DowngradingAt(p, k) ==
  /\ Piece(todo[p], DownSeq, k - 1, 18 - k)
  /\ Seen(p) = DownTo(k)
  /\ k <= 17 => "0001" \notin dropped[p]
  /\ pc[p] = "checked" => k = 15

Downgrading(p) == \E k \in 1..18 : DowngradingAt(p, k)

\* A container upgrades, and serves over the schema it has upgraded to.
BootOK(p) ==
  /\ pc[p] = "connected" => command[p] = 1
  /\ Open(p) => command[p] = 1 /\ Upgrading(p)
  /\ command[p] = 2 => catalog = HeadSchema
  /\ pc[p] = "serving" => command[p] = 2
  /\ (url \in NeonUrls /\ pc[p] = "failed") => catalog = HeadSchema

BootsInv ==
  /\ \A c \in Checks : pc[c] = "elsewhere"
  /\ \A p \in Boots : BootOK(p)
  /\ \A p, q \in Boots : "clubs" \in created[p] \cap created[q] => p = q

\* What the CI job finds when it starts each of its commands.
Before(n) == IF n = 1 THEN {} ELSE IF n = 2 THEN HeadSchema ELSE Versioned("base")

CheckOK(c) ==
  /\ (pc[c] \in {"start", "connected"} \/ Open(c)) => catalog = Before(command[c])
  /\ Open(c) => IF command[c] = 2 THEN Downgrading(c) ELSE Upgrading(c)
  /\ url \in NeonUrls => pc[c] # "failed"
  /\ pc[c] # "serving"

ChecksInv ==
  /\ \A p \in Boots : pc[p] = "elsewhere"
  /\ \A c \in Checks : CheckOK(c)

StateInv ==
  /\ todo \in [Processes -> Seq(Stmts)]
  /\ created \in [Processes -> SUBSET Objects] /\ dropped \in [Processes -> SUBSET Objects]
  /\ command \in [Processes -> 1..3]
  /\ \A p \in Processes : pc[p] = "checked" => todo[p] # <<>>

\* Every open transaction, of whatever process, has run the statements up to some
\* point of its script and no other, over the schema it found; at most one boot has
\* made the tables.  Either containers boot or the CI job runs, never both.
BootIInv == TypeOK /\ StateInv /\ SchemaIsItsVersion /\ (BootsInv \/ ChecksInv)

-----------------------------------------------------------------------------
(* What one statement does to its transaction. *)

\* Statement k is the next one, and the others follow it.
LEMMA FirstOfPiece ==
  ASSUME NEW f, NEW k \in Nat, NEW n \in Nat, NEW s, k >= 1, n >= 1, Piece(s, f, k - 1, n)
  PROVE  s # <<>> /\ s[1] = f[k] /\ Piece(Tail(s), f, k, n - 1)
<1>1. s \in Seq(Stmts) /\ Len(s) = n /\ \A i \in 1..n : s[i] = f[k - 1 + i]
  BY DEF Piece
<1>2. s # <<>>  BY <1>1
<1>3. /\ Tail(s) \in Seq(Stmts) /\ Len(Tail(s)) = Len(s) - 1
      /\ \A i \in 1..(Len(s) - 1) : Tail(s)[i] = s[i + 1]
  BY <1>1, <1>2
<1>4. ASSUME NEW i \in 1..(n - 1) PROVE Tail(s)[i] = f[k + i]
  <2>1. i + 1 \in 1..n /\ k - 1 + (i + 1) = k + i  OBVIOUS
  <2>2. QED BY <1>1, <1>3, <2>1
<1>5. s[1] = f[k]
  <2>1. 1 \in 1..n /\ k - 1 + 1 = k  OBVIOUS
  <2>2. QED BY <1>1, <2>1
<1>6. QED BY <1>1, <1>2, <1>3, <1>4, <1>5 DEF Piece

\* Only a transaction that has run all its statements has none left.
LEMMA EmptyPiece ==
  ASSUME NEW f, NEW a, NEW n \in Nat, NEW s, Piece(s, f, a, n)
  PROVE  s = <<>> <=> n = 0
BY DEF Piece

\* What p sees after a statement that makes nothing it has dropped.
LEMMA SeenAfter ==
  ASSUME StateInv, NEW p \in Processes, Execute(p), Next1(p).make \cap dropped[p] = {}
  PROVE  Seen(p)' = (Seen(p) \cup Next1(p).make) \ Next1(p).drop
<1>1. /\ created'[p] = (created[p] \cup Next1(p).make) \ Next1(p).drop
      /\ dropped'[p] = dropped[p] \cup Next1(p).drop
      /\ catalog' = catalog
  BY DEF StateInv, Execute
<1>2. Seen(p)' = (catalog \cup created'[p]) \ dropped'[p]  BY <1>1 DEF Seen
<1>3. QED BY <1>1, <1>2 DEF Seen

-----------------------------------------------------------------------------
(* Upgrades. *)

\* The statement that an upgrading transaction runs next.
LEMMA UpNext ==
  ASSUME NEW p \in Processes, NEW k \in 1..19, UpgradingAt(p, k),
         AboutToRun(p) \/ CheckFirst(p)
  PROVE  /\ k \in 1..18
         /\ Next1(p) = UpSeq[k]
         /\ Piece(Tail(todo[p]), UpSeq, k, 18 - k)
         /\ dropped[p] = {}
<1>1. Piece(todo[p], UpSeq, k - 1, 19 - k) /\ (pc[p] = "checked" => k \in {1, 3})
  BY DEF UpgradingAt
<1>2. todo[p] # <<>> \/ pc[p] = "checked"  BY DEF AboutToRun, CheckFirst
<1>3. k # 19
  <2>1. SUFFICES ASSUME k = 19 PROVE FALSE  OBVIOUS
  <2>2. 19 - k \in Nat /\ 19 - k = 0  BY <2>1
  <2>3. todo[p] = <<>>  BY <1>1, <2>2, EmptyPiece
  <2>4. QED BY <1>1, <1>2, <2>1, <2>3
<1>4. 19 - k \in Nat /\ 19 - k >= 1 /\ k \in Nat /\ k >= 1 /\ 19 - k - 1 = 18 - k
  BY <1>3
<1>5. todo[p][1] = UpSeq[k] /\ Piece(Tail(todo[p]), UpSeq, k, 19 - k - 1)
  BY <1>1, <1>4, FirstOfPiece
<1>6. QED BY <1>3, <1>4, <1>5 DEF Next1, UpgradingAt

\* One after a beaten transaction comes to the first table, it cannot go on.
LEMMA HeadHas ==
  /\ "clubs" \in HeadSchema /\ "alembic_version" \in HeadSchema
  /\ "competition_phase" \in HeadSchema /\ "0002" \in HeadSchema
<1>1. Order[4] \in HeadSchema /\ Order[3] \in HeadSchema  BY HeadIs DEF HeadSchema
<1>2. QED BY <1>1, HeadIs, OrderIs DEF HeadSchema

\* A transaction that nobody has beaten comes to each statement with a schema
\* in which it succeeds.
LEMMA UpSucceeds ==
  ASSUME StateInv, NEW p \in Processes, NEW k \in 1..19, UpgradingAt(p, k), AboutToRun(p),
         catalog # HeadSchema
  PROVE  /\ Succeeds(p)
         /\ (Seen(p) \cup Next1(p).make) \ Next1(p).drop = UpTo(k + 1)
<1>1. k \in 1..18 /\ Next1(p) = UpSeq[k] /\ dropped[p] = {}  BY UpNext
<1>2. CASE k = 18
  <2>1. Seen(p) = UpTo(18)  BY <1>2 DEF UpgradingAt
  <2>2. Next1(p).make = {"0002"} /\ Next1(p).drop = {"0001"}  BY <1>1, <1>2, UpFields
  <2>3. QED BY <1>2, <2>1, <2>2, UpLast DEF Succeeds, AllThere
<1>3. CASE k \in 1..17
  <2>1. Next1(p).make = {Order[k]} /\ Next1(p).drop = {}  BY <1>1, <1>3, UpFields
  <2>2. Seen(p) = UpTo(k)
    <3>1. CASE k = 1
      <4>1. Next1(p).checkfirst  BY <1>1, <3>1, UpFields
      <4>2. pc[p] = "checked"  BY <4>1 DEF AboutToRun
      <4>3. Seen(p) \subseteq {"alembic_version"} /\ "alembic_version" \notin Seen(p)
        BY <3>1, <4>2, OrderIs DEF UpgradingAt
      <4>4. QED BY <3>1, <4>3 DEF UpTo
    <3>2. CASE k # 1  BY <3>2 DEF UpgradingAt
    <3>3. QED BY <3>1, <3>2
  <2>3. QED BY <1>3, <2>1, <2>2, UpObject DEF Succeeds, AllThere
<1>4. QED BY <1>1, <1>2, <1>3

LEMMA UpExecutes ==
  ASSUME StateInv, NEW p \in Processes, NEW k \in 1..19, UpgradingAt(p, k), Execute(p),
         DOMAIN pc = Processes
  PROVE  Upgrading(p)'
<1>1. AboutToRun(p) /\ Succeeds(p)  BY DEF Execute
<1>2. /\ k \in 1..18 /\ Next1(p) = UpSeq[k] /\ Piece(Tail(todo[p]), UpSeq, k, 18 - k)
      /\ dropped[p] = {}
  BY <1>1, UpNext
<1>3. /\ todo'[p] = Tail(todo[p]) /\ pc'[p] = "migrating" /\ catalog' = catalog
      /\ created'[p] = (created[p] \cup Next1(p).make) \ Next1(p).drop
      /\ dropped'[p] = dropped[p] \cup Next1(p).drop
  BY DEF StateInv, Execute
<1>4. k + 1 \in 1..19 /\ k = k + 1 - 1 /\ 18 - k = 19 - (k + 1)  BY <1>2
<1>5. Piece(todo'[p], UpSeq, k + 1 - 1, 19 - (k + 1))  BY <1>2, <1>3, <1>4
<1>6. k + 1 <= 18 => dropped'[p] = {}  BY <1>2, <1>3, UpFields
<1>7. CASE catalog # HeadSchema
  <2>1. Seen(p)' = UpTo(k + 1)
    <3>1. Seen(p)' = (Seen(p) \cup Next1(p).make) \ Next1(p).drop  BY <1>2, SeenAfter
    <3>2. QED BY <1>1, <1>7, <3>1, UpSucceeds
  <2>2. k + 1 > 4 => "clubs" \in created'[p]
    <3>1. CASE k = 4
      <4>1. Next1(p).make = {"clubs"} /\ Next1(p).drop = {}  BY <1>2, <3>1, UpFields, OrderIs
      <4>2. QED BY <1>3, <4>1
    <3>2. CASE k > 4
      <4>1. "clubs" \in created[p]  BY <1>7, <3>2 DEF UpgradingAt
      <4>2. Next1(p).drop \subseteq {"0001"}  BY <1>2, UpFields
      <4>3. QED BY <1>3, <4>1, <4>2
    <3>3. QED BY <1>4, <3>1, <3>2
  <2>3. k + 1 # 1  BY <1>4
  <2>4. catalog' # HeadSchema'  BY <1>3, <1>7 DEF HeadSchema
  <2>5. UpgradingAt(p, k + 1)'
    BY <1>3, <1>5, <1>6, <2>1, <2>2, <2>3, <2>4 DEF UpgradingAt
  <2>6. QED BY <1>4, <2>5 DEF Upgrading
<1>8. CASE catalog = HeadSchema
  <2>1. k <= 4  BY <1>2, <1>8 DEF UpgradingAt
  <2>2. k # 4
    <3>1. SUFFICES ASSUME k = 4 PROVE FALSE  OBVIOUS
    <3>2. Next1(p).make = {"clubs"}  BY <1>2, <3>1, UpFields, OrderIs
    <3>3. "clubs" \in Seen(p)  BY <1>2, <1>8, HeadHas DEF Seen
    <3>4. QED BY <1>1, <3>2, <3>3 DEF Succeeds
  <2>3. k + 1 <= 4  BY <2>1, <2>2
  <2>4. catalog' = HeadSchema'  BY <1>3, <1>8 DEF HeadSchema
  <2>5. UpgradingAt(p, k + 1)'  BY <1>3, <1>5, <1>6, <2>3, <2>4 DEF UpgradingAt
  <2>6. QED BY <1>4, <2>5 DEF Upgrading
<1>9. QED BY <1>7, <1>8

\* An object is not made if it is there.
LEMMA UpChecks ==
  ASSUME StateInv, NEW p \in Processes, NEW k \in 1..19, UpgradingAt(p, k), CheckFirst(p),
         DOMAIN pc = Processes
  PROVE  Upgrading(p)'
<1>1. /\ k \in 1..18 /\ Next1(p) = UpSeq[k] /\ Piece(Tail(todo[p]), UpSeq, k, 18 - k)
      /\ dropped[p] = {}
  BY UpNext
<1>2. k \in {1, 3}  BY <1>1, UpFields DEF CheckFirst
<1>3. Next1(p).make = {Order[k]} /\ Next1(p).drop = {}  BY <1>1, <1>2, UpFields
<1>4. /\ catalog' = catalog /\ created' = created /\ dropped' = dropped
      /\ HeadSchema' = HeadSchema
  BY DEF CheckFirst, HeadSchema
<1>5. Seen(p)' = Seen(p)  BY <1>4 DEF Seen
<1>6. CASE Order[k] \notin Seen(p)
  <2>1. pc'[p] = "checked" /\ todo' = todo  BY <1>3, <1>6 DEF CheckFirst
  <2>2. UpgradingAt(p, k)'  BY <1>2, <1>4, <1>5, <1>6, <2>1 DEF UpgradingAt
  <2>3. QED BY <2>2 DEF Upgrading
<1>7. CASE Order[k] \in Seen(p)
  <2>1. pc' = pc /\ todo'[p] = Tail(todo[p]) /\ pc[p] = "migrating"
    BY <1>3, <1>7 DEF CheckFirst, StateInv
  <2>2. k + 1 \in 1..19 /\ k = k + 1 - 1 /\ 18 - k = 19 - (k + 1) /\ k + 1 # 1
    BY <1>1
  <2>3. Piece(todo'[p], UpSeq, k + 1 - 1, 19 - (k + 1))  BY <1>1, <2>1, <2>2
  <2>4. catalog # HeadSchema => Seen(p) = UpTo(k + 1)
    <3>1. SUFFICES ASSUME catalog # HeadSchema PROVE Seen(p) = UpTo(k + 1)  OBVIOUS
    <3>2. k # 3
      <4>1. SUFFICES ASSUME k = 3 PROVE FALSE  OBVIOUS
      <4>2. Seen(p) = UpTo(3)  BY <3>1, <4>1 DEF UpgradingAt
      <4>3. QED BY <1>7, <4>1, <4>2, UpObject
    <3>3. k = 1 /\ Seen(p) \subseteq {"alembic_version"}
      BY <1>2, <3>1, <3>2 DEF UpgradingAt
    <3>4. Seen(p) = {"alembic_version"} /\ UpTo(2) = {"alembic_version"}
      BY <1>7, <3>3, OrderIs DEF UpTo
    <3>5. QED BY <3>3, <3>4
  <2>5. k + 1 <= 4  BY <1>2
  <2>6. UpgradingAt(p, k + 1)'
    BY <1>1, <1>4, <1>5, <2>1, <2>2, <2>3, <2>4, <2>5 DEF UpgradingAt
  <2>7. QED BY <2>2, <2>6 DEF Upgrading
<1>8. QED BY <1>6, <1>7

\* What runs from a revision to head.
LEMMA UpStarts ==
  ASSUME NEW p \in Processes, StateInv, SchemaIsItsVersion, ReadHead(p),
         Commands(p)[command[p]] = "upgrade", created[p] = {}, dropped[p] = {},
         DOMAIN pc = Processes
  PROVE  Upgrading(p)'
<1>1. /\ todo'[p] = Migrations("upgrade") /\ pc'[p] = "migrating"
      /\ catalog' = catalog /\ created' = created /\ dropped' = dropped
      /\ HeadSchema' = HeadSchema
  BY DEF StateInv, ReadHead, HeadSchema
<1>2. Seen(p)' = catalog  BY <1>1 DEF Seen
<1>3. "0002" \notin Versioned("base") /\ "0001" \notin Versioned("base")
  BY DEF Versioned
<1>4. "0001" \in Versioned("0001") /\ "0002" \notin Versioned("0001")
  BY DEF Versioned
<1>5. catalog = {} \/ catalog = Versioned("base") \/ catalog = Versioned("0001")
      \/ catalog = HeadSchema
  BY DEF SchemaIsItsVersion, Revisions, HeadSchema
<1>6. CASE catalog = {} \/ catalog = Versioned("base")
  <2>1. Revision = "base"  BY <1>3, <1>6 DEF Revision
  <2>2. Migrations("upgrade") = UpgradeBaseline \o upgrade  BY <2>1 DEF Migrations
  <2>3. Piece(todo'[p], UpSeq, 1 - 1, 19 - 1)
    <3>1. Piece(todo'[p], UpSeq, 0, 18)  BY <1>1, <2>2, UpgradeFromNothingIs, Zenon
    <3>2. QED BY <3>1
  <2>4. catalog \subseteq {"alembic_version"} /\ catalog # HeadSchema
    BY <1>6, HeadIs, HeadHas
  <2>5. UpgradingAt(p, 1)'  BY <1>1, <1>2, <2>3, <2>4 DEF UpgradingAt
  <2>6. QED BY <2>5 DEF Upgrading
<1>7. CASE catalog = Versioned("0001")
  <2>1. Revision = "0001"  BY <1>4, <1>7 DEF Revision
  <2>2. Migrations("upgrade") = upgrade  BY <2>1 DEF Migrations
  <2>3. Piece(todo'[p], UpSeq, 3 - 1, 19 - 3)  BY <1>1, <2>2, UpgradeIs
  <2>4. catalog # HeadSchema  BY <1>4, <1>7, HeadHas
  <2>5. UpTo(3) = {Order[i] : i \in 1..2}  BY DEF UpTo
  <2>6. catalog = UpTo(3)  BY <1>7, <2>5, HeadIs, OrderIs
  <2>7. UpgradingAt(p, 3)'  BY <1>1, <1>2, <2>3, <2>4, <2>6 DEF UpgradingAt
  <2>8. QED BY <2>7 DEF Upgrading
<1>8. CASE catalog = HeadSchema
  <2>1. Revision = "0002"  BY <1>8, HeadHas DEF Revision
  <2>2. Migrations("upgrade") = <<>>  BY <2>1 DEF Migrations
  <2>3. Piece(<<>>, UpSeq, 18, 0)  BY DEF Piece
  <2>4. Piece(todo'[p], UpSeq, 19 - 1, 19 - 19)  BY <1>1, <2>2, <2>3
  <2>5. UpgradingAt(p, 19)'  BY <1>1, <1>2, <1>8, <2>4 DEF UpgradingAt
  <2>6. QED BY <2>5 DEF Upgrading
<1>9. QED BY <1>5, <1>6, <1>7, <1>8

\* What is committed is the whole upgrade.
LEMMA UpCommits ==
  ASSUME NEW p \in Processes, Upgrading(p), todo[p] = <<>>
  PROVE  Seen(p) = HeadSchema /\ (catalog # HeadSchema => "clubs" \in created[p])
<1>1. PICK k \in 1..19 : UpgradingAt(p, k)  BY DEF Upgrading
<1>2. k = 19
  <2>1. Piece(todo[p], UpSeq, k - 1, 19 - k) /\ 19 - k \in Nat  BY <1>1 DEF UpgradingAt
  <2>2. 19 - k = 0  BY <2>1, EmptyPiece
  <2>3. QED BY <2>2
<1>3. QED BY <1>1, <1>2 DEF UpgradingAt, UpTo, HeadSchema

\* Another commits the schema of head, or none: p is as far as it was.
LEMMA UpBeaten ==
  ASSUME NEW p \in Processes, Upgrading(p),
         todo'[p] = todo[p], created'[p] = created[p], dropped'[p] = dropped[p],
         pc'[p] = pc[p],
         catalog' = catalog \/ (catalog' = HeadSchema /\ "clubs" \notin created[p])
  PROVE  Upgrading(p)'
<1>1. PICK k \in 1..19 : UpgradingAt(p, k)  BY DEF Upgrading
<1>2. HeadSchema' = HeadSchema  BY DEF HeadSchema
<1>3. CASE catalog' = catalog
  <2>1. Seen(p)' = Seen(p)  BY <1>3 DEF Seen
  <2>2. UpgradingAt(p, k)'  BY <1>1, <1>2, <1>3, <2>1 DEF UpgradingAt
  <2>3. QED BY <2>2 DEF Upgrading
<1>4. CASE catalog # HeadSchema /\ catalog' = HeadSchema /\ "clubs" \notin created[p]
  <2>1. k <= 4  BY <1>1, <1>4 DEF UpgradingAt
  <2>2. UpgradingAt(p, k)'  BY <1>1, <1>2, <1>4, <2>1 DEF UpgradingAt
  <2>3. QED BY <2>2 DEF Upgrading
<1>5. QED BY <1>3, <1>4

-----------------------------------------------------------------------------
(* Downgrades. *)

LEMMA DownNext ==
  ASSUME NEW p \in Processes, NEW k \in 1..18, DowngradingAt(p, k),
         AboutToRun(p) \/ CheckFirst(p)
  PROVE  /\ k \in 1..17
         /\ Next1(p) = DownSeq[k]
         /\ Piece(Tail(todo[p]), DownSeq, k, 17 - k)
         /\ "0001" \notin dropped[p]
<1>1. Piece(todo[p], DownSeq, k - 1, 18 - k) /\ (pc[p] = "checked" => k = 15)
  BY DEF DowngradingAt
<1>2. todo[p] # <<>> \/ pc[p] = "checked"  BY DEF AboutToRun, CheckFirst
<1>3. k # 18
  <2>1. SUFFICES ASSUME k = 18 PROVE FALSE  OBVIOUS
  <2>2. 18 - k \in Nat /\ 18 - k = 0  BY <2>1
  <2>3. todo[p] = <<>>  BY <1>1, <2>2, EmptyPiece
  <2>4. QED BY <1>1, <1>2, <2>1, <2>3
<1>4. 18 - k \in Nat /\ 18 - k >= 1 /\ k \in Nat /\ k >= 1 /\ 18 - k - 1 = 17 - k
  BY <1>3
<1>5. todo[p][1] = DownSeq[k] /\ Piece(Tail(todo[p]), DownSeq, k, 18 - k - 1)
  BY <1>1, <1>4, FirstOfPiece
<1>6. QED BY <1>3, <1>4, <1>5 DEF Next1, DowngradingAt

\* Every object that a downgrade drops is there, and may go.
LEMMA DownSucceeds ==
  ASSUME StateInv, NEW p \in Processes, NEW k \in 1..18, DowngradingAt(p, k),
         AboutToRun(p) \/ CheckFirst(p)
  PROVE  /\ Succeeds(p)
         /\ (Seen(p) \cup Next1(p).make) \ Next1(p).drop = DownTo(k + 1)
<1>1. k \in 1..17 /\ Next1(p) = DownSeq[k]  BY DownNext
<1>2. Seen(p) = DownTo(k)  BY DEF DowngradingAt
<1>3. CASE k \in 1..15
  <2>1. Next1(p).make = {} /\ Next1(p).drop = {Order[18 - k]}  BY <1>1, <1>3, DownFields
  <2>2. QED BY <1>2, <1>3, <2>1, DownObject DEF Succeeds, AllThere
<1>4. CASE k = 16
  <2>1. Next1(p).make = {"0001"} /\ Next1(p).drop = {"0002"}  BY <1>1, <1>4, DownFields
  <2>2. QED BY <1>2, <1>4, <2>1, DownLast DEF Succeeds, AllThere
<1>5. CASE k = 17
  <2>1. Next1(p).make = {} /\ Next1(p).drop = {"0001"}  BY <1>1, <1>5, DownFields
  <2>2. "0001" \in DownTo(17)  BY DownLast
  <2>3. QED BY <1>2, <1>5, <2>1, <2>2, DownLast DEF Succeeds, AllThere
<1>6. QED BY <1>1, <1>3, <1>4, <1>5

LEMMA DownExecutes ==
  ASSUME StateInv, NEW p \in Processes, NEW k \in 1..18, DowngradingAt(p, k), Execute(p),
         DOMAIN pc = Processes
  PROVE  Downgrading(p)'
<1>1. AboutToRun(p)  BY DEF Execute
<1>2. /\ k \in 1..17 /\ Next1(p) = DownSeq[k] /\ Piece(Tail(todo[p]), DownSeq, k, 17 - k)
      /\ "0001" \notin dropped[p]
  BY <1>1, DownNext
<1>3. /\ todo'[p] = Tail(todo[p]) /\ pc'[p] = "migrating"
      /\ dropped'[p] = dropped[p] \cup Next1(p).drop
  BY DEF StateInv, Execute
<1>4. k + 1 \in 1..18 /\ k = k + 1 - 1 /\ 17 - k = 18 - (k + 1)  BY <1>2
<1>5. Piece(todo'[p], DownSeq, k + 1 - 1, 18 - (k + 1))  BY <1>2, <1>3, <1>4
<1>6. Next1(p).make \cap dropped[p] = {}
  <2>1. Next1(p).make \subseteq {"0001"}  BY <1>2, DownFields
  <2>2. QED BY <1>2, <2>1
<1>7. Seen(p)' = DownTo(k + 1)
  <2>1. Seen(p)' = (Seen(p) \cup Next1(p).make) \ Next1(p).drop  BY <1>6, SeenAfter
  <2>2. QED BY <1>1, <2>1, DownSucceeds
<1>8. k + 1 <= 17 => "0001" \notin dropped'[p]
  <2>1. SUFFICES ASSUME k \in 1..16 PROVE "0001" \notin Next1(p).drop  BY <1>2, <1>3
  <2>2. CASE k = 16  BY <1>2, <2>2, DownFields
  <2>3. CASE k \in 1..15
    <3>1. Next1(p).drop = {Order[18 - k]}  BY <1>2, <2>3, DownFields
    <3>2. 18 - k \in 1..17 /\ 18 - k # 2 /\ 2 \in 1..17  BY <2>3
    <3>3. Order[18 - k] # "0001"  BY <3>2, OrderInjective, OrderIs
    <3>4. QED BY <3>1, <3>3
  <2>4. QED BY <2>1, <2>2, <2>3
<1>9. DowngradingAt(p, k + 1)'  BY <1>3, <1>5, <1>7, <1>8 DEF DowngradingAt
<1>10. QED BY <1>4, <1>9 DEF Downgrading

LEMMA DownChecks ==
  ASSUME StateInv, NEW p \in Processes, NEW k \in 1..18, DowngradingAt(p, k), CheckFirst(p),
         DOMAIN pc = Processes
  PROVE  Downgrading(p)'
<1>1. k \in 1..17 /\ Next1(p) = DownSeq[k]  BY DownNext
<1>2. k = 15  BY <1>1, DownFields DEF CheckFirst
<1>3. Succeeds(p)  BY DownSucceeds
<1>4. pc'[p] = "checked" /\ todo' = todo /\ dropped' = dropped /\ catalog' = catalog
      /\ created' = created
  BY <1>3 DEF CheckFirst, Succeeds
<1>5. Seen(p)' = Seen(p)  BY <1>4 DEF Seen
<1>6. DowngradingAt(p, k)'  BY <1>2, <1>4, <1>5 DEF DowngradingAt
<1>7. QED BY <1>6 DEF Downgrading

LEMMA DownStarts ==
  ASSUME NEW p \in Processes, StateInv, ReadHead(p), catalog = HeadSchema,
         Commands(p)[command[p]] = "downgrade", created[p] = {}, dropped[p] = {},
         DOMAIN pc = Processes
  PROVE  Downgrading(p)'
<1>1. /\ todo'[p] = Migrations("downgrade") /\ pc'[p] = "migrating"
      /\ catalog' = catalog /\ created' = created /\ dropped' = dropped
  BY DEF StateInv, ReadHead
<1>2. Seen(p)' = catalog  BY <1>1 DEF Seen
<1>3. Revision = "0002"  BY HeadHas DEF Revision
<1>4. Migrations("downgrade") = downgrade \o <<Stamp({"0001"}, {})>>
  <2>1. Revision # "0001" /\ Revision # "base" /\ "upgrade" # "downgrade"  BY <1>3
  <2>2. QED BY <1>3, <2>1, Zenon DEF Migrations
<1>5. Piece(todo'[p], DownSeq, 1 - 1, 18 - 1)
  <2>1. Piece(todo'[p], DownSeq, 0, 17)  BY <1>1, <1>4, DowngradeIs, Zenon
  <2>2. QED BY <2>1
<1>6. catalog = DownTo(1)  BY HeadIs DEF DownTo, HeadSchema
<1>7. DowngradingAt(p, 1)'  BY <1>1, <1>2, <1>5, <1>6 DEF DowngradingAt
<1>8. QED BY <1>7 DEF Downgrading

LEMMA DownCommits ==
  ASSUME NEW p \in Processes, Downgrading(p), todo[p] = <<>>
  PROVE  Seen(p) = Versioned("base")
<1>1. PICK k \in 1..18 : DowngradingAt(p, k)  BY DEF Downgrading
<1>2. k = 18
  <2>1. Piece(todo[p], DownSeq, k - 1, 18 - k) /\ 18 - k \in Nat  BY <1>1 DEF DowngradingAt
  <2>2. 18 - k = 0  BY <2>1, EmptyPiece
  <2>3. QED BY <2>2
<1>3. QED BY <1>1, <1>2 DEF DowngradingAt, DownTo

-----------------------------------------------------------------------------
(* The types. *)

LEMMA BootCommands ==
  ASSUME NEW p \in Boots
  PROVE  /\ Commands(p) = <<"upgrade", "serve">>
         /\ DOMAIN Commands(p) = 1..2 /\ Len(Commands(p)) = 2
         /\ Commands(p)[1] = "upgrade" /\ Commands(p)[2] = "serve"
<1>1. Commands(p) = <<"upgrade", "serve">>  BY DEF Commands
<1>2. QED BY <1>1

LEMMA CheckCommands ==
  ASSUME NEW p \in Processes, p \notin Boots
  PROVE  /\ Commands(p) = <<"upgrade", "downgrade", "upgrade">>
         /\ DOMAIN Commands(p) = 1..3 /\ Len(Commands(p)) = 3
         /\ Commands(p)[1] = "upgrade" /\ Commands(p)[2] = "downgrade"
         /\ Commands(p)[3] = "upgrade"
<1>1. Commands(p) = <<"upgrade", "downgrade", "upgrade">>  BY DEF Commands
<1>2. QED BY <1>1

LEMMA CommandsAre ==
  ASSUME NEW p \in Processes
  PROVE  DOMAIN Commands(p) = 1..Len(Commands(p)) /\ Len(Commands(p)) \in 2..3
<1>1. CASE p \in Boots  BY <1>1, BootCommands
<1>2. CASE p \notin Boots  BY <1>2, CheckCommands
<1>3. QED BY <1>1, <1>2

LEMMA MigrationsType == ASSUME NEW c PROVE Migrations(c) \in Seq(Stmts)
<1>1. UpgradeBaseline \o upgrade \in Seq(Stmts)  BY UpgradeFromNothingIs, Zenon DEF Piece
<1>2. upgrade \in Seq(Stmts)  BY UpgradeIs, Zenon DEF Piece
<1>3. downgrade \o <<Stamp({"0001"}, {})>> \in Seq(Stmts)  BY DowngradeIs, Zenon DEF Piece
<1>4. <<Stamp({"0001"}, {})>> \in Seq(Stmts)
  <2>1. DownSeq[17] \in Stmts  BY DownSeqType
  <2>2. <<DownSeq[17]>> \in Seq(Stmts)  BY <2>1
  <2>3. QED BY <2>2, DownAt, Zenon
<1>5. <<>> \in Seq(Stmts)  OBVIOUS
<1>6. QED BY <1>1, <1>2, <1>3, <1>4, <1>5, Zenon DEF Migrations

\* The end of a transaction keeps the types.
LEMMA StopTypes ==
  ASSUME TypeOK, StateInv, NEW p \in Processes,
         NEW how \in {"start", "failed", "crashed", "done"}, Stop(p, how),
         url' = url, catalog' \subseteq Objects, crashes' \in 0..MaxCrashes,
         command' \in [Processes -> 1..3], command'[p] \in DOMAIN Commands(p),
         \A q \in Processes : q # p => command'[q] = command[q]
  PROVE  TypeOK' /\ StateInv'
<1>1. /\ pc' = [pc EXCEPT ![p] = how] /\ todo' = [todo EXCEPT ![p] = <<>>]
      /\ created' = [created EXCEPT ![p] = {}] /\ dropped' = [dropped EXCEPT ![p] = {}]
  BY DEF Stop
<1>2. StateInv'  BY <1>1 DEF StateInv, TypeOK
<1>3. TypeOK'
  <2>1. pc' \in [Processes -> {"elsewhere", "start", "connected", "migrating", "checked",
                               "failed", "crashed", "serving", "done"}]
    BY <1>1 DEF TypeOK
  <2>2. ASSUME NEW q \in Processes
        PROVE  /\ command'[q] \in DOMAIN Commands(q)
               /\ created'[q] \cup dropped'[q] \subseteq Objects
               /\ pc'[q] \notin {"migrating", "checked"} =>
                    created'[q] = {} /\ dropped'[q] = {} /\ todo'[q] = <<>>
    BY <1>1 DEF TypeOK, StateInv
  <2>3. QED BY <2>1, <2>2 DEF TypeOK, Commands
<1>4. QED BY <1>2, <1>3

\* The statement that is about to run is one, of known objects.
LEMMA NextIsStatement ==
  ASSUME StateInv, NEW p \in Processes, AboutToRun(p) \/ CheckFirst(p)
  PROVE  Next1(p) \in Stmts /\ Tail(todo[p]) \in Seq(Stmts)
<1>1. todo[p] \in Seq(Stmts) /\ todo[p] # <<>>
  BY DEF StateInv, AboutToRun, CheckFirst
<1>2. QED BY <1>1 DEF Next1

LEMMA TypedStart ==
  ASSUME TypeOK, StateInv, NEW p \in Processes,
         Start(p) \/ ReadHead(p) \/ Serve(p) \/ Restart(p)
  PROVE  TypeOK' /\ StateInv'
<1>1. CASE Start(p)  BY <1>1 DEF Start, TypeOK, StateInv
<1>2. CASE ReadHead(p)
  <2>1. Migrations(Commands(p)[command[p]]) \in Seq(Stmts)  BY MigrationsType
  <2>2. QED BY <1>2, <2>1 DEF ReadHead, TypeOK, StateInv
<1>3. CASE Serve(p)  BY <1>3 DEF Serve, TypeOK, StateInv
<1>4. CASE Restart(p)
  <2>1. 1 \in DOMAIN Commands(p)  BY CommandsAre
  <2>2. QED BY <1>4, <2>1 DEF Restart, TypeOK, StateInv
<1>5. QED BY <1>1, <1>2, <1>3, <1>4

LEMMA TypedStatement ==
  ASSUME TypeOK, StateInv, NEW p \in Processes,
         CheckFirst(p) \/ Execute(p) \/ ExecuteFails(p)
  PROVE  TypeOK' /\ StateInv'
<1>1. CASE CheckFirst(p)
  <2>1. Tail(todo[p]) \in Seq(Stmts)  BY <1>1, NextIsStatement
  <2>2. CASE pc' = [pc EXCEPT ![p] = "checked"] /\ todo' = todo
    BY <1>1, <2>2 DEF CheckFirst, TypeOK, StateInv
  <2>3. CASE todo' = [todo EXCEPT ![p] = Tail(@)] /\ pc' = pc
    BY <1>1, <2>1, <2>3 DEF CheckFirst, TypeOK, StateInv
  <2>4. QED BY <1>1, <2>2, <2>3 DEF CheckFirst
<1>2. CASE Execute(p)
  <2>1. Tail(todo[p]) \in Seq(Stmts) /\ Next1(p) \in Stmts
    BY <1>2, NextIsStatement DEF Execute
  <2>2. /\ Next1(p).make \subseteq Objects /\ Next1(p).drop \subseteq Objects
    BY <2>1 DEF Stmts
  <2>3. QED BY <1>2, <2>1, <2>2 DEF Execute, TypeOK, StateInv
<1>3. CASE ExecuteFails(p)
  <2>1. Stop(p, "failed") /\ UNCHANGED <<url, catalog, command, crashes>>
    BY <1>3 DEF ExecuteFails
  <2>2. /\ url' = url /\ catalog' \subseteq Objects /\ crashes' \in 0..MaxCrashes
        /\ command' \in [Processes -> 1..3] /\ command'[p] \in DOMAIN Commands(p)
        /\ \A q \in Processes : q # p => command'[q] = command[q]
    BY <2>1 DEF TypeOK, StateInv
  <2>3. QED BY <2>1, <2>2, StopTypes
<1>4. QED BY <1>1, <1>2, <1>3

LEMMA TypedEnd ==
  ASSUME TypeOK, StateInv, NEW p \in Processes,
         Commit(p) \/ CommitUnheard(p) \/ Crash(p)
  PROVE  TypeOK' /\ StateInv'
<1>1. MaxCrashes \in Nat  BY BootAssumption
<1>2. url' = url /\ catalog' \subseteq Objects /\ crashes' \in 0..MaxCrashes
  <2>1. catalog' = catalog \/ catalog' = Seen(p)  BY DEF Commit, CommitUnheard, Crash
  <2>2. Seen(p) \subseteq Objects  BY DEF Seen, TypeOK
  <2>3. crashes' = crashes \/ (crashes' = crashes + 1 /\ crashes < MaxCrashes)
    BY DEF Commit, CommitUnheard, Crash
  <2>4. QED BY <1>1, <2>1, <2>2, <2>3 DEF TypeOK, Commit, CommitUnheard, Crash
<1>3. /\ command' \in [Processes -> 1..3] /\ command'[p] \in DOMAIN Commands(p)
      /\ \A q \in Processes : q # p => command'[q] = command[q]
  <2>1. CASE command' = command  BY <2>1 DEF TypeOK, StateInv
  <2>2. CASE command' = [command EXCEPT ![p] = @ + 1] /\ command[p] < Len(Commands(p))
    <3>1. Len(Commands(p)) \in 2..3 /\ DOMAIN Commands(p) = 1..Len(Commands(p))
      BY CommandsAre
    <3>2. command[p] \in 1..3  BY DEF StateInv
    <3>3. command[p] + 1 \in 1..Len(Commands(p)) /\ command[p] + 1 \in 1..3
      BY <2>2, <3>1, <3>2
    <3>4. QED BY <2>2, <3>1, <3>3 DEF StateInv
  <2>3. QED BY <2>1, <2>2 DEF Commit, CommitUnheard, Crash
<1>4. Stop(p, "start") \/ Stop(p, "done") \/ Stop(p, "crashed")
  BY DEF Commit, CommitUnheard, Crash
<1>5. QED BY <1>2, <1>3, <1>4, StopTypes

LEMMA TypedNext ==
  ASSUME TypeOK, StateInv, [Next]_vars
  PROVE  TypeOK' /\ StateInv'
<1>1. ASSUME NEW p \in Processes, Step(p) \/ Crash(p) \/ CommitUnheard(p)
      PROVE  TypeOK' /\ StateInv'
  <2>1. CASE Start(p) \/ ReadHead(p) \/ Serve(p) \/ Restart(p)  BY <2>1, TypedStart
  <2>2. CASE CheckFirst(p) \/ Execute(p) \/ ExecuteFails(p)  BY <2>2, TypedStatement
  <2>3. CASE Commit(p) \/ CommitUnheard(p) \/ Crash(p)  BY <2>3, TypedEnd
  <2>4. QED BY <1>1, <2>1, <2>2, <2>3, Zenon DEF Step
<1>2. CASE UNCHANGED vars  BY <1>2 DEF vars, TypeOK, StateInv
<1>3. QED BY <1>1, <1>2, Zenon DEF Next

-----------------------------------------------------------------------------
(* The steps of a process, and what they are to the others. *)

\* The URL of a dashboard is made into one that connects.
LEMMA NeonUrlConnects ==
  url \in NeonUrls => SetMainOption(to_asyncpg_url(url)) /\ Connects(to_asyncpg_url(url))
<1>1. SUFFICES ASSUME url \in NeonUrls
               PROVE  SetMainOption(to_asyncpg_url(url)) /\ Connects(to_asyncpg_url(url))
  OBVIOUS
<1>2. /\ url.scheme \in {"postgresql", "postgresql+asyncpg"} /\ ~ url.percent
      /\ url.params \subseteq LibpqOnly \cup Keywords
  BY <1>1 DEF NeonUrls
<1>3. "options" \notin url.params  BY <1>2 DEF LibpqOnly, Keywords
<1>4. /\ to_asyncpg_url(url).scheme = "postgresql+asyncpg"
      /\ to_asyncpg_url(url).params = url.params \ LibpqOnly
  BY <1>2 DEF to_asyncpg_url
<1>5. ~ to_asyncpg_url(url).percent  BY <1>2, <1>3, Zenon DEF to_asyncpg_url
<1>6. QED BY <1>2, <1>4, <1>5 DEF SetMainOption, Connects

Untouched(q) ==
  /\ pc'[q] = pc[q] /\ todo'[q] = todo[q] /\ command'[q] = command[q]
  /\ created'[q] = created[q] /\ dropped'[q] = dropped[q]

\* Every variable but the catalog and the crashes has a part for each process.
LEMMA OthersUntouched ==
  ASSUME TypeOK, StateInv, NEW p \in Processes, NEW q \in Processes, q # p,
         Step(p) \/ Crash(p) \/ CommitUnheard(p)
  PROVE  Untouched(q) /\ url' = url
BY DEF Step, Start, ReadHead, CheckFirst, Execute, ExecuteFails, Commit, Serve, Restart,
       Crash, CommitUnheard, Stop, Untouched, TypeOK, StateInv

LEMMA OnlyCommits ==
  ASSUME NEW p \in Processes, Step(p) \/ Crash(p) \/ CommitUnheard(p)
  PROVE  catalog' = catalog \/ (catalog' = Seen(p) /\ pc[p] = "migrating" /\ todo[p] = <<>>)
BY DEF Step, Start, ReadHead, CheckFirst, Execute, ExecuteFails, Commit, Serve, Restart,
       Crash, CommitUnheard

\* Only an open transaction has objects of its own.
LEMMA OwnObjects ==
  ASSUME TypeOK, NEW p \in Processes, created[p] # {} \/ dropped[p] # {}
  PROVE  Open(p)
BY DEF TypeOK, Open

\* What has no part in the system stays out of it.
LEMMA ElsewhereStays ==
  ASSUME NEW p \in Processes, pc[p] = "elsewhere"
  PROVE  ~ (Step(p) \/ Crash(p) \/ CommitUnheard(p))
BY DEF Step, Start, ReadHead, CheckFirst, Execute, ExecuteFails, AboutToRun, Commit, Serve,
       Restart, Crash, CommitUnheard

-----------------------------------------------------------------------------
(* Boots. *)

LEMMA BootKept ==
  ASSUME NEW q \in Processes, BootOK(q), Untouched(q), url' = url,
         catalog' = catalog \/ (catalog' = HeadSchema /\ "clubs" \notin created[q])
  PROVE  BootOK(q)'
<1>1. HeadSchema' = HeadSchema  BY DEF HeadSchema
<1>2. Open(q)' <=> Open(q)  BY DEF Open, Untouched
<1>3. Upgrading(q) => Upgrading(q)'  BY UpBeaten DEF Untouched
<1>4. QED BY <1>1, <1>2, <1>3 DEF BootOK, Untouched

LEMMA BootCommits ==
  ASSUME NEW p \in Boots, BootOK(p), Step(p) \/ Crash(p) \/ CommitUnheard(p)
  PROVE  \/ catalog' = catalog
         \/ catalog' = HeadSchema /\ catalog # HeadSchema /\ "clubs" \in created[p]
<1>1. p \in Processes  BY DEF Processes
<1>2. catalog' = catalog \/ (catalog' = Seen(p) /\ pc[p] = "migrating" /\ todo[p] = <<>>)
  BY <1>1, OnlyCommits
<1>3. CASE catalog' = Seen(p) /\ pc[p] = "migrating" /\ todo[p] = <<>>
  <2>1. Upgrading(p)  BY <1>3 DEF BootOK, Open
  <2>2. QED BY <1>1, <1>3, <2>1, UpCommits
<1>4. QED BY <1>2, <1>3

LEMMA BootMoves ==
  ASSUME TypeOK, StateInv, SchemaIsItsVersion, NEW p \in Boots, BootOK(p),
         Step(p) \/ Crash(p) \/ CommitUnheard(p)
  PROVE  BootOK(p)'
<1>1. p \in Processes /\ HeadSchema' = HeadSchema /\ DOMAIN pc = Processes
  BY DEF Processes, HeadSchema, TypeOK
<1>2. /\ command[p] \in 1..2 /\ Len(Commands(p)) = 2
      /\ Commands(p)[1] = "upgrade" /\ Commands(p)[2] = "serve"
  BY <1>1, BootCommands DEF TypeOK
<1>3. CASE Start(p)
  <2>1. command[p] = 1  BY <1>2, <1>3 DEF Start
  <2>2. /\ url' = url /\ command' = command
        /\ pc'[p] = "connected" \/ (pc'[p] = "failed" /\ url \notin NeonUrls)
    BY <1>1, <1>3, NeonUrlConnects DEF Start
  <2>3. QED BY <2>1, <2>2 DEF BootOK, Open
<1>4. CASE ReadHead(p)
  <2>1. command[p] = 1 /\ created[p] = {} /\ dropped[p] = {}
    BY <1>1, <1>4 DEF ReadHead, BootOK, TypeOK
  <2>2. Upgrading(p)'  BY <1>1, <1>2, <1>4, <2>1, UpStarts
  <2>3. pc'[p] = "migrating" /\ command' = command  BY <1>1, <1>4 DEF ReadHead
  <2>4. QED BY <2>1, <2>2, <2>3 DEF BootOK, Open
<1>5. CASE CheckFirst(p) \/ Execute(p)
  <2>1. Open(p)  BY <1>5 DEF CheckFirst, Execute, AboutToRun, Open
  <2>2. command[p] = 1 /\ Upgrading(p)  BY <2>1 DEF BootOK
  <2>3. PICK k \in 1..19 : UpgradingAt(p, k)  BY <2>2 DEF Upgrading
  <2>4. Upgrading(p)'  BY <1>1, <1>5, <2>3, UpChecks, UpExecutes
  <2>5. pc'[p] \in {"migrating", "checked"} /\ command' = command
    BY <1>1, <1>5, <2>1 DEF CheckFirst, Execute, Open
  <2>6. QED BY <2>2, <2>4, <2>5 DEF BootOK, Open
<1>6. CASE ExecuteFails(p)
  <2>1. AboutToRun(p) /\ ~ Succeeds(p)  BY <1>6 DEF ExecuteFails
  <2>2. command[p] = 1 /\ Upgrading(p)  BY <2>1 DEF AboutToRun, Open, BootOK
  <2>3. PICK k \in 1..19 : UpgradingAt(p, k)  BY <2>2 DEF Upgrading
  <2>4. catalog = HeadSchema  BY <1>1, <2>1, <2>3, UpSucceeds
  <2>5. pc'[p] = "failed" /\ catalog' = catalog /\ command' = command
    BY <1>1, <1>6 DEF ExecuteFails, Stop
  <2>6. QED BY <1>1, <2>2, <2>4, <2>5 DEF BootOK, Open
<1>7. CASE Commit(p)
  <2>1. Open(p) /\ todo[p] = <<>> /\ catalog' = Seen(p)  BY <1>7 DEF Commit, Open
  <2>2. command[p] = 1 /\ catalog' = HeadSchema  BY <1>1, <2>1, UpCommits DEF BootOK
  <2>3. pc'[p] = "start"  BY <1>1, <1>2, <1>7, <2>2 DEF Commit, Stop
  <2>4. QED BY <1>1, <2>2, <2>3 DEF BootOK, Open
<1>8. CASE CommitUnheard(p)
  <2>1. Open(p)  BY <1>8 DEF CommitUnheard, Open
  <2>2. command[p] = 1  BY <2>1 DEF BootOK
  <2>3. pc'[p] = "crashed" /\ command' = command  BY <1>1, <1>8 DEF CommitUnheard, Stop
  <2>4. QED BY <2>2, <2>3 DEF BootOK, Open
<1>9. CASE Serve(p)
  <2>1. command[p] = 2  BY <1>2, <1>9 DEF Serve
  <2>2. pc'[p] = "serving" /\ command' = command /\ catalog' = catalog
    BY <1>1, <1>9 DEF Serve
  <2>3. QED BY <1>1, <2>1, <2>2 DEF BootOK, Open
<1>10. CASE Restart(p)
  <2>1. pc'[p] = "start" /\ command'[p] = 1  BY <1>1, <1>10 DEF Restart, StateInv
  <2>2. QED BY <2>1 DEF BootOK, Open
<1>11. CASE Crash(p)
  <2>1. pc'[p] = "crashed" /\ command' = command /\ catalog' = catalog
    BY <1>1, <1>11 DEF Crash, Stop
  <2>2. QED BY <1>1, <2>1 DEF BootOK, Open
<1>12. QED
  BY <1>3, <1>4, <1>5, <1>6, <1>7, <1>8, <1>9, <1>10, <1>11, Zenon DEF Step

LEMMA ClubsMade ==
  ASSUME StateInv, NEW p \in Processes, Step(p) \/ Crash(p) \/ CommitUnheard(p),
         "clubs" \in created'[p]
  PROVE  "clubs" \in created[p] \/ (Execute(p) /\ "clubs" \in Next1(p).make)
<1>1. CASE Execute(p)
  <2>1. created'[p] = (created[p] \cup Next1(p).make) \ Next1(p).drop
    BY <1>1 DEF Execute, StateInv
  <2>2. QED BY <1>1, <2>1
<1>2. CASE ~ Execute(p)
  <2>1. created'[p] = created[p] \/ created'[p] = {}
    BY <1>2 DEF Step, Start, ReadHead, CheckFirst, ExecuteFails, Commit, Serve, Restart,
                Crash, CommitUnheard, Stop, StateInv
  <2>2. QED BY <2>1
<1>3. QED BY <1>1, <1>2

LEMMA BootsNext ==
  ASSUME TypeOK, StateInv, SchemaIsItsVersion, BootsInv,
         NEW p \in Processes, Step(p) \/ Crash(p) \/ CommitUnheard(p)
  PROVE  BootsInv' /\ SchemaIsItsVersion'
<1>1. p \in Boots  BY ElsewhereStays DEF BootsInv, Processes
<1>2. \A q \in Processes : q # p => Untouched(q) /\ url' = url  BY OthersUntouched
<1>3. \/ catalog' = catalog
      \/ catalog' = HeadSchema /\ catalog # HeadSchema /\ "clubs" \in created[p]
  BY <1>1, BootCommits DEF BootsInv
<1>4. ASSUME NEW c \in Checks PROVE pc'[c] = "elsewhere"
  <2>1. c # p /\ c \in Processes  BY <1>1, BootAssumption DEF BootAssumption, Processes
  <2>2. Untouched(c)  BY <1>2, <2>1
  <2>3. QED BY <2>2 DEF Untouched, BootsInv
<1>5. ASSUME NEW q \in Boots PROVE BootOK(q)'
  <2>1. BootOK(q) /\ q \in Processes  BY DEF BootsInv, Processes
  <2>2. CASE q = p  BY <1>1, <2>1, <2>2, BootMoves
  <2>3. CASE q # p
    <3>1. "clubs" \in created[p] => "clubs" \notin created[q]
      BY <1>1, <2>3 DEF BootsInv
    <3>2. QED BY <1>2, <1>3, <2>1, <2>3, <3>1, BootKept
  <2>4. QED BY <2>2, <2>3
<1>6. ASSUME NEW q \in Boots, q # p, "clubs" \in created'[p], "clubs" \in created'[q]
      PROVE  FALSE
  <2>1. "clubs" \in created[q] /\ q \in Processes
    BY <1>2, <1>6 DEF Untouched, Processes
  <2>2. "clubs" \notin created[p]  BY <1>1, <1>6, <2>1 DEF BootsInv
  <2>3. Execute(p) /\ "clubs" \in Next1(p).make  BY <1>6, <2>2, ClubsMade
  <2>4. Waits(p)  BY <1>6, <2>1, <2>3 DEF Waits
  <2>5. QED BY <2>3, <2>4 DEF Execute, AboutToRun
<1>7. ASSUME NEW q \in Boots, NEW r \in Boots, "clubs" \in created'[q] \cap created'[r]
      PROVE  q = r
  <2>1. CASE q = p  BY <1>6, <1>7, <2>1
  <2>2. CASE r = p  BY <1>6, <1>7, <2>2
  <2>3. CASE q # p /\ r # p
    <3>1. created'[q] = created[q] /\ created'[r] = created[r]
      BY <1>2, <2>3 DEF Untouched, Processes
    <3>2. QED BY <1>7, <3>1 DEF BootsInv
  <2>4. QED BY <2>1, <2>2, <2>3
<1>8. BootsInv'  BY <1>4, <1>5, <1>7 DEF BootsInv
<1>9. SchemaIsItsVersion'
  <2>1. catalog' = catalog \/ catalog' = Versioned("0002")  BY <1>3 DEF HeadSchema
  <2>2. QED BY <2>1 DEF SchemaIsItsVersion, Revisions
<1>10. QED BY <1>8, <1>9

-----------------------------------------------------------------------------
(* The CI job. *)

LEMMA BeforeIs ==
  /\ Before(1) = {} /\ Before(2) = HeadSchema /\ Before(3) = Versioned("base")
  /\ {} # HeadSchema /\ Versioned("base") # HeadSchema
<1>1. "clubs" \notin Versioned("base")  BY HeadIs
<1>2. QED BY <1>1, HeadHas DEF Before

LEMMA CheckMoves ==
  ASSUME TypeOK, StateInv, SchemaIsItsVersion, NEW c \in Checks, CheckOK(c),
         Step(c) \/ Crash(c) \/ CommitUnheard(c)
  PROVE  CheckOK(c)' /\ SchemaIsItsVersion'
<1>1. /\ c \in Processes /\ c \notin Boots /\ HeadSchema' = HeadSchema /\ DOMAIN pc = Processes
      /\ DOMAIN command = Processes
  BY BootAssumption DEF BootAssumption, Processes, HeadSchema, TypeOK, StateInv
<1>2. /\ command[c] \in 1..3 /\ Len(Commands(c)) = 3
      /\ Commands(c)[1] = "upgrade" /\ Commands(c)[2] = "downgrade"
      /\ Commands(c)[3] = "upgrade"
  BY <1>1, CheckCommands DEF StateInv
<1>3. (pc[c] \in {"start", "connected"} \/ Open(c)) =>
        /\ catalog = Before(command[c])
        /\ command[c] # 2 => catalog # HeadSchema
        /\ command[c] = 2 => catalog = HeadSchema
  <2>1. SUFFICES ASSUME catalog = Before(command[c])
                 PROVE  /\ command[c] # 2 => catalog # HeadSchema
                        /\ command[c] = 2 => catalog = HeadSchema
    BY DEF CheckOK
  <2>2. command[c] = 1 \/ command[c] = 2 \/ command[c] = 3  BY <1>2
  <2>3. QED BY <2>1, <2>2, BeforeIs
<1>4. Commands(c)[command[c]] = IF command[c] = 2 THEN "downgrade" ELSE "upgrade"
  <2>1. command[c] = 1 \/ command[c] = 2 \/ command[c] = 3  BY <1>2
  <2>2. QED BY <1>2, <2>1
<1>5. catalog' = catalog => SchemaIsItsVersion'  BY DEF SchemaIsItsVersion
<1>6. CASE Start(c)
  <2>1. /\ url' = url /\ command' = command /\ catalog' = catalog /\ pc[c] = "start"
        /\ pc'[c] = "connected" \/ (pc'[c] = "failed" /\ url \notin NeonUrls)
    BY <1>1, <1>6, NeonUrlConnects DEF Start
  <2>2. catalog' = Before(command'[c])  BY <1>3, <2>1
  <2>3. QED BY <1>5, <2>1, <2>2 DEF CheckOK, Open
<1>7. CASE ReadHead(c)
  <2>1. /\ pc[c] = "connected" /\ pc'[c] = "migrating" /\ command' = command
        /\ catalog' = catalog
    BY <1>1, <1>7 DEF ReadHead
  <2>2. created[c] = {} /\ dropped[c] = {}  BY <1>1, <2>1 DEF TypeOK
  <2>3. IF command[c] = 2 THEN Downgrading(c)' ELSE Upgrading(c)'
    BY <1>1, <1>3, <1>4, <1>7, <2>1, <2>2, UpStarts, DownStarts
  <2>4. catalog' = Before(command'[c])  BY <1>3, <2>1
  <2>5. QED BY <1>5, <2>1, <2>3, <2>4 DEF CheckOK, Open
<1>8. CASE CheckFirst(c) \/ Execute(c)
  <2>1. Open(c)  BY <1>8 DEF CheckFirst, Execute, AboutToRun, Open
  <2>2. IF command[c] = 2 THEN Downgrading(c) ELSE Upgrading(c)  BY <2>1 DEF CheckOK
  <2>3. pc'[c] \in {"migrating", "checked"} /\ command' = command /\ catalog' = catalog
    BY <1>1, <1>8, <2>1 DEF CheckFirst, Execute, Open
  <2>4. CASE command[c] = 2
    <3>1. PICK k \in 1..18 : DowngradingAt(c, k)  BY <2>2, <2>4 DEF Downgrading
    <3>2. Downgrading(c)'  BY <1>1, <1>8, <3>1, DownChecks, DownExecutes
    <3>3. QED BY <1>3, <1>5, <2>1, <2>3, <2>4, <3>2 DEF CheckOK, Open
  <2>5. CASE command[c] # 2
    <3>1. PICK k \in 1..19 : UpgradingAt(c, k)  BY <2>2, <2>5 DEF Upgrading
    <3>2. Upgrading(c)'  BY <1>1, <1>8, <3>1, UpChecks, UpExecutes
    <3>3. QED BY <1>3, <1>5, <2>1, <2>3, <2>5, <3>2 DEF CheckOK, Open
  <2>6. QED BY <2>4, <2>5
<1>9. ~ ExecuteFails(c)
  <2>1. SUFFICES ASSUME AboutToRun(c), ~ Succeeds(c) PROVE FALSE  BY DEF ExecuteFails
  <2>2. Open(c)  BY <2>1 DEF AboutToRun, Open
  <2>3. IF command[c] = 2 THEN Downgrading(c) ELSE Upgrading(c)  BY <2>2 DEF CheckOK
  <2>4. CASE command[c] = 2
    <3>1. PICK k \in 1..18 : DowngradingAt(c, k)  BY <2>3, <2>4 DEF Downgrading
    <3>2. QED BY <1>1, <2>1, <3>1, DownSucceeds
  <2>5. CASE command[c] # 2
    <3>1. PICK k \in 1..19 : UpgradingAt(c, k)  BY <2>3, <2>5 DEF Upgrading
    <3>2. QED BY <1>1, <1>3, <2>1, <2>2, <2>5, <3>1, UpSucceeds
  <2>6. QED BY <2>4, <2>5
<1>10. ASSUME Commit(c) \/ CommitUnheard(c)
       PROVE  /\ catalog' = IF command[c] = 2 THEN Versioned("base") ELSE HeadSchema
              /\ SchemaIsItsVersion'
  <2>1. Open(c) /\ todo[c] = <<>> /\ catalog' = Seen(c)
    BY <1>10 DEF Commit, CommitUnheard, Open
  <2>2. IF command[c] = 2 THEN Downgrading(c) ELSE Upgrading(c)  BY <2>1 DEF CheckOK
  <2>3. catalog' = IF command[c] = 2 THEN Versioned("base") ELSE HeadSchema
    BY <1>1, <2>1, <2>2, UpCommits, DownCommits
  <2>4. QED BY <2>3 DEF SchemaIsItsVersion, Revisions, HeadSchema
<1>11. CASE Commit(c)
  <2>1. /\ \/ command[c] < 3 /\ pc'[c] = "start" /\ command'[c] = command[c] + 1
           \/ command[c] = 3 /\ pc'[c] = "done"
        /\ url' = url
    BY <1>1, <1>2, <1>11 DEF Commit, Stop
  <2>2. pc'[c] = "start" => catalog' = Before(command'[c])
    <3>1. SUFFICES ASSUME pc'[c] = "start" PROVE catalog' = Before(command'[c])  OBVIOUS
    <3>2. \/ command[c] = 1 /\ command'[c] = 2
          \/ command[c] = 2 /\ command'[c] = 3
      BY <1>2, <2>1, <3>1
    <3>3. QED BY <1>10, <1>11, <3>2, BeforeIs
  <2>3. QED BY <1>10, <1>11, <2>1, <2>2 DEF CheckOK, Open
<1>12. CASE CommitUnheard(c) \/ Crash(c)
  <2>1. pc'[c] = "crashed" /\ url' = url  BY <1>1, <1>12 DEF CommitUnheard, Crash, Stop
  <2>2. CheckOK(c)'  BY <2>1 DEF CheckOK, Open
  <2>3. SchemaIsItsVersion'
    <3>1. CASE CommitUnheard(c)  BY <1>10, <3>1
    <3>2. CASE Crash(c)  BY <1>5, <3>2 DEF Crash
    <3>3. QED BY <1>12, <3>1, <3>2
  <2>4. QED BY <2>2, <2>3
<1>13. ~ Serve(c)  BY <1>4 DEF Serve
<1>14. ~ Restart(c)  BY <1>1 DEF Restart
<1>15. QED
  BY <1>6, <1>7, <1>8, <1>9, <1>11, <1>12, <1>13, <1>14, Zenon DEF Step

LEMMA ChecksNext ==
  ASSUME TypeOK, StateInv, SchemaIsItsVersion, ChecksInv,
         NEW p \in Processes, Step(p) \/ Crash(p) \/ CommitUnheard(p)
  PROVE  ChecksInv' /\ SchemaIsItsVersion'
<1>1. p \in Checks  BY ElsewhereStays DEF ChecksInv, Processes
<1>2. \A c \in Checks : c = p  BY <1>1, BootAssumption DEF BootAssumption
<1>3. CheckOK(p)' /\ SchemaIsItsVersion'  BY <1>1, CheckMoves DEF ChecksInv
<1>4. ASSUME NEW q \in Boots PROVE pc'[q] = "elsewhere"
  <2>1. q # p /\ q \in Processes  BY <1>1, BootAssumption DEF BootAssumption, Processes
  <2>2. Untouched(q)  BY <2>1, OthersUntouched
  <2>3. QED BY <2>2 DEF Untouched, ChecksInv
<1>5. \A c \in Checks : CheckOK(c)'  BY <1>2, <1>3
<1>6. QED BY <1>3, <1>4, <1>5 DEF ChecksInv

-----------------------------------------------------------------------------
(* The theorems. *)

LEMMA BootInit ==
  ASSUME Init
  PROVE  BootIInv
<1>1. PICK running \in {Boots, Checks} :
        /\ pc = [p \in Processes |-> IF p \in running THEN "start" ELSE "elsewhere"]
        /\ catalog \in IF running = Boots THEN {{}} \cup {Versioned(v) : v \in Revisions}
                       ELSE {{}}
  BY DEF Init
<1>2. /\ command = [p \in Processes |-> 1] /\ todo = [p \in Processes |-> <<>>]
      /\ created = [p \in Processes |-> {}] /\ dropped = [p \in Processes |-> {}]
      /\ crashes = 0 /\ url \in UrlsTried
  BY DEF Init
<1>3. SchemaIsItsVersion  BY <1>1 DEF SchemaIsItsVersion
<1>4. StateInv
  <2>1. <<>> \in Seq(Stmts)  OBVIOUS
  <2>2. \A p \in Processes : pc[p] # "checked"  BY <1>1
  <2>3. QED BY <1>2, <2>1, <2>2 DEF StateInv
<1>5. TypeOK
  <2>1. catalog \subseteq Objects
    <3>1. \A v \in Revisions : Versioned(v) \subseteq Objects  BY DEF Objects
    <3>2. QED BY <1>3, <3>1 DEF SchemaIsItsVersion
  <2>2. \A p \in Processes : 1 \in DOMAIN Commands(p)  BY CommandsAre
  <2>3. crashes \in 0..MaxCrashes  BY <1>2, BootAssumption DEF BootAssumption
  <2>4. pc \in [Processes -> {"elsewhere", "start", "connected", "migrating", "checked",
                              "failed", "crashed", "serving", "done"}]
    BY <1>1
  <2>5. QED BY <1>2, <2>1, <2>2, <2>3, <2>4 DEF TypeOK
<1>6. CASE running = Boots
  <2>1. \A c \in Checks : pc[c] = "elsewhere"
    BY <1>1, <1>6, BootAssumption DEF BootAssumption, Processes
  <2>2. \A p \in Boots : BootOK(p)  BY <1>1, <1>2, <1>6 DEF BootOK, Open, Processes
  <2>3. BootsInv  BY <1>2, <2>1, <2>2 DEF BootsInv, Processes
  <2>4. QED BY <1>3, <1>4, <1>5, <2>3 DEF BootIInv
<1>7. CASE running = Checks /\ running # Boots
  <2>1. \A p \in Boots : pc[p] = "elsewhere"
    BY <1>1, <1>7, BootAssumption DEF BootAssumption, Processes
  <2>2. catalog = {} /\ Before(1) = {}  BY <1>1, <1>7, BeforeIs
  <2>3. \A c \in Checks : CheckOK(c)
    BY <1>1, <1>2, <1>7, <2>2 DEF CheckOK, Open, Processes
  <2>4. ChecksInv  BY <2>1, <2>3 DEF ChecksInv
  <2>5. QED BY <1>3, <1>4, <1>5, <2>4 DEF BootIInv
<1>8. QED BY <1>6, <1>7

LEMMA BootNext ==
  ASSUME BootIInv, [Next]_vars
  PROVE  BootIInv'
<1>1. TypeOK /\ StateInv /\ SchemaIsItsVersion /\ (BootsInv \/ ChecksInv)  BY DEF BootIInv
<1>2. TypeOK' /\ StateInv'  BY <1>1, TypedNext
<1>3. ASSUME NEW p \in Processes, Step(p) \/ Crash(p) \/ CommitUnheard(p)
      PROVE  (BootsInv' \/ ChecksInv') /\ SchemaIsItsVersion'
  BY <1>1, <1>3, BootsNext, ChecksNext
<1>4. CASE UNCHANGED vars
  <2>1. /\ url' = url /\ catalog' = catalog /\ HeadSchema' = HeadSchema
        /\ \A p \in Processes : Untouched(p)
    BY <1>4 DEF vars, Untouched, HeadSchema
  <2>2. SchemaIsItsVersion'  BY <1>1, <2>1 DEF SchemaIsItsVersion
  <2>3. CASE BootsInv
    <3>1. \A p \in Boots : BootOK(p)'  BY <2>1, <2>3, BootKept DEF BootsInv, Processes
    <3>2. BootsInv'  BY <1>4, <2>3, <3>1 DEF BootsInv, vars
    <3>3. QED BY <1>2, <2>2, <3>2 DEF BootIInv
  <2>4. CASE ChecksInv
    <3>1. ASSUME NEW c \in Checks PROVE CheckOK(c)'
      <4>1. CheckOK(c)  BY <2>4 DEF ChecksInv
      <4>2. Downgrading(c)' <=> Downgrading(c)
        BY <1>4 DEF vars, Downgrading, DowngradingAt, Seen
      <4>3. Upgrading(c)' <=> Upgrading(c)
        BY <1>4, <2>1 DEF vars, Upgrading, UpgradingAt, Seen
      <4>4. QED BY <1>4, <4>1, <4>2, <4>3 DEF CheckOK, Open, vars
    <3>2. ChecksInv'  BY <1>4, <2>4, <3>1 DEF ChecksInv, vars
    <3>3. QED BY <1>2, <2>2, <3>2 DEF BootIInv
  <2>5. QED BY <1>1, <2>3, <2>4
<1>5. QED BY <1>2, <1>3, <1>4, Zenon DEF Next, BootIInv

\* However containers race, crash and restart, and however often the CI job migrates up and
\* down, every transaction is at some statement of its revision over a whole schema.
THEOREM BootInvariant == Spec => []BootIInv
<1>1. Init => BootIInv  BY BootInit
<1>2. BootIInv /\ [Next]_vars => BootIInv'  BY BootNext
<1>3. QED BY <1>1, <1>2, PTL DEF Spec

\* Every variable keeps to its type, and only an open transaction holds objects.
THEOREM TypeOKAlways == Spec => []TypeOK
<1>1. BootIInv => TypeOK  BY DEF BootIInv
<1>2. QED BY <1>1, BootInvariant, PTL

\* Containers that boot at once, crash, fail and start again never leave a schema
\* that is between two revisions.
THEOREM SchemaIsItsVersionAlways == Spec => []SchemaIsItsVersion
<1>1. BootIInv => SchemaIsItsVersion  BY DEF BootIInv
<1>2. QED BY <1>1, BootInvariant, PTL

\* uvicorn runs over the schema of head only.
THEOREM ServesOnlyMigratedAlways == Spec => []ServesOnlyMigrated
<1>1. ASSUME BootIInv, NEW p \in Processes, pc[p] = "serving"
      PROVE  catalog = Versioned("0002")
  BY <1>1 DEF BootIInv, BootsInv, ChecksInv, BootOK, CheckOK, Processes, HeadSchema
<1>2. BootIInv => ServesOnlyMigrated  BY <1>1 DEF ServesOnlyMigrated
<1>3. QED BY <1>2, BootInvariant, PTL

\* A boot that fails on a dashboard URL was beaten to head by another.
THEOREM FailuresAreRacesAlways == Spec => []FailuresAreRaces
<1>1. ASSUME BootIInv, url \in NeonUrls, NEW p \in Boots, pc[p] = "failed"
      PROVE  catalog = Versioned("0002")
  BY <1>1 DEF BootIInv, BootsInv, ChecksInv, BootOK, HeadSchema
<1>2. BootIInv => FailuresAreRaces  BY <1>1 DEF FailuresAreRaces
<1>3. QED BY <1>2, BootInvariant, PTL

\* Up, down and up again never stumbles over what the one before has left.
THEOREM RoundTripsAlways == Spec => []RoundTrips
<1>1. ASSUME BootIInv, url \in NeonUrls, NEW c \in Checks
      PROVE  pc[c] # "failed"
  BY <1>1 DEF BootIInv, BootsInv, ChecksInv, CheckOK
<1>2. BootIInv => RoundTrips  BY <1>1 DEF RoundTrips
<1>3. QED BY <1>2, BootInvariant, PTL
===============================================================================
