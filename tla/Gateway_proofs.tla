--------------------------- MODULE Gateway_proofs ---------------------------
(***************************************************************************)
(* The theorems about Gateway, for any tabs, users, symbols, connections   *)
(* and limits.                                                             *)
(***************************************************************************)
EXTENDS Gateway, FiniteSetTheorems, SequenceTheorems, WellFoundedInduction,
        TLAPS

(* What holds of a connection by itself.                                   *)
Sane(c) ==
  /\ Stage(c) # "unused" => conn[c].tab \in Tab
  /\ Stage(c) = "auth" => c \notin disconnected /\ conn[c].subs = {}
  /\ c \in registered => Stage(c) = "served" /\ c \notin disconnected
  /\ Stage(c) = "served" /\ c \notin registered =>
       /\ c \in disconnected
       /\ Link(c) \in {"ended", "gone"} /\ conn[c].inbox = <<>>
  /\ c \in leaked => Link(c) = "gone"
  /\ c \in registered /\ Link(c) = "gone" => c \in leaked

Counted ==
  \A u \in User : online[u] = Cardinality({c \in registered : UserAt(c) = u})

Indexed ==
  \A s \in Symbol : bySymbol[s] = {c \in registered : s \in conn[c].subs}

IInv ==
  /\ TypeOK
  /\ Counted /\ Indexed
  /\ \A c \in Conn : Sane(c)

(* The types of what the server does not keep.                             *)
OtherTypes ==
  /\ socket \in [Tab -> Conn \cup {None}]
  /\ desired \in [Tab -> SUBSET Symbol] /\ shown \in [Tab -> Position]
  /\ book \in [User -> Position]
  /\ opening \subseteq {u \in User : book[u] = "open"}
  /\ truncated \subseteq Conn /\ overtaken \subseteq Conn
  /\ untold \subseteq Conn
  /\ breaks \in 0..MaxBreaks /\ toggles \in 0..MaxToggles
  /\ trades \in 0..MaxTrades

-----------------------------------------------------------------------------

(* A link may be empty.                                                    *)
LEMMA NoFrames == <<>> \in Seq(Frame) /\ <<>> \in Seq(Position)
OBVIOUS

(* Whoever connected has a user.                                           *)
LEMMA UserAtType ==
  ASSUME IInv, NEW c \in Conn, Stage(c) # "unused"
  PROVE  UserAt(c) \in User
BY OwnerAssumption DEF IInv, Sane, UserAt

(* A connection that became k is the same to the server.                   *)
Like(d, k) ==
  /\ k.tab = conn[d].tab /\ k.stage = conn[d].stage /\ k.subs = conn[d].subs
  /\ conn[d].link = "gone" <=> k.link = "gone"
  /\ conn[d].link \in {"ended", "gone"} =>
       /\ k.link \in {"ended", "gone"}
       /\ conn[d].inbox = <<>> => k.inbox = <<>>

(* Connections change, but not what the server keeps of them.              *)
LEMMA ConnsStep ==
  ASSUME IInv, OtherTypes', conn' \in [Conn -> Connection],
         \A d \in Conn : Like(d, conn'[d]),
         UNCHANGED <<server, leaked>>
  PROVE  IInv'
<1>1. /\ registered' = registered /\ disconnected' = disconnected
      /\ bySymbol' = bySymbol /\ online' = online /\ leaked' = leaked
  BY DEF server
<1>2. TypeOK'
  BY <1>1 DEF IInv, TypeOK, OtherTypes
<1>3. \A d \in Conn : conn'[d].tab = conn[d].tab /\ conn'[d].subs = conn[d].subs
  BY DEF Like
<1>4. Counted'
  <2>1. \A d \in registered : UserAt(d)' = UserAt(d)
    BY <1>3 DEF UserAt, IInv, TypeOK
  <2>2. \A u \in User : {d \in registered : UserAt(d) = u}'
                          = {d \in registered : UserAt(d) = u}
    BY <1>1, <2>1
  <2> QED
    BY <1>1, <2>2 DEF IInv, Counted
<1>5. Indexed'
  <2>1. \A d \in registered : d \in Conn
    BY DEF IInv, TypeOK
  <2> QED
    BY <1>1, <1>3, <2>1 DEF IInv, Indexed
<1>6. \A d \in Conn : Sane(d)'
  BY <1>1 DEF IInv, Sane, Stage, Link, Like
<1> QED
  BY <1>2, <1>4, <1>5, <1>6 DEF IInv

(* The same for one connection.                                            *)
LEMMA ConnStep ==
  ASSUME IInv, OtherTypes', NEW c \in Conn, NEW k \in Connection,
         conn' = [conn EXCEPT ![c] = k], Like(c, k),
         UNCHANGED <<server, leaked>>
  PROVE  IInv'
<1>1. conn' \in [Conn -> Connection]
  BY DEF IInv, TypeOK
<1>2. \A d \in Conn : Like(d, conn'[d])
  BY DEF Like, IInv, TypeOK
<1> QED
  BY <1>1, <1>2, ConnsStep

(* What OnGone does for a registered connection.                           *)
LEMMA Forgotten ==
  ASSUME IInv, NEW c \in registered, OnGone(c), conn'[c].tab = conn[c].tab,
         \A d \in Conn : d # c => conn'[d] = conn[d]
  PROVE  /\ disconnected' = disconnected \cup {c}
         /\ registered' = registered \ {c}
         /\ bySymbol' \in [Symbol -> SUBSET Conn]
         /\ online' \in [User -> Nat]
         /\ Counted' /\ Indexed'
<1>1. /\ c \in Conn /\ c \notin disconnected /\ Stage(c) = "served"
      /\ registered \subseteq Conn
  BY DEF IInv, TypeOK, Sane
<1>2. /\ disconnected' = disconnected \cup {c}
      /\ registered' = registered \ {c}
      /\ bySymbol' = Unindexed(c)
      /\ online' = [online EXCEPT ![UserAt(c)] = IF @ <= 1 THEN 0 ELSE @ - 1]
  BY <1>1 DEF OnGone, ClientDisconnected
<1>3. bySymbol' \in [Symbol -> SUBSET Conn]
  BY <1>2 DEF Unindexed, IInv, TypeOK
<1>4. PICK v \in User : v = UserAt(c)
  BY <1>1, UserAtType
<1>5. online' \in [User -> Nat]
  BY <1>2, <1>4 DEF IInv, TypeOK
<1>6. \A d \in registered \ {c} : conn'[d] = conn[d]
  BY <1>1
<1>7. Indexed'
  BY <1>2, <1>6 DEF Unindexed, IInv, TypeOK, Indexed
<1>8. Counted'
  <2> SUFFICES ASSUME NEW u \in User
               PROVE  online'[u] =
                        Cardinality({d \in registered' : UserAt(d)' = u})
    BY DEF Counted
  <2> DEFINE S == {d \in registered : UserAt(d) = u}
  <2>1. {d \in registered' : UserAt(d)' = u} = S \ {c}
    BY <1>2, <1>6 DEF UserAt
  <2>2. IsFiniteSet(S)
    <3>1. IsFiniteSet(Conn)
      BY FS_Interval, BoundAssumption DEF Conn
    <3> QED
      BY <1>1, <3>1, FS_Subset
  <2>3. online[u] = Cardinality(S) /\ Cardinality(S) \in Nat
    BY <2>2, FS_CardinalityType DEF IInv, Counted
  <2>4. Cardinality(S \ {c}) =
          IF c \in S THEN Cardinality(S) - 1 ELSE Cardinality(S)
    BY <2>2, FS_RemoveElement
  <2>5. CASE u = v
    <3>1. c \in S
      BY <1>4, <2>5
    <3>2. Cardinality(S) # 0
      BY <2>2, <3>1, FS_EmptySet
    <3>3. online'[u] = online[u] - 1
      BY <1>2, <1>4, <2>3, <2>5, <3>2 DEF IInv, TypeOK
    <3> QED
      BY <2>1, <2>3, <2>4, <3>1, <3>3
  <2>6. CASE u # v
    <3>1. c \notin S
      BY <1>4, <2>6
    <3>2. online'[u] = online[u]
      BY <1>2, <1>4, <2>6 DEF IInv, TypeOK
    <3> QED
      BY <2>1, <2>3, <2>4, <3>1, <3>2
  <2> QED
    BY <2>5, <2>6
<1> QED
  BY <1>2, <1>3, <1>5, <1>7, <1>8

(* The error or close event of a connection that was served.               *)
LEMMA GoneStep ==
  ASSUME IInv, OtherTypes', NEW c \in Conn, NEW k \in Connection,
         conn' = [conn EXCEPT ![c] = k], OnGone(c), leaked' = leaked,
         Stage(c) = "served", Link(c) # "gone",
         k.tab = conn[c].tab, k.stage = "served", k.inbox = <<>>,
         k.link \in {"ended", "gone"}
  PROVE  IInv'
<1>1. conn'[c] = k /\ \A d \in Conn : d # c => conn'[d] = conn[d]
  BY DEF IInv, TypeOK
<1>2. c \notin leaked /\ c \in registered \cup disconnected
  BY DEF IInv, Sane
<1>3. /\ registered' = registered \ {c}
      /\ disconnected' = disconnected \cup {c}
      /\ bySymbol' \in [Symbol -> SUBSET Conn]
      /\ online' \in [User -> Nat]
      /\ Counted' /\ Indexed'
  <2>1. CASE c \in registered
    BY <1>1, <2>1, Forgotten
  <2>2. CASE c \notin registered
    <3>1. /\ registered' = registered /\ disconnected' = disconnected
          /\ bySymbol' = bySymbol /\ online' = online
      BY <1>2, <2>2 DEF OnGone, server
    <3>2. \A d \in registered : conn'[d] = conn[d]
      BY <1>1, <2>2 DEF IInv, TypeOK
    <3>3. Indexed'
      BY <3>1, <3>2 DEF IInv, Indexed
    <3>4. Counted'
      <4>1. \A u \in User : {d \in registered : UserAt(d) = u}'
                              = {d \in registered : UserAt(d) = u}
        BY <3>1, <3>2 DEF UserAt
      <4> QED
        BY <3>1, <4>1 DEF IInv, Counted
    <3> QED
      BY <1>2, <2>2, <3>1, <3>3, <3>4 DEF IInv, TypeOK
  <2> QED
    BY <2>1, <2>2
<1>4. TypeOK'
  BY <1>1, <1>2, <1>3 DEF IInv, TypeOK, OtherTypes
<1>5. \A d \in Conn : Sane(d)'
  <2>1. Sane(c)'
    BY <1>1, <1>2, <1>3 DEF IInv, Sane, Stage, Link
  <2>2. ASSUME NEW d \in Conn, d # c PROVE Sane(d)'
    BY <1>1, <1>3, <2>2 DEF IInv, Sane, Stage, Link
  <2> QED
    BY <2>1, <2>2
<1> QED
  BY <1>3, <1>4, <1>5 DEF IInv

-----------------------------------------------------------------------------
(* Commands.                                                               *)

(* k and index are what became of a connection that is served, and of the  *)
(* index.                                                                  *)
Keeps(c, k, index) ==
  /\ k.stage = "served" /\ k.tab = conn[c].tab
  /\ \/ k.link = conn[c].link
     \/ conn[c].link # "gone" /\ k.link = "ended"
  /\ \A s \in Symbol :
       index[s] = IF s \in k.subs THEN bySymbol[s] \cup {c}
                                  ELSE bySymbol[s] \ {c}

Serves(c, at) ==
  \E k \in Connection, index \in [Symbol -> SUBSET Conn] :
    at = [k |-> k, index |-> index] /\ Keeps(c, k, index)

(* A command leaves its connection served and the index in step with it.   *)
LEMMA HandleServes ==
  ASSUME IInv, NEW c \in Conn, Stage(c) # "unused",
         NEW at, Serves(c, at), NEW f \in Frame
  PROVE  Serves(c, Handle(at, c, f))
<1>0. PICK k \in Connection, index \in [Symbol -> SUBSET Conn] :
        at = [k |-> k, index |-> index] /\ Keeps(c, k, index)
  BY DEF Serves
<1>1. PICK p \in Position : p = book[UserAt(c)]
  BY UserAtType DEF IInv, TypeOK
<1>2. CASE f.type = "account_subscribe"
  <2> DEFINE j == [k EXCEPT !.account = TRUE, !.read = p]
  <2>1. Handle(at, c, f) = [k |-> j, index |-> index]
    BY <1>0, <1>1, <1>2 DEF Handle
  <2>2. /\ j \in Connection /\ j.subs = k.subs
        /\ j.tab = k.tab /\ j.stage = k.stage /\ j.link = k.link
    BY DEF Connection
  <2> HIDE DEF j
  <2>3. Keeps(c, j, index)
    BY <1>0, <2>2 DEF Keeps
  <2> QED
    BY <2>1, <2>2, <2>3 DEF Serves
<1>3. CASE f.type = "unsubscribe"
  <2> DEFINE j == [k EXCEPT !.subs = @ \ {f.symbol}]
             after == [index EXCEPT ![f.symbol] = @ \ {c}]
  <2>1. f.symbol \in Symbol
    BY <1>3 DEF Frame
  <2>2. Handle(at, c, f) = [k |-> j, index |-> after]
    BY <1>0, <1>3 DEF Handle
  <2>3. /\ j \in Connection /\ j.subs = k.subs \ {f.symbol}
        /\ j.tab = k.tab /\ j.stage = k.stage /\ j.link = k.link
    BY DEF Connection
  <2>4. /\ after \in [Symbol -> SUBSET Conn]
        /\ \A s \in Symbol :
             after[s] = IF s = f.symbol THEN index[s] \ {c} ELSE index[s]
    BY <2>1
  <2> HIDE DEF j, after
  <2>5. Keeps(c, j, after)
    BY <1>0, <2>1, <2>3, <2>4 DEF Keeps
  <2> QED
    BY <2>2, <2>3, <2>4, <2>5 DEF Serves
<1>4. CASE f.type = "subscribe"
  <2>1. CASE f.symbol \notin k.subs /\ Cardinality(k.subs) >= MaxSubs
    <3> DEFINE l == IF k.link = "gone" THEN k.link ELSE "ended"
               j == [k EXCEPT !.link = l]
    <3>1. Handle(at, c, f) = [k |-> j, index |-> index]
      BY <1>0, <1>4, <2>1 DEF Handle
    <3>2. l \in {"gone", "ended"}
      OBVIOUS
    <3>3. l = "gone" <=> k.link = "gone"
      OBVIOUS
    <3> HIDE DEF l
    <3>4. /\ j \in Connection /\ j.subs = k.subs
          /\ j.tab = k.tab /\ j.stage = k.stage /\ j.link = l
      BY <3>2 DEF Connection
    <3> HIDE DEF j
    <3>5. Keeps(c, j, index)
      BY <1>0, <3>2, <3>3, <3>4 DEF Keeps
    <3> QED
      BY <3>1, <3>4, <3>5 DEF Serves
  <2>2. CASE ~ (f.symbol \notin k.subs /\ Cardinality(k.subs) >= MaxSubs)
    <3> DEFINE j == [k EXCEPT !.subs = @ \cup {f.symbol}]
               after == [index EXCEPT ![f.symbol] = @ \cup {c}]
    <3>1. f.symbol \in Symbol
      BY <1>4 DEF Frame
    <3>2. Handle(at, c, f) = [k |-> j, index |-> after]
      BY <1>0, <1>4, <2>2 DEF Handle
    <3>3. /\ j \in Connection /\ j.subs = k.subs \cup {f.symbol}
          /\ j.tab = k.tab /\ j.stage = k.stage /\ j.link = k.link
      BY <3>1 DEF Connection
    <3>4. /\ after \in [Symbol -> SUBSET Conn]
          /\ \A s \in Symbol :
               after[s] = IF s = f.symbol THEN index[s] \cup {c} ELSE index[s]
      BY <3>1
    <3> HIDE DEF j, after
    <3>5. Keeps(c, j, after)
      BY <1>0, <3>1, <3>3, <3>4 DEF Keeps
    <3> QED
      BY <3>2, <3>3, <3>4, <3>5 DEF Serves
  <2> QED
    BY <2>1, <2>2
<1> QED
  BY <1>2, <1>3, <1>4 DEF Frame

-----------------------------------------------------------------------------
(* The replay.                                                             *)

(* One step of the recursion, on a table g of the states before it.        *)
Fresh(c) == [conn[c] EXCEPT !.stage = "served", !.early = <<>>]
Term(c, g, i) ==
  IF i = 0 THEN [k |-> Fresh(c), index |-> bySymbol]
           ELSE Handle(g[i - 1], c, Replay(c)[i])
Table(c) == CHOOSE g : g = [i \in 0..Len(Replay(c)) |-> Term(c, g, i)]

(* The replay is the last entry of the table.                              *)
LEMMA TableOfReplay ==
  ASSUME NEW c
  PROVE  Replayed(c) = Table(c)[Len(Replay(c))]
BY DEF Replayed, Table, Term, Fresh

(* A set of natural numbers has a least element.                           *)
LEMMA LeastNatural ==
  ASSUME NEW T \in SUBSET Nat, T # {}
  PROVE  \E x \in T : \A y \in T : x <= y
<1>1. PICK x \in T : \A y \in T : ~(<<y, x>> \in OpToRel(<, Nat))
  BY NatLessThanWellFounded, WFMin
<1>2. \A y \in T : ~(y < x)
  BY <1>1 DEF OpToRel
<1> QED
  BY <1>2

(* Least counterexample, for sets of numbers.                              *)
LEMMA Counting ==
  ASSUME NEW n \in Nat, NEW S, 0 \in S, \A i \in 1..n : i - 1 \in S => i \in S
  PROVE  n \in S
<1> DEFINE W == {i \in 0..n : i \notin S}
<1>1. SUFFICES ASSUME W # {} PROVE FALSE
  OBVIOUS
<1>2. PICK i \in W : \A m \in W : i <= m
  <2>1. W \in SUBSET Nat
    OBVIOUS
  <2> HIDE DEF W
  <2> QED
    BY <1>1, <2>1, LeastNatural
<1>3. i \in 1..n /\ i - 1 \in 0..n /\ ~ (i <= i - 1)
  BY <1>2
<1> QED
  BY <1>2, <1>3

(* g is a table of the first n frames.                                     *)
Solves(c, n, g) == \A i \in 0..n : g[i] = Term(c, g, i)

(* There is a table for any number of frames, by least counterexample.     *)
LEMMA AllSolve ==
  ASSUME NEW c
  PROVE  \A n \in Nat : \E g : Solves(c, n, g)
<1> DEFINE W == {n \in Nat : ~ \E g : Solves(c, n, g)}
<1>1. SUFFICES ASSUME W # {} PROVE FALSE
  OBVIOUS
<1>2. PICK n \in W : \A m \in W : n <= m
  BY <1>1, LeastNatural
<1>3. CASE n = 0
  <2> DEFINE base == [k |-> Fresh(c), index |-> bySymbol]
             g == [i \in {0} |-> base]
  <2> HIDE DEF base
  <2>1. g[0] = base
    OBVIOUS
  <2> HIDE DEF g
  <2>2. \A i \in 0..0 : i = 0
    OBVIOUS
  <2>3. Solves(c, 0, g)
    BY <2>1, <2>2 DEF Solves, Term, base
  <2> QED
    BY <1>2, <1>3, <2>3
<1>4. CASE n # 0
  <2>1. n - 1 \in Nat /\ n - 1 \notin W
    BY <1>2, <1>4
  <2>2. PICK g : Solves(c, n - 1, g)
    BY <2>1
  <2> DEFINE h == [i \in 0..n |-> IF i < n THEN g[i] ELSE Term(c, g, i)]
  <2>3. ASSUME NEW i \in 0..n PROVE h[i] = Term(c, h, i)
    <3>1. h[i] = Term(c, g, i)
      <4>1. CASE i < n
        <5>1. i \in 0..(n - 1)
          BY <1>2, <4>1
        <5> QED
          BY <2>2, <4>1, <5>1 DEF Solves
      <4>2. CASE ~ (i < n)
        BY <4>2
      <4> QED
        BY <4>1, <4>2
    <3>2. i # 0 => h[i - 1] = g[i - 1]
      <4> SUFFICES ASSUME i # 0 PROVE h[i - 1] = g[i - 1]
        OBVIOUS
      <4>1. i - 1 \in 0..n /\ i - 1 < n
        BY <1>2
      <4> QED
        BY <4>1
    <3> HIDE DEF h
    <3> QED
      BY <3>1, <3>2 DEF Term
  <2> HIDE DEF h
  <2>4. Solves(c, n, h)
    BY <2>3 DEF Solves
  <2> QED
    BY <1>2, <2>4
<1> QED
  BY <1>3, <1>4

(* So the table of the replay is one.                                      *)
LEMMA TableSolves ==
  ASSUME NEW c, Len(Replay(c)) \in Nat
  PROVE  Solves(c, Len(Replay(c)), Table(c))
<1> DEFINE n == Len(Replay(c))
<1>1. PICK g : Solves(c, n, g)
  BY AllSolve
<1> DEFINE h == [i \in 0..n |-> g[i]]
<1>2. ASSUME NEW i \in 0..n PROVE h[i] = Term(c, h, i)
  <2>1. h[i] = Term(c, g, i)
    BY <1>1 DEF Solves
  <2>2. i # 0 => h[i - 1] = g[i - 1]
    OBVIOUS
  <2> HIDE DEF h
  <2> QED
    BY <2>1, <2>2 DEF Term
<1>3. h = [i \in 0..n |-> h[i]]
  OBVIOUS
<1> HIDE DEF h
<1>4. h = [i \in 0..n |-> Term(c, h, i)]
  BY <1>2, <1>3
<1>5. Table(c) = [i \in 0..n |-> Term(c, Table(c), i)]
  BY <1>4 DEF Table
<1> QED
  BY <1>5 DEF Solves

(* The table, step by step.                                                *)
LEMMA TableSteps ==
  ASSUME IInv, NEW c \in Conn
  PROVE  /\ Replay(c) \in Seq(Frame) /\ Len(Replay(c)) \in Nat
         /\ Table(c)[0] = [k |-> Fresh(c), index |-> bySymbol]
         /\ \A i \in 1..Len(Replay(c)) :
              /\ Replay(c)[i] \in Frame
              /\ Table(c)[i] = Handle(Table(c)[i - 1], c, Replay(c)[i])
<1> DEFINE n == Len(Replay(c))
<1>1. PICK k \in Connection : k = conn[c]
  BY DEF IInv, TypeOK
<1>2. /\ Replay(c) \in Seq(Frame) /\ n \in Nat
      /\ \A i \in 1..n : Replay(c)[i] \in Frame
  BY <1>1 DEF Replay, Connection
<1>3. Solves(c, n, Table(c))
  BY <1>2, TableSolves
<1>4. 0 \in 0..n /\ \A i \in 1..n : i \in 0..n /\ i # 0
  BY <1>2
<1>5. Table(c)[0] = Term(c, Table(c), 0)
  BY <1>3, <1>4 DEF Solves
<1>6. \A i \in 1..n : Table(c)[i] = Handle(Table(c)[i - 1], c, Replay(c)[i])
  BY <1>3, <1>4 DEF Solves, Term
<1> QED
  BY <1>2, <1>5, <1>6 DEF Term

(* Before the replay, the connection and the index are in step.            *)
LEMMA FreshServes ==
  ASSUME IInv, NEW c \in Conn, Stage(c) = "auth"
  PROVE  Serves(c, [k |-> Fresh(c), index |-> bySymbol])
<1>1. PICK k \in Connection : k = conn[c]
  BY DEF IInv, TypeOK
<1> DEFINE j == [k EXCEPT !.stage = "served", !.early = <<>>]
<1>2. Fresh(c) = j
  BY <1>1 DEF Fresh
<1>3. /\ j \in Connection /\ j.subs = k.subs /\ j.stage = "served"
      /\ j.tab = k.tab /\ j.link = k.link
  BY NoFrames DEF Connection
<1> HIDE DEF j
<1>4. k.subs = {} /\ c \notin registered
  BY <1>1 DEF IInv, Sane
<1>5. \A s \in Symbol : c \notin bySymbol[s]
  BY <1>4 DEF IInv, Indexed
<1>6. Keeps(c, j, bySymbol)
  BY <1>1, <1>3, <1>4, <1>5 DEF Keeps
<1> QED
  BY <1>2, <1>3, <1>6 DEF Serves, IInv, TypeOK

(* After the replay, the connection is served as its early frames asked.   *)
LEMMA ReplayServes ==
  ASSUME IInv, NEW c \in Conn, Stage(c) = "auth"
  PROVE  Serves(c, Replayed(c))
<1> DEFINE n == Len(Replay(c))
           S == {i \in 0..n : Serves(c, Table(c)[i])}
<1>1. n \in Nat
  BY TableSteps
<1>2. 0 \in S
  <2>1. Table(c)[0] = [k |-> Fresh(c), index |-> bySymbol] /\ 0 \in 0..n
    BY <1>1, TableSteps
  <2>2. Serves(c, Table(c)[0])
    BY <2>1, FreshServes
  <2> QED
    BY <2>1, <2>2
<1>3. ASSUME NEW i \in 1..n, i - 1 \in S PROVE i \in S
  <2>1. /\ Table(c)[i] = Handle(Table(c)[i - 1], c, Replay(c)[i])
        /\ Replay(c)[i] \in Frame
    BY TableSteps
  <2>2. Serves(c, Table(c)[i - 1])
    BY <1>3
  <2>3. Serves(c, Table(c)[i])
    BY <2>1, <2>2, HandleServes
  <2>4. i \in 0..n
    BY <1>1
  <2> QED
    BY <2>3, <2>4
<1>4. n \in S
  <2> HIDE DEF S, n
  <2> QED
    BY <1>1, <1>2, <1>3, Counting
<1> QED
  BY <1>4, TableOfReplay

-----------------------------------------------------------------------------
(* The shapes of the other steps.                                          *)

(* A connection that is not registered changes.                            *)
LEMMA OutsideStep ==
  ASSUME IInv, OtherTypes', NEW c \in Conn, NEW k \in Connection,
         c \notin registered, conn' = [conn EXCEPT ![c] = k],
         UNCHANGED <<registered, bySymbol, online, leaked>>,
         disconnected' \subseteq Conn,
         \A d \in Conn \ {c} : d \in disconnected' <=> d \in disconnected,
         k.stage # "unused" => k.tab \in Tab,
         k.stage = "auth" => c \notin disconnected' /\ k.subs = {},
         k.stage = "served" =>
           c \in disconnected' /\ k.link \in {"ended", "gone"} /\ k.inbox = <<>>
  PROVE  IInv'
<1>1. conn'[c] = k /\ \A d \in Conn : d # c => conn'[d] = conn[d]
  BY DEF IInv, TypeOK
<1>2. c \notin leaked /\ \A d \in registered : d \in Conn /\ d # c
  BY DEF IInv, TypeOK
<1>3. TypeOK'
  BY DEF IInv, TypeOK, OtherTypes
<1>4. Counted'
  <2>1. \A u \in User : {d \in registered : UserAt(d) = u}'
                          = {d \in registered : UserAt(d) = u}
    BY <1>1, <1>2 DEF UserAt
  <2> QED
    BY <2>1 DEF IInv, Counted
<1>5. Indexed'
  BY <1>1, <1>2 DEF IInv, Indexed
<1>6. \A d \in Conn : Sane(d)'
  <2>1. Sane(c)'
    BY <1>1, <1>2 DEF Sane, Stage, Link
  <2>2. ASSUME NEW d \in Conn, d # c PROVE Sane(d)'
    BY <1>1, <2>2 DEF IInv, Sane, Stage, Link
  <2> QED
    BY <2>1, <2>2
<1> QED
  BY <1>3, <1>4, <1>5, <1>6 DEF IInv

(* A connection is served, perhaps from this step on.                      *)
LEMMA ServedStep ==
  ASSUME IInv, OtherTypes', NEW c \in Conn, Stage(c) # "unused",
         NEW k \in Connection, NEW index \in [Symbol -> SUBSET Conn],
         Keeps(c, k, index), conn' = [conn EXCEPT ![c] = k],
         bySymbol' = index, registered' = registered \cup {c},
         UNCHANGED disconnected, c \notin disconnected,
         leaked' = IF Link(c) = "gone" THEN leaked \cup {c} ELSE leaked,
         online' \in [User -> Nat], Counted'
  PROVE  IInv'
<1>1. conn'[c] = k /\ \A d \in Conn : d # c => conn'[d] = conn[d]
  BY DEF IInv, TypeOK
<1>2. registered \subseteq Conn /\ leaked \subseteq registered
  BY DEF IInv, TypeOK
<1>3. TypeOK'
  BY <1>2 DEF IInv, TypeOK, OtherTypes
<1>4. Indexed'
  <2> SUFFICES ASSUME NEW s \in Symbol
               PROVE  index[s] = {d \in registered \cup {c} :
                                    s \in conn'[d].subs}
    BY DEF Indexed
  <2>1. index[s] = IF s \in k.subs THEN bySymbol[s] \cup {c}
                                   ELSE bySymbol[s] \ {c}
    BY DEF Keeps
  <2>2. bySymbol[s] = {d \in registered : s \in conn[d].subs}
    BY DEF IInv, Indexed
  <2> QED
    BY <1>1, <1>2, <2>1, <2>2
<1>5. \A d \in Conn : Sane(d)'
  <2>1. Sane(c)'
    BY <1>1 DEF IInv, Sane, Stage, Link, Keeps
  <2>2. ASSUME NEW d \in Conn, d # c PROVE Sane(d)'
    BY <1>1, <2>2 DEF IInv, Sane, Stage, Link
  <2> QED
    BY <2>1, <2>2
<1> QED
  BY <1>3, <1>4, <1>5 DEF IInv

-----------------------------------------------------------------------------
(* The actions of the browser.                                             *)

(* What a tab subscribes to, as frames in some order.                      *)
LEMMA SubscribingSeq ==
  ASSUME IInv, NEW t \in Tab
  PROVE  LET F == {Subscribing(s) : s \in desired[t]}
         IN /\ F \subseteq Frame
            /\ IsFiniteSet(F) /\ Cardinality(F) \in Nat
            /\ SetToSeq(F) \in [1..Cardinality(F) -> F]
            /\ IsInjective(SetToSeq(F))
<1> DEFINE D == desired[t]
           F == {Subscribing(s) : s \in D}
           f == [s \in D |-> Subscribing(s)]
<1>1. D \subseteq Symbol /\ IsFiniteSet(D)
  <2>1. D \subseteq Symbol
    BY DEF IInv, TypeOK
  <2> QED
    BY <2>1, FiniteAssumption, FS_Subset
<1>2. F \subseteq Frame
  BY <1>1 DEF Frame, Subscribing
<1>3. IsFiniteSet(F)
  <2>1. f \in Surjection(D, F)
    BY DEF Surjection
  <2> HIDE DEF f, D, F
  <2> QED
    BY <1>1, <2>1, FS_Surjection
<1>4. /\ SetToSeq(F) \in [1..Cardinality(F) -> F] /\ Cardinality(F) \in Nat
      /\ IsInjective(SetToSeq(F))
  <2> HIDE DEF F
  <2>1. Cardinality(F) \in Nat /\ ExistsBijection(1..Cardinality(F), F)
    BY <1>3, FS_CardinalityType
  <2>2. \E g \in [1..Cardinality(F) -> F] : IsInjective(g)
    BY <2>1 DEF ExistsBijection, Bijection, Injection
  <2> QED
    BY <2>1, <2>2 DEF SetToSeq
<1> QED
  BY <1>2, <1>3, <1>4

(* What a tab sends on a new socket are commands.                          *)
LEMMA HelloType ==
  ASSUME IInv, NEW t \in Tab
  PROVE  Hello(t) \in Seq(Frame)
<1> DEFINE F == {Subscribing(s) : s \in desired[t]}
<1>1. /\ F \subseteq Frame /\ Cardinality(F) \in Nat
      /\ SetToSeq(F) \in [1..Cardinality(F) -> F]
  BY SubscribingSeq
<1>2. SetToSeq(F) \in Seq(Frame)
  <2> HIDE DEF F
  <2> QED
    BY <1>1
<1>3. <<AccountFrame>> \in Seq(Frame)
  BY DEF AccountFrame, Frame
<1> HIDE DEF F
<1>4. <<AccountFrame>> \o SetToSeq(F) \in Seq(Frame)
  BY <1>2, <1>3
<1> QED
  BY <1>4 DEF Hello, F

(* A new connection takes a slot that nothing remembers.                   *)
LEMMA ConnectStep ==
  ASSUME IInv, NEW t \in Tab, NEW c \in Conn, Connect(t, c)
  PROVE  IInv'
<1> DEFINE k == [Unused EXCEPT
                   !.tab = t, !.link = "up", !.stage = "auth",
                   !.inbox = Hello(t)]
<1>1. /\ k \in Connection /\ k.tab = t /\ k.stage = "auth" /\ k.subs = {}
      /\ k.link = "up"
  BY HelloType, NoFrames DEF Unused, Connection
<1>2. conn' = [conn EXCEPT ![c] = k] /\ c \notin registered
  BY DEF Connect, Free
<1>3. OtherTypes'
  BY DEF Connect, OtherTypes, IInv, TypeOK, counts, engine
<1>4. c \notin leaked
  BY <1>2 DEF IInv, TypeOK
<1>5. /\ UNCHANGED <<registered, bySymbol, online>>
      /\ leaked' = leaked /\ disconnected' = disconnected \ {c}
  BY <1>4 DEF Connect
<1>6. disconnected \subseteq Conn
  BY DEF IInv, TypeOK
<1> HIDE DEF k
<1> QED
  BY <1>1, <1>2, <1>3, <1>5, <1>6, OutsideStep

(* A frame more on its way, or none.                                       *)
LEMMA ToggleStep ==
  ASSUME IInv, NEW t \in Tab, NEW s \in Symbol, Toggle(t, s)
  PROVE  IInv'
<1> DEFINE c == socket[t]
           new == IF s \notin desired[t] THEN Subscribing(s)
                                         ELSE Unsubscribing(s)
<1>1. OtherTypes'
  <2>1. toggles' \in 0..MaxToggles
    BY BoundAssumption DEF Toggle, IInv, TypeOK
  <2>2. desired' \in [Tab -> SUBSET Symbol]
    BY DEF Toggle, IInv, TypeOK
  <2> QED
    BY <2>1, <2>2 DEF Toggle, OtherTypes, IInv, TypeOK, ghosts, engine
<1>2. UNCHANGED <<server, leaked>>
  BY DEF Toggle, ghosts
<1>3. new \in Frame
  BY DEF Frame, Subscribing, Unsubscribing
<1>4. CASE c # None /\ Link(c) = "up"
  <2>1. c \in Conn
    BY <1>4 DEF IInv, TypeOK
  <2>2. PICK k \in Connection : k = conn[c]
    BY <2>1 DEF IInv, TypeOK
  <2> DEFINE j == [k EXCEPT !.inbox = Append(@, new)]
  <2>3. conn' = [conn EXCEPT ![c] = j]
    BY <1>4, <2>1, <2>2 DEF Toggle, IInv, TypeOK
  <2>4. Append(k.inbox, new) \in Seq(Frame)
    BY <1>3 DEF Connection
  <2> HIDE DEF new
  <2>5. /\ j \in Connection /\ j.subs = k.subs
        /\ j.tab = k.tab /\ j.stage = k.stage /\ j.link = k.link
    BY <2>4 DEF Connection
  <2>6. k.link = "up"
    BY <1>4, <2>2 DEF Link
  <2> HIDE DEF j
  <2>7. Like(c, j)
    BY <2>2, <2>5, <2>6 DEF Like
  <2> HIDE DEF c
  <2> QED
    BY <1>1, <1>2, <2>1, <2>3, <2>5, <2>7, ConnStep
<1>5. CASE ~ (c # None /\ Link(c) = "up")
  <2>1. conn' = conn
    BY <1>5 DEF Toggle
  <2> QED
    BY <1>1, <1>2, <2>1, ConnsStep DEF Like, IInv, TypeOK
<1> QED
  BY <1>4, <1>5

(* The tab takes what was sent to it.                                      *)
LEMMA ApplyStep ==
  ASSUME IInv, NEW c \in Conn, Apply(c)
  PROVE  IInv'
<1>1. PICK k \in Connection : k = conn[c]
  BY DEF IInv, TypeOK
<1> DEFINE j == [k EXCEPT !.outbox = Tail(@)]
<1>2. conn' = [conn EXCEPT ![c] = j] /\ k.outbox # <<>>
  BY <1>1 DEF Apply, IInv, TypeOK
<1>3. /\ Tail(k.outbox) \in Seq(Position)
      /\ Head(k.outbox) \in Position
  BY <1>2 DEF Connection
<1>4. /\ j \in Connection /\ j.subs = k.subs /\ j.inbox = k.inbox
      /\ j.tab = k.tab /\ j.stage = k.stage /\ j.link = k.link
  BY <1>3 DEF Connection
<1>5. OtherTypes'
  <2>1. shown' \in [Tab -> Position]
    BY <1>1, <1>3 DEF Apply, IInv, TypeOK
  <2> QED
    BY <2>1 DEF Apply, OtherTypes, IInv, TypeOK, counts, ghosts, engine
<1> HIDE DEF j
<1>6. Like(c, j)
  BY <1>1, <1>4 DEF Like
<1> QED
  BY <1>2, <1>4, <1>5, <1>6, ConnStep DEF Apply, ghosts

(* The tab lets go of its socket.                                          *)
LEMMA LosesSocketStep ==
  ASSUME IInv, NEW t \in Tab, LosesSocket(t)
  PROVE  IInv'
<1>1. OtherTypes'
  BY DEF LosesSocket, OtherTypes, IInv, TypeOK, counts, ghosts, engine
<1> QED
  BY <1>1, ConnsStep DEF LosesSocket, ghosts, Like, IInv, TypeOK

-----------------------------------------------------------------------------
(* The actions of the links and the server.                                *)

(* A step that changes the link of one connection and drops what is on it. *)
LEMMA LinkStep ==
  ASSUME IInv, NEW c \in Conn, UNCHANGED <<browser, server, engine, ghosts>>,
         breaks' \in 0..MaxBreaks, UNCHANGED <<toggles, trades>>,
         NEW l \in {"cut", "ended"}, Link(c) \in {"up", "cut"},
         \/ conn' = [conn EXCEPT ![c].link = l]
         \/ conn' = [conn EXCEPT ![c].link = l, ![c].inbox = <<>>,
                                 ![c].outbox = <<>>]
  PROVE  IInv'
<1>1. PICK k \in Connection : k = conn[c]
  BY DEF IInv, TypeOK
<1> DEFINE j == [k EXCEPT !.link = l]
           j2 == [k EXCEPT !.link = l, !.inbox = <<>>, !.outbox = <<>>]
<1>2. OtherTypes'
  BY DEF OtherTypes, IInv, TypeOK, browser, ghosts, engine
<1>3. /\ j \in Connection /\ j.subs = k.subs
      /\ j.tab = k.tab /\ j.stage = k.stage /\ j.link = l
  BY DEF Connection
<1>4. /\ j2 \in Connection /\ j2.subs = k.subs
      /\ j2.tab = k.tab /\ j2.stage = k.stage /\ j2.link = l
  BY NoFrames DEF Connection
<1>5. k.link \in {"up", "cut"}
  BY <1>1 DEF Link
<1>6. \/ conn' = [conn EXCEPT ![c] = j]
      \/ conn' = [conn EXCEPT ![c] = j2]
  BY <1>1 DEF IInv, TypeOK
<1> HIDE DEF j, j2
<1>7. Like(c, j) /\ Like(c, j2)
  BY <1>1, <1>3, <1>4, <1>5 DEF Like
<1> QED
  BY <1>2, <1>3, <1>4, <1>6, <1>7, ConnStep DEF ghosts

(* Links that are cut, closed or given up.                                 *)
LEMMA LinkSteps ==
  ASSUME IInv, NEW c \in Conn, Cut(c) \/ Closes(c) \/ Terminate(c)
  PROVE  IInv'
<1>1. breaks \in 0..MaxBreaks /\ (Breaks => breaks' \in 0..MaxBreaks)
  BY BoundAssumption DEF IInv, TypeOK, Breaks
<1>2. CASE Cut(c)
  BY <1>1, <1>2, LinkStep DEF Cut
<1>3. CASE Closes(c)
  BY <1>1, <1>3, LinkStep DEF Closes
<1>4. CASE Terminate(c)
  BY <1>1, <1>4, LinkStep DEF Terminate
<1> QED
  BY <1>2, <1>3, <1>4

(* A connection without a session is never registered.                     *)
LEMMA RefuseStep ==
  ASSUME IInv, NEW c \in Conn, Refuse(c)
  PROVE  IInv'
<1>1. PICK k \in Connection : k = conn[c]
  BY DEF IInv, TypeOK
<1> DEFINE l == IF k.link = "gone" THEN "gone" ELSE "ended"
           j == [k EXCEPT !.stage = "refused", !.early = <<>>, !.link = l]
<1>2. conn' = [conn EXCEPT ![c] = j]
  BY <1>1 DEF Refuse, IInv, TypeOK
<1>3. l \in {"gone", "ended"}
  OBVIOUS
<1> HIDE DEF l
<1>4. /\ j \in Connection /\ j.tab = k.tab /\ j.stage = "refused"
  BY <1>3, NoFrames DEF Connection
<1>5. OtherTypes'
  <2>1. breaks' \in 0..MaxBreaks
    BY BoundAssumption DEF Refuse, Breaks, IInv, TypeOK
  <2> QED
    BY <2>1 DEF Refuse, OtherTypes, IInv, TypeOK, browser, ghosts, engine
<1>6. c \notin registered /\ k.tab \in Tab /\ disconnected \subseteq Conn
  BY <1>1 DEF Refuse, IInv, TypeOK, Sane, Stage
<1> HIDE DEF j
<1> QED
  BY <1>2, <1>4, <1>5, <1>6, OutsideStep DEF Refuse, server, ghosts

(* The error of a socket is the end of its connection.                     *)
LEMMA ErrsStep ==
  ASSUME IInv, NEW c \in Conn, Errs(c)
  PROVE  IInv'
<1>1. PICK k \in Connection : k = conn[c]
  BY DEF IInv, TypeOK
<1> DEFINE j == [k EXCEPT !.link = "ended", !.inbox = <<>>]
<1>2. conn' = [conn EXCEPT ![c] = j]
  BY <1>1 DEF Errs, IInv, TypeOK
<1>3. /\ j \in Connection /\ j.tab = k.tab /\ j.stage = k.stage
      /\ j.inbox = <<>> /\ j.link = "ended"
  BY NoFrames DEF Connection
<1>4. OtherTypes'
  <2>1. breaks' \in 0..MaxBreaks
    BY BoundAssumption DEF Errs, Breaks, IInv, TypeOK
  <2> QED
    BY <2>1 DEF Errs, OtherTypes, IInv, TypeOK, browser, ghosts, engine
<1>5. OnGone(c) /\ leaked' = leaked /\ Stage(c) = "served" /\ Link(c) # "gone"
  BY DEF Errs, ghosts
<1> HIDE DEF j
<1> QED
  BY <1>1, <1>2, <1>3, <1>4, <1>5, GoneStep DEF Stage

(* The close event: unheard, the end, or of no account.                    *)
LEMMA CloseEventStep ==
  ASSUME IInv, NEW c \in Conn, CloseEvent(c)
  PROVE  IInv'
<1>1. PICK k \in Connection : k = conn[c]
  BY DEF IInv, TypeOK
<1>2. OtherTypes'
  BY DEF CloseEvent, OtherTypes, IInv, TypeOK, browser, ghosts, counts, engine
<1>3. leaked' = leaked /\ Link(c) = "ended" /\ disconnected \subseteq Conn
  BY DEF CloseEvent, ghosts, IInv, TypeOK
<1>4. CASE Stage(c) = "auth"
  <2> DEFINE j == [k EXCEPT !.link = "gone", !.inbox = <<>>]
  <2>1. conn' = [conn EXCEPT ![c] = j] /\ UNCHANGED server
    BY <1>1, <1>4 DEF CloseEvent, IInv, TypeOK
  <2>2. /\ j \in Connection /\ j.tab = k.tab /\ j.stage = k.stage
        /\ j.subs = k.subs
    BY NoFrames DEF Connection
  <2>3. /\ c \notin registered /\ k.tab \in Tab /\ k.stage = "auth"
        /\ c \notin disconnected /\ k.subs = {}
    BY <1>1, <1>4 DEF IInv, Sane, Stage
  <2> HIDE DEF j
  <2> QED
    BY <1>2, <1>3, <2>1, <2>2, <2>3, OutsideStep DEF server
<1>5. CASE Stage(c) # "auth"
  <2> DEFINE j == [Unused EXCEPT !.tab = k.tab, !.link = "gone",
                                 !.stage = k.stage, !.read = k.read]
  <2>1. conn' = [conn EXCEPT ![c] = j]
    BY <1>1, <1>5 DEF CloseEvent, Stage
  <2>2. /\ j \in Connection /\ j.tab = k.tab /\ j.stage = k.stage
        /\ j.inbox = <<>> /\ j.link = "gone"
    BY NoFrames DEF Connection, Unused
  <2> HIDE DEF j
  <2>3. CASE Stage(c) = "served"
    <3>1. OnGone(c)
      BY <1>5, <2>3 DEF CloseEvent
    <3> QED
      BY <1>1, <1>2, <1>3, <2>1, <2>2, <2>3, <3>1, GoneStep DEF Stage
  <2>4. CASE Stage(c) # "served"
    <3>1. UNCHANGED server
      BY <1>5, <2>4 DEF CloseEvent
    <3>2. /\ c \notin registered /\ k.stage \notin {"auth", "served"}
          /\ k.stage # "unused" => k.tab \in Tab
      BY <1>1, <1>5, <2>4 DEF IInv, Sane, Stage
    <3> QED
      BY <1>2, <1>3, <2>1, <2>2, <3>1, <3>2, OutsideStep DEF server
  <2> QED
    BY <2>3, <2>4
<1> QED
  BY <1>4, <1>5

(* A frame is kept, dropped or handled.                                    *)
LEMMA ReceiveStep ==
  ASSUME IInv, NEW c \in Conn, Receive(c)
  PROVE  IInv'
<1>1. PICK k \in Connection : k = conn[c]
  BY DEF IInv, TypeOK
<1> DEFINE f == Head(conn[c].inbox)
           rest == [k EXCEPT !.inbox = Tail(@)]
<1>2. /\ k.inbox # <<>> /\ k.link \in {"up", "ended"}
      /\ k.inbox \in Seq(Frame) /\ k.early \in Seq(Frame)
  BY <1>1 DEF Receive, Link, Connection
<1>3. f \in Frame /\ Tail(k.inbox) \in Seq(Frame)
  BY <1>1, <1>2
<1>4. /\ rest \in Connection /\ rest.tab = k.tab /\ rest.stage = k.stage
      /\ rest.subs = k.subs /\ rest.link = k.link
  BY <1>3 DEF Connection
<1>5. OtherTypes'
  BY DEF Receive, OtherTypes, IInv, TypeOK, browser, counts, engine
<1>6. /\ registered' = registered /\ disconnected' = disconnected
      /\ online' = online /\ leaked' = leaked
  BY DEF Receive
<1>7. CASE Stage(c) # "served"
  <2> DEFINE kept == [rest EXCEPT !.early = Append(@, f)]
  <2>1. /\ bySymbol' = bySymbol
        /\ \/ conn' = [conn EXCEPT ![c] = rest]
           \/ conn' = [conn EXCEPT ![c] = kept]
    BY <1>1, <1>7 DEF Receive
  <2>2. Append(rest.early, f) \in Seq(Frame)
    BY <1>3, <1>4 DEF Connection
  <2> HIDE DEF f, rest
  <2>3. /\ kept \in Connection /\ kept.tab = k.tab /\ kept.stage = k.stage
        /\ kept.subs = k.subs /\ kept.link = k.link
    BY <1>4, <2>2 DEF Connection
  <2> HIDE DEF kept
  <2>4. Like(c, rest) /\ Like(c, kept)
    BY <1>1, <1>2, <1>4, <2>3 DEF Like
  <2> QED
    BY <1>4, <1>5, <1>6, <2>1, <2>3, <2>4, ConnStep DEF server
<1>8. CASE Stage(c) = "served"
  <2> DEFINE at == [k |-> rest, index |-> bySymbol]
             after == Handle(at, c, f)
  <2>1. conn' = [conn EXCEPT ![c] = after.k] /\ bySymbol' = after.index
    BY <1>1, <1>8 DEF Receive
  <2>2. c \in registered /\ c \notin disconnected
    BY <1>1, <1>2, <1>8 DEF IInv, Sane
  <2>3. \A s \in Symbol : c \in bySymbol[s] <=> s \in k.subs
    BY <1>1, <2>2 DEF IInv, Indexed
  <2> HIDE DEF rest, f
  <2>4. Keeps(c, rest, bySymbol)
    BY <1>1, <1>4, <1>8, <2>3 DEF Keeps, Stage
  <2>5. Serves(c, at)
    BY <1>4, <2>4 DEF Serves, IInv, TypeOK
  <2> HIDE DEF at
  <2>6. Serves(c, after)
    BY <1>3, <1>8, <2>5, HandleServes
  <2> HIDE DEF after
  <2>7. PICK l \in Connection, index \in [Symbol -> SUBSET Conn] :
          after = [k |-> l, index |-> index] /\ Keeps(c, l, index)
    BY <2>6 DEF Serves
  <2>8. conn' = [conn EXCEPT ![c] = l] /\ bySymbol' = index
    BY <2>1, <2>7
  <2>9. registered' = registered \cup {c} /\ Link(c) # "gone"
    BY <1>1, <1>2, <1>6, <2>2 DEF Link
  <2>10. online' \in [User -> Nat] /\ Counted'
    <3>1. \A d \in registered : conn'[d].tab = conn[d].tab
      BY <2>7, <2>8 DEF IInv, TypeOK, Keeps
    <3>2. \A u \in User : {d \in registered : UserAt(d) = u}'
                            = {d \in registered : UserAt(d) = u}
      BY <1>6, <3>1 DEF UserAt
    <3> QED
      BY <1>6, <3>2 DEF IInv, TypeOK, Counted
  <2> QED
    BY <1>5, <1>6, <1>8, <2>2, <2>7, <2>8, <2>9, <2>10, ServedStep
<1> QED
  BY <1>7, <1>8

(* Registration counts the user once and replays.                          *)
LEMMA AuthenticatedStep ==
  ASSUME IInv, NEW c \in Conn, Authenticated(c)
  PROVE  IInv'
<1>1. /\ Stage(c) = "auth" /\ c \notin registered /\ c \notin disconnected
      /\ registered \subseteq Conn
  BY DEF Authenticated, IInv, TypeOK, Sane
<1>2. PICK k \in Connection, index \in [Symbol -> SUBSET Conn] :
        Replayed(c) = [k |-> k, index |-> index] /\ Keeps(c, k, index)
  BY <1>1, ReplayServes DEF Serves
<1>3. /\ conn' = [conn EXCEPT ![c] = k] /\ bySymbol' = index
      /\ registered' = registered \cup {c} /\ disconnected' = disconnected
      /\ online' = [online EXCEPT ![UserAt(c)] = @ + 1]
      /\ leaked' = IF Link(c) = "gone" THEN leaked \cup {c} ELSE leaked
  BY <1>2 DEF Authenticated, ClientConnected
<1>4. OtherTypes'
  BY DEF Authenticated, OtherTypes, IInv, TypeOK, browser, counts, engine
<1>5. PICK v \in User : v = UserAt(c)
  BY <1>1, UserAtType
<1>6. online' \in [User -> Nat]
  BY <1>3, <1>5 DEF IInv, TypeOK
<1>7. Counted'
  <2> SUFFICES ASSUME NEW u \in User
               PROVE  online'[u] =
                        Cardinality({d \in registered' : UserAt(d)' = u})
    BY DEF Counted
  <2> DEFINE S == {d \in registered : UserAt(d) = u}
  <2>1. \A d \in registered \cup {c} : conn'[d].tab = conn[d].tab
    BY <1>1, <1>2, <1>3 DEF Keeps, IInv, TypeOK
  <2>2. \A d \in registered' : UserAt(d)' = UserAt(d)
    BY <1>3, <2>1 DEF UserAt
  <2>3. IsFiniteSet(S)
    <3>1. IsFiniteSet(Conn)
      BY FS_Interval, BoundAssumption DEF Conn
    <3> QED
      BY <1>1, <3>1, FS_Subset
  <2>4. online[u] = Cardinality(S)
    BY DEF IInv, Counted
  <2>5. c \notin S
    BY <1>1
  <2>6. Cardinality(S \cup {c}) = Cardinality(S) + 1
    BY <2>3, <2>5, FS_AddElement
  <2>7. CASE u = v
    <3>1. {d \in registered' : UserAt(d)' = u} = S \cup {c}
      BY <1>3, <1>5, <2>2, <2>7
    <3>2. online'[u] = online[u] + 1
      BY <1>3, <1>5, <2>7 DEF IInv, TypeOK
    <3> QED
      BY <2>4, <2>6, <3>1, <3>2
  <2>8. CASE u # v
    <3>1. {d \in registered' : UserAt(d)' = u} = S
      BY <1>3, <1>5, <2>2, <2>8
    <3>2. online'[u] = online[u]
      BY <1>3, <1>5, <2>8 DEF IInv, TypeOK
    <3> QED
      BY <2>4, <3>1, <3>2
  <2> QED
    BY <2>7, <2>8
<1> QED
  BY <1>1, <1>2, <1>3, <1>4, <1>6, <1>7, ServedStep

(* What a connection becomes when something is sent on it.                 *)
LEMMA SentLike ==
  ASSUME NEW k \in Connection, NEW p \in Position
  PROVE  /\ Sent(k, p) \in Connection /\ Sent(k, p).subs = k.subs
         /\ Sent(k, p).tab = k.tab /\ Sent(k, p).stage = k.stage
         /\ Sent(k, p).link = k.link /\ Sent(k, p).inbox = k.inbox
<1>1. Append(k.outbox, p) \in Seq(Position)
  BY DEF Connection
<1> QED
  BY <1>1 DEF Sent, Connection

(* The snapshot is sent.                                                   *)
LEMMA SendSnapshotStep ==
  ASSUME IInv, NEW c \in Conn, SendSnapshot(c)
  PROVE  IInv'
<1>1. PICK k \in Connection : k = conn[c]
  BY DEF IInv, TypeOK
<1>2. PICK p \in Position : p = k.read
  BY <1>1 DEF SendSnapshot, Connection
<1>3. PICK s \in Connection :
        /\ s = Sent(k, p) /\ s.subs = k.subs /\ s.inbox = k.inbox
        /\ s.tab = k.tab /\ s.stage = k.stage /\ s.link = k.link
  BY SentLike
<1> DEFINE j == [s EXCEPT !.read = "none"]
<1>4. conn' = [conn EXCEPT ![c] = j]
  BY <1>1, <1>2, <1>3 DEF SendSnapshot, IInv, TypeOK
<1>5. /\ j \in Connection /\ j.subs = k.subs /\ j.inbox = k.inbox
      /\ j.tab = k.tab /\ j.stage = k.stage /\ j.link = k.link
  BY <1>3 DEF Connection
<1>6. OtherTypes'
  BY DEF SendSnapshot, OtherTypes, IInv, TypeOK, browser, counts, engine
<1> HIDE DEF j
<1>7. Like(c, j)
  BY <1>1, <1>5 DEF Like
<1> QED
  BY <1>4, <1>5, <1>6, <1>7, ConnStep DEF SendSnapshot

(* An update is sent to those who listen.                                  *)
LEMMA BroadcastStep ==
  ASSUME IInv, OtherTypes', NEW u \in User, NEW p \in Position,
         Broadcast(u, p), UNCHANGED <<server, leaked>>
  PROVE  IInv'
<1>1. ASSUME NEW c \in Conn
      PROVE  conn'[c] \in Connection /\ Like(c, conn'[c])
  <2>1. conn[c] \in Connection
    BY DEF IInv, TypeOK
  <2>2. conn'[c] = Sent(conn[c], p) \/ conn'[c] = conn[c]
    BY DEF Broadcast
  <2> QED
    BY <2>1, <2>2, SentLike DEF Like
<1>2. conn' \in [Conn -> Connection]
  BY <1>1 DEF Broadcast
<1> QED
  BY <1>1, <1>2, ConnsStep

(* A position is opened, broadcast, closed or dropped.                     *)
LEMMA EngineStep ==
  ASSUME IInv, NEW u \in User,
         Opens(u) \/ Announces(u) \/ ClosesPosition(u) \/ DropsPosition(u)
  PROVE  IInv'
<1>1. OtherTypes'
  <2>1. trades' \in 0..MaxTrades
    BY BoundAssumption
    DEF Opens, Announces, ClosesPosition, DropsPosition, Trades, counts, IInv,
        TypeOK
  <2>2. /\ book' \in [User -> Position]
        /\ opening' \subseteq {v \in User : book'[v] = "open"}
    BY DEF Opens, Announces, ClosesPosition, DropsPosition, IInv, TypeOK,
           Position
  <2>3. untold' \subseteq Conn
    BY DEF Opens, Announces, ClosesPosition, DropsPosition, ghosts, IInv,
           TypeOK
  <2> QED
    BY <2>1, <2>2, <2>3
    DEF Opens, Announces, ClosesPosition, DropsPosition, OtherTypes, IInv,
        TypeOK, browser, ghosts, counts
<1>2. CASE Opens(u) \/ DropsPosition(u)
  <2>1. conn' = conn /\ UNCHANGED <<server, leaked>>
    BY <1>2 DEF Opens, DropsPosition, ghosts
  <2> QED
    BY <1>1, <2>1, ConnsStep DEF Like, IInv, TypeOK
<1>3. CASE Announces(u) \/ ClosesPosition(u)
  <2>1. /\ Broadcast(u, "open") \/ Broadcast(u, "flat")
        /\ UNCHANGED <<server, leaked>>
    BY <1>3 DEF Announces, ClosesPosition, ghosts
  <2> QED
    BY <1>1, <2>1, BroadcastStep DEF Position
<1> QED
  BY <1>2, <1>3

-----------------------------------------------------------------------------
(* The theorems.                                                           *)

(* The invariant holds at the start,                                       *)
LEMMA InitIInv ==
  ASSUME Init
  PROVE  IInv
<1>1. Unused \in Connection
  BY NoFrames DEF Unused, Connection
<1>2. TypeOK
  BY <1>1, BoundAssumption DEF Init, TypeOK, Position
<1>3. Counted
  <2>1. \A u \in User : {c \in registered : UserAt(c) = u} = {}
    BY DEF Init
  <2> QED
    BY <2>1, FS_EmptySet DEF Init, Counted
<1>4. Indexed
  BY DEF Init, Indexed
<1>5. \A c \in Conn : Sane(c)
  BY DEF Init, Sane, Unused, Stage, Link
<1> QED
  BY <1>2, <1>3, <1>4, <1>5 DEF IInv

(* is kept by every step,                                                  *)
LEMMA NextIInv ==
  ASSUME IInv, [Next]_vars
  PROVE  IInv'
<1>1. CASE Next
  <2>1. ASSUME NEW t \in Tab, NEW c \in Conn, Connect(t, c) PROVE IInv'
    BY <2>1, ConnectStep
  <2>2. ASSUME NEW t \in Tab, NEW s \in Symbol, Toggle(t, s) PROVE IInv'
    BY <2>2, ToggleStep
  <2>3. ASSUME NEW t \in Tab, LosesSocket(t) PROVE IInv'
    BY <2>3, LosesSocketStep
  <2>4. ASSUME NEW c \in Conn, Progress(c) PROVE IInv'
    BY <2>4, ApplyStep, ReceiveStep, AuthenticatedStep, SendSnapshotStep,
       CloseEventStep DEF Progress
  <2>5. ASSUME NEW c \in Conn, Cut(c) \/ Closes(c) \/ Terminate(c)
        PROVE  IInv'
    BY <2>5, LinkSteps
  <2>6. ASSUME NEW c \in Conn, Refuse(c) \/ Errs(c) PROVE IInv'
    BY <2>6, RefuseStep, ErrsStep
  <2>7. ASSUME NEW u \in User,
               \/ Opens(u) \/ Announces(u)
               \/ ClosesPosition(u) \/ DropsPosition(u)
        PROVE  IInv'
    BY <2>7, EngineStep
  <2> QED
    BY <1>1, <2>1, <2>2, <2>3, <2>4, <2>5, <2>6, <2>7 DEF Next
<1>2. CASE UNCHANGED vars
  <2>1. UNCHANGED <<conn, server, leaked>> /\ OtherTypes'
    BY <1>2 DEF vars, browser, ghosts, counts, OtherTypes, IInv, TypeOK, engine
  <2> QED
    BY <2>1, ConnsStep DEF Like, IInv, TypeOK
<1> QED
  BY <1>1, <1>2

(* and so holds always.                                                    *)
LEMMA Invariance == Spec => []IInv
<1>1. Init => IInv
  BY InitIInv
<1>2. IInv /\ [Next]_vars => IInv'
  BY NextIInv
<1> QED
  BY <1>1, <1>2, PTL DEF Spec

(* Every variable keeps its type: frames on their way are commands, counts *)
(* are natural numbers, and what leaked is still registered.               *)
THEOREM Typing == Spec => []TypeOK
<1>1. IInv => TypeOK
  BY DEF IInv
<1> QED
  BY <1>1, Invariance, PTL

(* For any tabs, users, symbols, connections and limits, and whatever is   *)
(* lost or closed in between: the presence counts and the index by symbol  *)
(* are exactly what the registered connections make them, and only a       *)
(* connection whose close event came before its user was known stays.      *)
THEOREM Presence == Spec => []PresenceExact
<1>1. IInv => PresenceExact
  <2> SUFFICES ASSUME IInv PROVE PresenceExact
    OBVIOUS
  <2>1. \A c \in registered : c \in Conn
    BY DEF IInv, TypeOK
  <2>2. \A c \in registered : Link(c) = "gone" => c \in leaked
    BY <2>1 DEF IInv, Sane
  <2>3. \A c \in Conn :
          Stage(c) = "served" /\ Link(c) \in {"up", "cut"} => c \in registered
    BY DEF IInv, Sane
  <2> QED
    BY <2>2, <2>3 DEF PresenceExact, IInv, Counted, Indexed
<1> QED
  BY <1>1, Invariance, PTL

-----------------------------------------------------------------------------
(* What both ends hold once the frames on their way are handled.           *)

Has(q, f) == \E i \in 1..Len(q) : q[i] = f

(* Each g among the frames q is followed by an f.                          *)
Overrides(q, f, g) ==
  \A i \in 1..Len(q) : q[i] = g => \E j \in 1..Len(q) : j > i /\ q[j] = f

(* Frames q turn the subscriptions in base into goal.                      *)
Leads(q, base, goal) ==
  \A s \in Symbol :
    /\ s \in goal => /\ s \in base \/ Has(q, Subscribing(s))
                     /\ Overrides(q, Subscribing(s), Unsubscribing(s))
    /\ s \notin goal => /\ s \notin base \/ Has(q, Unsubscribing(s))
                        /\ Overrides(q, Unsubscribing(s), Subscribing(s))

(* Frames of different kinds, or about different symbols, differ.           *)
LEMMA FrameKinds ==
  /\ AccountFrame \in Frame
  /\ \A s \in Symbol :
       /\ Subscribing(s) \in Frame /\ Unsubscribing(s) \in Frame
       /\ Subscribing(s) # AccountFrame /\ Unsubscribing(s) # AccountFrame
       /\ \A x \in Symbol : /\ Subscribing(s) # Unsubscribing(x)
                            /\ Subscribing(s) = Subscribing(x) => s = x
                            /\ Unsubscribing(s) = Unsubscribing(x) => s = x
BY DEF Frame, AccountFrame, Subscribing, Unsubscribing

(* Each frame is of one of the three kinds.                                 *)
LEMMA FrameIsOne ==
  ASSUME NEW f \in Frame
  PROVE  \/ f = AccountFrame
         \/ \E s \in Symbol : f = Subscribing(s) \/ f = Unsubscribing(s)
<1>1. CASE f \in [type: {"account_subscribe"}, symbol: {None}]
  BY <1>1 DEF AccountFrame
<1>2. CASE f \in [type: {"subscribe", "unsubscribe"}, symbol: Symbol]
  BY <1>2 DEF Subscribing, Unsubscribing
<1> QED
  BY <1>1, <1>2 DEF Frame

(* With no frames on their way nothing is asked or overridden.              *)
LEMMA NothingInNone ==
  ASSUME NEW f, NEW g
  PROVE  ~ Has(<<>>, f) /\ Overrides(<<>>, f, g)
BY DEF Has, Overrides

(* A frame sent last overrides all others.                                  *)
LEMMA AfterAppend ==
  ASSUME NEW q \in Seq(Frame), NEW h \in Frame
  PROVE  /\ Has(Append(q, h), h)
         /\ \A f : Has(q, f) => Has(Append(q, h), f)
         /\ \A g : g # h => Overrides(Append(q, h), h, g)
         /\ \A f, g : Overrides(q, f, g) /\ g # h =>
              Overrides(Append(q, h), f, g)
<1> DEFINE r == Append(q, h)
           n == Len(q)
<1>1. /\ n \in Nat /\ Len(r) = n + 1 /\ r[n + 1] = h
      /\ \A i \in 1..n : r[i] = q[i]
  OBVIOUS
<1>2. 1..(n + 1) = 1..n \cup {n + 1} /\ \A i \in 1..n : n + 1 > i
  BY <1>1
<1> HIDE DEF r
<1> QED
  BY <1>1, <1>2 DEF Has, Overrides

(* A frame handled leaves the frames behind it.                             *)
LEMMA AfterTail ==
  ASSUME NEW q \in Seq(Frame), q # <<>>
  PROVE  /\ \A f : Has(q, f) => Head(q) = f \/ Has(Tail(q), f)
         /\ \A f, g : Overrides(q, f, g) => Overrides(Tail(q), f, g)
         /\ \A f, g : Overrides(q, f, g) /\ Head(q) = g => Has(Tail(q), f)
<1> DEFINE r == Tail(q)
           n == Len(q)
<1>1. /\ n \in Nat /\ n # 0 /\ Len(r) = n - 1 /\ Head(q) = q[1]
      /\ \A i \in 1..(n - 1) : r[i] = q[i + 1]
  OBVIOUS
<1> HIDE DEF r, n
<1>2. ASSUME NEW i \in 1..n, i # 1
      PROVE  i - 1 \in 1..Len(r) /\ r[i - 1] = q[i]
  <2>1. i - 1 \in 1..(n - 1) /\ (i - 1) + 1 = i
    BY <1>1, <1>2
  <2> QED
    BY <1>1, <2>1
<1>3. ASSUME NEW f, Has(q, f) PROVE Head(q) = f \/ Has(r, f)
  BY <1>1, <1>2, <1>3 DEF Has, n
<1>4. ASSUME NEW f, NEW g, Overrides(q, f, g) PROVE Overrides(r, f, g)
  <2> SUFFICES ASSUME NEW i \in 1..Len(r), r[i] = g
               PROVE  \E j \in 1..Len(r) : j > i /\ r[j] = f
    BY DEF Overrides
  <2>1. i + 1 \in 1..n /\ q[i + 1] = g
    BY <1>1
  <2>2. PICK j \in 1..n : j > i + 1 /\ q[j] = f
    BY <1>4, <2>1 DEF Overrides, n
  <2>3. j # 1 /\ j - 1 > i
    BY <1>1, <2>2
  <2>4. j - 1 \in 1..Len(r) /\ r[j - 1] = f
    BY <1>2, <2>2, <2>3
  <2> QED
    BY <2>3, <2>4
<1>5. ASSUME NEW f, NEW g, Overrides(q, f, g), Head(q) = g PROVE Has(r, f)
  <2>1. 1 \in 1..n /\ q[1] = g
    BY <1>1, <1>5
  <2>2. PICK j \in 1..n : j > 1 /\ q[j] = f
    BY <1>5, <2>1 DEF Overrides, n
  <2>3. j - 1 \in 1..Len(r) /\ r[j - 1] = f
    BY <1>1, <1>2, <2>2
  <2> QED
    BY <2>3 DEF Has
<1> QED
  BY <1>3, <1>4, <1>5 DEF r

(* The first frame has been handled: k became j.                           *)
Took(k, f, j) ==
  /\ j.inbox = k.inbox /\ j.outbox = k.outbox /\ j.stage = k.stage
  /\ j.link = "up" => k.link = "up"
  /\ f = AccountFrame =>
       j.account /\ j.read # "none" /\ j.subs = k.subs
  /\ f # AccountFrame => j.account = k.account /\ j.read = k.read
  /\ \A s \in Symbol :
       /\ f = Subscribing(s) =>
            j.subs = k.subs \cup {s} \/ j.link # "up"
       /\ f = Unsubscribing(s) => j.subs = k.subs \ {s}

(* A command does to its connection what its frame says.                    *)
LEMMA HandleTook ==
  ASSUME IInv, NEW c \in Conn, Stage(c) # "unused", NEW k \in Connection,
         NEW index \in [Symbol -> SUBSET Conn], NEW f \in Frame
  PROVE  Took(k, f, Handle([k |-> k, index |-> index], c, f).k)
<1> DEFINE at == [k |-> k, index |-> index]
<1>1. PICK p \in Position : p = book[UserAt(c)]
  BY UserAtType DEF IInv, TypeOK
<1>2. CASE f = AccountFrame
  <2> DEFINE j == [k EXCEPT !.account = TRUE, !.read = p]
  <2>1. Handle(at, c, f).k = j
    BY <1>1, <1>2 DEF Handle, AccountFrame
  <2>2. /\ j.inbox = k.inbox /\ j.outbox = k.outbox /\ j.stage = k.stage
        /\ j.link = k.link /\ j.account /\ j.read = p /\ j.subs = k.subs
    BY DEF Connection
  <2>3. p # "none"
    BY DEF Position
  <2> HIDE DEF j
  <2> QED
    BY <1>2, <2>1, <2>2, <2>3, FrameKinds DEF Took
<1>3. ASSUME NEW s \in Symbol, f = Unsubscribing(s)
      PROVE  Took(k, f, Handle(at, c, f).k)
  <2> DEFINE j == [k EXCEPT !.subs = @ \ {s}]
  <2>1. Handle(at, c, f).k = j
    BY <1>3 DEF Handle, Unsubscribing
  <2>2. /\ j.inbox = k.inbox /\ j.outbox = k.outbox /\ j.stage = k.stage
        /\ j.link = k.link /\ j.account = k.account /\ j.read = k.read
        /\ j.subs = k.subs \ {s}
    BY DEF Connection
  <2> HIDE DEF j
  <2> QED
    BY <1>3, <2>1, <2>2, FrameKinds DEF Took
<1>4. ASSUME NEW s \in Symbol, f = Subscribing(s)
      PROVE  Took(k, f, Handle(at, c, f).k)
  <2>1. CASE s \notin k.subs /\ Cardinality(k.subs) >= MaxSubs
    <3> DEFINE l == IF k.link = "gone" THEN k.link ELSE "ended"
               j == [k EXCEPT !.link = l]
    <3>1. Handle(at, c, f).k = j
      BY <1>4, <2>1 DEF Handle, Subscribing
    <3>2. l # "up"
      OBVIOUS
    <3> HIDE DEF l
    <3>3. /\ j.inbox = k.inbox /\ j.outbox = k.outbox /\ j.stage = k.stage
          /\ j.link = l /\ j.account = k.account /\ j.read = k.read
      BY DEF Connection
    <3> HIDE DEF j
    <3> QED
      BY <1>4, <3>1, <3>2, <3>3, FrameKinds DEF Took
  <2>2. CASE ~ (s \notin k.subs /\ Cardinality(k.subs) >= MaxSubs)
    <3> DEFINE j == [k EXCEPT !.subs = @ \cup {s}]
    <3>1. Handle(at, c, f).k = j
      BY <1>4, <2>2 DEF Handle, Subscribing
    <3>2. /\ j.inbox = k.inbox /\ j.outbox = k.outbox /\ j.stage = k.stage
          /\ j.link = k.link /\ j.account = k.account /\ j.read = k.read
          /\ j.subs = k.subs \cup {s}
      BY DEF Connection
    <3> HIDE DEF j
    <3> QED
      BY <1>4, <3>1, <3>2, FrameKinds DEF Took
  <2> QED
    BY <2>1, <2>2
<1> QED
  BY <1>2, <1>3, <1>4, FrameIsOne

(* A frame handled leaves the subscriptions the rest leads to.              *)
LEMMA LeadsAfterTail ==
  ASSUME NEW q \in Seq(Frame), q # <<>>, NEW k, NEW j, NEW goal,
         Took(k, Head(q), j), j.link = "up", Leads(q, k.subs, goal)
  PROVE  Leads(Tail(q), j.subs, goal)
<1> SUFFICES ASSUME NEW s \in Symbol
             PROVE
    /\ s \in goal => /\ s \in j.subs \/ Has(Tail(q), Subscribing(s))
                     /\ Overrides(Tail(q), Subscribing(s), Unsubscribing(s))
    /\ s \notin goal => /\ s \notin j.subs \/ Has(Tail(q), Unsubscribing(s))
                        /\ Overrides(Tail(q), Unsubscribing(s), Subscribing(s))
  BY DEF Leads
<1>1. Head(q) \in Frame
  OBVIOUS
<1>2. \/ Head(q) = Subscribing(s) /\ s \in j.subs
      \/ Head(q) = Unsubscribing(s) /\ s \notin j.subs
      \/ /\ Head(q) \notin {Subscribing(s), Unsubscribing(s)}
         /\ s \in j.subs <=> s \in k.subs
  <2>1. CASE Head(q) = AccountFrame
    BY <2>1, FrameKinds DEF Took
  <2>2. ASSUME NEW x \in Symbol, Head(q) = Subscribing(x) PROVE <1>2
    BY <2>2, FrameKinds DEF Took
  <2>3. ASSUME NEW x \in Symbol, Head(q) = Unsubscribing(x) PROVE <1>2
    BY <2>3, FrameKinds DEF Took
  <2> QED
    BY <1>1, <2>1, <2>2, <2>3, FrameIsOne
<1>3. CASE s \in goal
  <2>1. s \in k.subs \/ Has(q, Subscribing(s))
    BY <1>3 DEF Leads
  <2>2. Overrides(q, Subscribing(s), Unsubscribing(s))
    BY <1>3 DEF Leads
  <2> QED
    BY <1>2, <1>3, <2>1, <2>2, AfterTail
<1>4. CASE s \notin goal
  <2>1. s \notin k.subs \/ Has(q, Unsubscribing(s))
    BY <1>4 DEF Leads
  <2>2. Overrides(q, Unsubscribing(s), Subscribing(s))
    BY <1>4 DEF Leads
  <2> QED
    BY <1>2, <1>4, <2>1, <2>2, AfterTail
<1> QED
  BY <1>3, <1>4

(* Frames q bring connection k to the subscriptions in goal and to the     *)
(* account.                                                                *)
Hears(k, q, goal) ==
  /\ Leads(q, k.subs, goal)
  /\ k.account \/ Has(q, AccountFrame)

(* It leaves the account as well.                                           *)
LEMMA HearsAfterTail ==
  ASSUME NEW q \in Seq(Frame), q # <<>>, NEW k, NEW j, NEW goal,
         Took(k, Head(q), j), j.link = "up", Hears(k, q, goal)
  PROVE  Hears(j, Tail(q), goal)
<1>1. Leads(Tail(q), j.subs, goal)
  BY LeadsAfterTail DEF Hears
<1>2. j.account \/ Has(Tail(q), AccountFrame)
  <2>1. CASE Head(q) = AccountFrame
    BY <2>1 DEF Took
  <2>2. CASE Head(q) # AccountFrame
    <3>1. Has(q, AccountFrame) => Has(Tail(q), AccountFrame)
      BY <2>2, AfterTail
    <3>2. j.account = k.account
      BY <2>2 DEF Took
    <3>3. CASE k.account
      BY <3>2, <3>3
    <3>4. CASE ~ k.account
      BY <3>1, <3>4 DEF Hears
    <3> QED
      BY <3>3, <3>4
  <2> QED
    BY <2>1, <2>2
<1> QED
  BY <1>1, <1>2 DEF Hears

(* The frames that remain when i of those kept have been replayed.         *)
Rest(c, i) == SubSeq(conn[c].early, i + 1, Len(conn[c].early)) \o conn[c].inbox

(* The replay takes the frames kept one by one.                             *)
LEMMA RestSteps ==
  ASSUME IInv, NEW c \in Conn
  PROVE  /\ Rest(c, 0) = conn[c].early \o conn[c].inbox
         /\ Rest(c, Len(conn[c].early)) = conn[c].inbox
         /\ \A i \in 1..Len(conn[c].early) :
              /\ Rest(c, i - 1) \in Seq(Frame) /\ Rest(c, i - 1) # <<>>
              /\ Head(Rest(c, i - 1)) = conn[c].early[i]
              /\ Tail(Rest(c, i - 1)) = Rest(c, i)
<1>1. PICK k \in Connection : k = conn[c]
  BY DEF IInv, TypeOK
<1> DEFINE e == conn[c].early
           b == conn[c].inbox
           n == Len(e)
<1>2. e \in Seq(Frame) /\ b \in Seq(Frame) /\ n \in Nat
  BY <1>1 DEF Connection
<1> HIDE DEF e, b
<1>3. SubSeq(e, 1, n) = e
  BY <1>2
<1>4. SubSeq(e, n + 1, n) = <<>> /\ <<>> \o b = b
  BY <1>2, SubSeqEmpty, ConcatEmptySeq
<1>5. ASSUME NEW i \in 1..n
      PROVE  /\ SubSeq(e, i, n) \o b \in Seq(Frame)
             /\ SubSeq(e, i, n) \o b # <<>>
             /\ Head(SubSeq(e, i, n) \o b) = e[i]
             /\ Tail(SubSeq(e, i, n) \o b) = SubSeq(e, i + 1, n) \o b
  <2> DEFINE x == SubSeq(e, i, n)
             y == SubSeq(e, i + 1, n)
  <2>1. x \in Seq(Frame) /\ y \in Seq(Frame) /\ e[i] \in Frame
    BY <1>2
  <2>2. x = <<e[i]>> \o y
    BY <1>2, SubSeqRecursiveFirst
  <2> HIDE DEF x, y
  <2>3. x \o b = <<e[i]>> \o (y \o b)
    BY <1>2, <2>1, <2>2
  <2>4. y \o b \in Seq(Frame)
    BY <1>2, <2>1
  <2> DEFINE z == y \o b
  <2> HIDE DEF z
  <2>5. /\ <<e[i]>> \o z \in Seq(Frame) /\ <<e[i]>> \o z # <<>>
        /\ Head(<<e[i]>> \o z) = e[i] /\ Tail(<<e[i]>> \o z) = z
    BY <2>1, <2>4 DEF z
  <2> QED
    BY <2>3, <2>5 DEF x, y, z
<1> QED
  <2>1. Rest(c, 0) = e \o b /\ Rest(c, n) = b
    <3>1. 0 + 1 = 1
      OBVIOUS
    <3>2. Rest(c, 0) = SubSeq(e, 1, n) \o b
      BY <3>1 DEF Rest, e, b
    <3>3. Rest(c, n) = SubSeq(e, n + 1, n) \o b
      BY DEF Rest, e, b
    <3> QED
      BY <1>3, <1>4, <3>2, <3>3
  <2>2. ASSUME NEW i \in 1..n
        PROVE  /\ Rest(c, i - 1) = SubSeq(e, i, n) \o b
               /\ Rest(c, i) = SubSeq(e, i + 1, n) \o b
    <3>1. (i - 1) + 1 = i
      BY <1>2
    <3> QED
      BY <3>1 DEF Rest, e, b
  <2>3. ASSUME NEW i \in 1..n
        PROVE  /\ Rest(c, i - 1) \in Seq(Frame) /\ Rest(c, i - 1) # <<>>
               /\ Head(Rest(c, i - 1)) = e[i]
               /\ Tail(Rest(c, i - 1)) = Rest(c, i)
    BY <1>5, <2>2
  <2> QED
    BY <2>1, <2>3 DEF e, b

(* After the replay, what is still on its way brings the connection where  *)
(* all frames would have brought it.                                       *)
LEMMA ReplayHears ==
  ASSUME IInv, NEW c \in Conn, Stage(c) = "auth", ~ conn[c].account, NEW goal,
         NEW j, j = Replayed(c).k
  PROVE  /\ j.inbox = conn[c].inbox /\ j.outbox = conn[c].outbox
         /\ j.link = "up" => Link(c) = "up"
         /\ j.account => j.read # "none"
         /\ /\ j.link = "up"
            /\ Hears(conn[c], conn[c].early \o conn[c].inbox, goal)
            => Hears(j, j.inbox, goal)
<1> DEFINE n == Len(Replay(c))
           Good(k, i) ==
             /\ k.inbox = conn[c].inbox /\ k.outbox = conn[c].outbox
             /\ k.link = "up" => Link(c) = "up"
             /\ k.account => k.read # "none"
             /\ /\ k.link = "up"
                /\ Hears(conn[c], conn[c].early \o conn[c].inbox, goal)
                => Hears(k, Rest(c, i), goal)
           S == {i \in 0..n : /\ Serves(c, Table(c)[i])
                              /\ Good(Table(c)[i].k, i)}
<1>1. PICK k \in Connection : k = conn[c]
  BY DEF IInv, TypeOK
<1>2. Replay(c) = conn[c].early /\ n \in Nat
  BY TableSteps DEF Replay
<1>4. 0 \in S
  <2>1. 0 \in 0..n
    BY <1>2
  <2>2. Table(c)[0] = [k |-> Fresh(c), index |-> bySymbol]
    BY TableSteps
  <2>3. Serves(c, Table(c)[0])
    BY <2>2, FreshServes
  <2> DEFINE f == Fresh(c)
  <2>4. /\ f.inbox = k.inbox /\ f.outbox = k.outbox /\ f.link = k.link
        /\ f.subs = k.subs /\ f.account = k.account
    BY <1>1 DEF Fresh, Connection
  <2> HIDE DEF f
  <2>5. Hears(k, Rest(c, 0), goal) => Hears(f, Rest(c, 0), goal)
    BY <2>4 DEF Hears
  <2>6. Good(f, 0)
    BY <1>1, <2>4, <2>5, RestSteps DEF Link
  <2> QED
    BY <2>1, <2>2, <2>3, <2>6 DEF f
<1>5. ASSUME NEW i \in 1..n, i - 1 \in S PROVE i \in S
  <2> DEFINE f == Replay(c)[i]
             at == Table(c)[i - 1]
  <2>1. Serves(c, at) /\ Good(at.k, i - 1)
    BY <1>5
  <2>2. i \in 0..n /\ i # 0
    BY <1>2
  <2>3. Table(c)[i] = Handle(at, c, f) /\ f \in Frame
    BY TableSteps
  <2>4. Serves(c, Table(c)[i])
    BY <2>1, <2>3, HandleServes
  <2>5. PICK l \in Connection, index \in [Symbol -> SUBSET Conn] :
          at = [k |-> l, index |-> index]
    BY <2>1 DEF Serves
  <2> DEFINE m == Table(c)[i].k
  <2>6. Took(l, f, m)
    BY <2>3, <2>5, HandleTook
  <2>7. at.k = l
    BY <2>5
  <2> HIDE DEF at, m
  <2>8. Good(l, i - 1)
    BY <2>1, <2>7
  <2>9. m.account => m.read # "none"
    <3>1. CASE f = AccountFrame
      BY <2>6, <3>1 DEF Took
    <3>2. CASE f # AccountFrame
      BY <2>6, <2>8, <3>2 DEF Took
    <3> QED
      BY <3>1, <3>2
  <2>10. /\ m.inbox = conn[c].inbox /\ m.outbox = conn[c].outbox
         /\ m.link = "up" => l.link = "up"
    BY <2>6, <2>8 DEF Took
  <2>11. ASSUME m.link = "up",
                Hears(conn[c], conn[c].early \o conn[c].inbox, goal)
         PROVE  Hears(m, Rest(c, i), goal)
    <3>1. Hears(l, Rest(c, i - 1), goal)
      BY <2>8, <2>10, <2>11
    <3>2. /\ Rest(c, i - 1) \in Seq(Frame) /\ Rest(c, i - 1) # <<>>
          /\ Head(Rest(c, i - 1)) = f /\ Tail(Rest(c, i - 1)) = Rest(c, i)
      BY <1>2, RestSteps
    <3> QED
      BY <2>6, <2>11, <3>1, <3>2, HearsAfterTail
  <2>12. Good(m, i)
    BY <2>8, <2>9, <2>10, <2>11
  <2> QED
    BY <2>2, <2>4, <2>12 DEF m
<1>6. n \in S
  <2> HIDE DEF S, n
  <2> QED
    BY <1>2, <1>4, <1>5, Counting DEF n
<1>7. j = Table(c)[n].k
  BY TableOfReplay
<1>8. Rest(c, n) = conn[c].inbox
  BY <1>2, RestSteps
<1> QED
  BY <1>6, <1>7, <1>8

(* The frames of connection k that its server has not handled.             *)
Pending(k) == IF k.stage = "auth" THEN k.early \o k.inbox ELSE k.inbox

(* What the tab shows when it has taken all that was sent to it.           *)
LastSent(k, value) ==
  IF k.outbox = <<>> THEN value ELSE k.outbox[Len(k.outbox)]

(* The subscriptions and the account get to where tab t wants them, and so *)
(* does the position, unless it is still to be broadcast, a snapshot is on *)
(* its way, or the tab was left with what is no longer so.                 *)
Attuned(t, c) ==
  /\ c \notin truncated => Hears(conn[c], Pending(conn[c]), desired[t])
  /\ /\ Stage(c) = "served" /\ conn[c].account /\ conn[c].read = "none"
     /\ c \notin Misled /\ UserOf[t] \notin opening
     => LastSent(conn[c], shown[t]) = book[UserOf[t]]

(* A tab's socket is its own, and both of its ends agree in the end.       *)
Tuned(t) ==
  socket[t] # None =>
    /\ conn[socket[t]].tab = t /\ Stage(socket[t]) # "unused"
    /\ Link(socket[t]) = "up" => Attuned(t, socket[t])

(* What a connection is before the server knows its user.                   *)
Plain(c) ==
  /\ Stage(c) = "refused" => Link(c) # "up"
  /\ Stage(c) = "auth" => ~ conn[c].account

(* The invariant behind QuietMeansAgreed.                                   *)
QInv ==
  /\ IInv
  /\ \A t \in Tab : Tuned(t)
  /\ \A c \in Conn : Plain(c)

(* Only the subscriptions and the account of a connection matter.           *)
LEMMA HearsBy ==
  ASSUME NEW k, NEW j, NEW q, NEW goal,
         j.subs = k.subs, j.account = k.account, Hears(k, q, goal)
  PROVE  Hears(j, q, goal)
BY DEF Hears

(* Nothing of tab t and its connection changes.                            *)
LEMMA SameTab ==
  ASSUME QInv, NEW t \in Tab, socket'[t] = socket[t],
         socket[t] # None => conn'[socket[t]] = conn[socket[t]],
         desired'[t] = desired[t], shown'[t] = shown[t],
         book'[UserOf[t]] = book[UserOf[t]],
         UserOf[t] \in opening => UserOf[t] \in opening',
         socket[t] \in truncated => socket[t] \in truncated',
         socket[t] \in Misled => socket[t] \in Misled'
  PROVE  Tuned(t)'
<1> SUFFICES ASSUME socket[t] # None
             PROVE  /\ conn'[socket[t]].tab = t /\ Stage(socket[t])' # "unused"
                    /\ Link(socket[t])' = "up" => Attuned(t, socket[t])'
  BY DEF Tuned
<1>1. Tuned(t)
  BY DEF QInv
<1> QED
  BY <1>1 DEF Tuned, Attuned, Stage, Link

(* The link of tab t is no longer up.                                      *)
LEMMA DeadTab ==
  ASSUME NEW t \in Tab,
         socket'[t] # None =>
           /\ conn'[socket'[t]].tab = t /\ conn'[socket'[t]].stage # "unused"
           /\ conn'[socket'[t]].link # "up"
  PROVE  Tuned(t)'
BY DEF Tuned, Stage, Link

(* No two tabs share a socket.                                              *)
LEMMA SocketsDiffer ==
  ASSUME QInv, NEW t \in Tab, NEW u \in Tab, t # u, socket[t] # None
  PROVE  socket[t] # socket[u]
BY DEF QInv, Tuned

(* One connection changes, and its link is not up any more.                *)
LEMMA DeadStep ==
  ASSUME QInv, IInv', NEW c \in Conn, NEW k \in Connection,
         conn' = [conn EXCEPT ![c] = k], UNCHANGED <<browser, engine>>,
         k.tab = conn[c].tab, k.link # "up",
         k.stage = "unused" => conn[c].stage = "unused",
         k.stage = "auth" =>
           conn[c].stage = "auth" /\ k.account = conn[c].account,
         \A d \in Conn \ {c} : /\ d \in truncated => d \in truncated'
                               /\ d \in Misled => d \in Misled'
  PROVE  QInv'
<1>1. conn'[c] = k /\ \A d \in Conn : d # c => conn'[d] = conn[d]
  BY DEF QInv, IInv, TypeOK
<1>2. ASSUME NEW t \in Tab PROVE Tuned(t)'
  <2>1. /\ socket' = socket /\ desired' = desired /\ shown' = shown
        /\ book' = book /\ opening' = opening
    BY DEF browser, engine
  <2>2. socket[t] \in Conn \cup {None} /\ None \notin Conn
    BY DEF QInv, IInv, TypeOK, Conn, None
  <2>3. CASE socket[t] = c
    BY <1>1, <2>1, <2>3, DeadTab DEF QInv, Tuned, Stage
  <2>4. CASE socket[t] # c /\ socket[t] # None
    BY <1>1, <2>1, <2>2, <2>4, SameTab
  <2>5. CASE socket[t] = None
    BY <2>1, <2>5 DEF Tuned
  <2> QED
    BY <2>3, <2>4, <2>5
<1>3. ASSUME NEW d \in Conn PROVE Plain(d)'
  BY <1>1 DEF QInv, Plain, Stage, Link
<1> QED
  BY <1>2, <1>3 DEF QInv

(* One connection changes, whose link was not up or belongs to no tab, or  *)
(* whose tab is attuned to it after the step.                              *)
LEMMA LiveStep ==
  ASSUME QInv, IInv', NEW c \in Conn, NEW k \in Connection,
         conn' = [conn EXCEPT ![c] = k],
         UNCHANGED <<socket, desired, engine>>,
         \A t \in Tab : socket[t] # c => shown'[t] = shown[t],
         k.tab = conn[c].tab, k.link = "up" => conn[c].link = "up",
         k.stage \in {"unused", "refused"} => k.stage = conn[c].stage,
         k.stage = "auth" =>
           conn[c].stage = "auth" /\ k.account = conn[c].account,
         \A d \in Conn \ {c} : /\ d \in truncated => d \in truncated'
                               /\ d \in Misled => d \in Misled',
         \A t \in Tab : /\ socket[t] = c /\ k.link = "up"
                        /\ conn[c].tab = t /\ Attuned(t, c)
                        => Attuned(t, c)'
  PROVE  QInv'
<1>1. conn'[c] = k /\ \A d \in Conn : d # c => conn'[d] = conn[d]
  BY DEF QInv, IInv, TypeOK
<1>2. ASSUME NEW t \in Tab PROVE Tuned(t)'
  <2>1. socket[t] \in Conn \cup {None} /\ None \notin Conn
    BY DEF QInv, IInv, TypeOK, Conn, None
  <2>2. Tuned(t)
    BY DEF QInv
  <2>3. CASE socket[t] = c
    <3>1. conn[c].tab = t /\ conn[c].stage # "unused"
      BY <2>1, <2>2, <2>3 DEF Tuned, Stage
    <3>2. CASE k.link = "up"
      <4>1. Attuned(t, c)
        BY <2>1, <2>2, <2>3, <3>2 DEF Tuned, Link
      <4>2. Attuned(t, c)'
        BY <2>3, <3>1, <3>2, <4>1
      <4> QED
        BY <1>1, <2>3, <3>1, <4>2 DEF Tuned, Stage
    <3>3. CASE k.link # "up"
      BY <1>1, <2>3, <3>1, <3>3, DeadTab
    <3> QED
      BY <3>2, <3>3
  <2>4. CASE socket[t] # c /\ socket[t] # None
    BY <1>1, <2>1, <2>4, SameTab DEF engine
  <2>5. CASE socket[t] = None
    BY <2>5 DEF Tuned
  <2> QED
    BY <2>3, <2>4, <2>5
<1>3. ASSUME NEW d \in Conn PROVE Plain(d)'
  BY <1>1 DEF QInv, Plain, Stage, Link
<1> QED
  BY <1>2, <1>3 DEF QInv

(* Links that are cut, closed or given up, sockets that err or close, and  *)
(* connections that are refused.                                           *)
LEMMA QDeadSteps ==
  ASSUME QInv, IInv', NEW c \in Conn,
         \/ Cut(c) \/ Closes(c) \/ Terminate(c)
         \/ Refuse(c) \/ Errs(c) \/ CloseEvent(c)
  PROVE  QInv'
<1>1. PICK k \in Connection : k = conn[c]
  BY DEF QInv, IInv, TypeOK
<1>2. conn \in [Conn -> Connection]
  BY DEF QInv, IInv, TypeOK
<1>3. CASE Cut(c)
  <2> DEFINE j == [k EXCEPT !.link = "cut", !.inbox = <<>>, !.outbox = <<>>]
  <2>1. /\ j \in Connection /\ j.tab = k.tab /\ j.stage = k.stage
        /\ j.account = k.account /\ j.link = "cut"
    BY NoFrames DEF Connection
  <2>2. conn' = [conn EXCEPT ![c] = j]
    BY <1>1, <1>2, <1>3 DEF Cut
  <2> HIDE DEF j
  <2> QED
    BY <1>1, <1>3, <2>1, <2>2, DeadStep DEF Cut, ghosts, Misled
<1>4. CASE Closes(c) \/ Terminate(c)
  <2> DEFINE j == [k EXCEPT !.link = "ended"]
  <2>1. /\ j \in Connection /\ j.tab = k.tab /\ j.stage = k.stage
        /\ j.account = k.account /\ j.link = "ended"
    BY DEF Connection
  <2>2. conn' = [conn EXCEPT ![c] = j]
    BY <1>1, <1>2, <1>4 DEF Closes, Terminate
  <2> HIDE DEF j
  <2> QED
    BY <1>1, <1>4, <2>1, <2>2, DeadStep DEF Closes, Terminate, ghosts, Misled
<1>5. CASE Refuse(c)
  <2> DEFINE l == IF k.link = "gone" THEN "gone" ELSE "ended"
             j == [k EXCEPT !.stage = "refused", !.early = <<>>, !.link = l]
  <2>1. conn' = [conn EXCEPT ![c] = j]
    BY <1>1, <1>2, <1>5 DEF Refuse
  <2>2. l \in {"gone", "ended"}
    OBVIOUS
  <2> HIDE DEF l
  <2>3. /\ j \in Connection /\ j.tab = k.tab /\ j.stage = "refused"
        /\ j.link # "up"
    BY <2>2, NoFrames DEF Connection
  <2> HIDE DEF j
  <2> QED
    BY <1>1, <1>5, <2>1, <2>3, DeadStep DEF Refuse, ghosts, Misled
<1>6. CASE Errs(c)
  <2> DEFINE j == [k EXCEPT !.link = "ended", !.inbox = <<>>]
  <2>1. /\ j \in Connection /\ j.tab = k.tab /\ j.stage = k.stage
        /\ j.account = k.account /\ j.link = "ended"
    BY NoFrames DEF Connection
  <2>2. conn' = [conn EXCEPT ![c] = j]
    BY <1>1, <1>2, <1>6 DEF Errs
  <2> HIDE DEF j
  <2> QED
    BY <1>1, <1>6, <2>1, <2>2, DeadStep DEF Errs, ghosts, Misled
<1>7. CASE CloseEvent(c)
  <2> DEFINE j == [k EXCEPT !.link = "gone", !.inbox = <<>>]
             u == [Unused EXCEPT !.tab = k.tab, !.link = "gone",
                                 !.stage = k.stage, !.read = k.read]
  <2>1. /\ UNCHANGED <<browser, engine>>
        /\ \A d \in Conn \ {c} : /\ d \in truncated => d \in truncated'
                                 /\ d \in Misled => d \in Misled'
    BY <1>7 DEF CloseEvent, ghosts, Misled
  <2>2. CASE Stage(c) = "auth"
    <3>1. conn' = [conn EXCEPT ![c] = j]
      BY <1>1, <1>2, <1>7, <2>2 DEF CloseEvent
    <3>2. /\ j \in Connection /\ j.tab = k.tab /\ j.stage = k.stage
          /\ j.account = k.account /\ j.link = "gone"
      BY NoFrames DEF Connection
    <3> HIDE DEF j
    <3> QED
      BY <1>1, <2>1, <3>1, <3>2, DeadStep
  <2>3. CASE Stage(c) # "auth"
    <3>1. conn' = [conn EXCEPT ![c] = u]
      BY <1>1, <1>7, <2>3 DEF CloseEvent, Stage
    <3>2. /\ u \in Connection /\ u.tab = k.tab /\ u.stage = k.stage
          /\ u.link = "gone"
      BY NoFrames DEF Connection, Unused
    <3>3. k.stage # "auth"
      BY <1>1, <2>3 DEF Stage
    <3> HIDE DEF u
    <3> QED
      BY <1>1, <2>1, <3>1, <3>2, <3>3, DeadStep
  <2> QED
    BY <2>2, <2>3
<1> QED
  BY <1>3, <1>4, <1>5, <1>6, <1>7

(* The last of what is left stays the last.                                 *)
LEMMA LastOfTail ==
  ASSUME NEW S, NEW o \in Seq(S), o # <<>>
  PROVE  (IF Tail(o) = <<>> THEN Head(o) ELSE Tail(o)[Len(Tail(o))]) = o[Len(o)]
<1>1. /\ Len(o) \in Nat /\ Len(o) # 0 /\ Head(o) = o[1]
      /\ Tail(o) \in Seq(S) /\ Len(Tail(o)) = Len(o) - 1
      /\ \A i \in 1..(Len(o) - 1) : Tail(o)[i] = o[i + 1]
  OBVIOUS
<1>2. CASE Tail(o) = <<>>
  <2>1. Len(Tail(o)) = 0
    <3>1. Len(<<>>) = 0
      OBVIOUS
    <3> QED
      BY <1>2, <3>1
  <2>2. Len(o) = 1
    <3>1. /\ Len(o) \in Nat /\ Len(Tail(o)) = Len(o) - 1
      BY <1>1
    <3> DEFINE n == Len(o)
    <3> HIDE DEF n
    <3>2. n \in Nat /\ n - 1 = 0
      BY <2>1, <3>1 DEF n
    <3>3. n = 1
      BY <3>2
    <3> QED
      BY <3>3 DEF n
  <2> QED
    BY <1>1, <1>2, <2>2
<1>3. CASE Tail(o) # <<>>
  <2>1. Len(Tail(o)) # 0
    BY <1>1, <1>3
  <2>2. Len(Tail(o)) \in 1..(Len(o) - 1) /\ Len(Tail(o)) + 1 = Len(o)
    BY <1>1, <2>1
  <2> QED
    BY <1>1, <1>3, <2>2
<1> QED
  BY <1>2, <1>3

(* An update taken was either shown or not the last sent.                   *)
LEMMA QApplyStep ==
  ASSUME QInv, IInv', NEW c \in Conn, Apply(c)
  PROVE  QInv'
<1>1. PICK k \in Connection : k = conn[c]
  BY DEF QInv, IInv, TypeOK
<1> DEFINE j == [k EXCEPT !.outbox = Tail(@)]
<1>2. conn' = [conn EXCEPT ![c] = j] /\ k.outbox # <<>>
  BY <1>1 DEF Apply, QInv, IInv, TypeOK
<1>3. k.outbox \in Seq(Position) /\ Tail(k.outbox) \in Seq(Position)
  BY <1>2 DEF Connection
<1>4. /\ j \in Connection /\ j.subs = k.subs /\ j.inbox = k.inbox
      /\ j.tab = k.tab /\ j.stage = k.stage /\ j.link = k.link
      /\ j.early = k.early /\ j.account = k.account /\ j.read = k.read
      /\ j.outbox = Tail(k.outbox)
  BY <1>3 DEF Connection
<1>5. conn'[c] = j
  BY <1>2 DEF QInv, IInv, TypeOK
<1>6. \A t \in Tab : socket[t] # c => shown'[t] = shown[t]
  BY DEF Apply, FromCurrent, QInv, IInv, TypeOK
<1> HIDE DEF j
<1>7. ASSUME NEW t \in Tab, socket[t] = c, conn[c].tab = t, Attuned(t, c)
      PROVE  Attuned(t, c)'
  <2>1. shown'[t] = Head(k.outbox)
    BY <1>1, <1>7 DEF Apply, FromCurrent, QInv, IInv, TypeOK
  <2>2. LastSent(j, shown'[t]) = LastSent(k, shown[t])
    BY <1>2, <1>3, <1>4, <2>1, LastOfTail DEF LastSent
  <2>3. Pending(j) = Pending(k)
    BY <1>4 DEF Pending
  <2>4. \A q, goal : Hears(k, q, goal) => Hears(j, q, goal)
    BY <1>4, HearsBy
  <2>5. /\ desired' = desired /\ truncated' = truncated
        /\ book' = book /\ opening' = opening
        /\ Misled' = Misled
    BY DEF Apply, ghosts, Misled, engine
  <2> QED
    BY <1>1, <1>4, <1>5, <1>7, <2>2, <2>3, <2>4, <2>5 DEF Attuned, Stage
<1>8. /\ UNCHANGED <<socket, desired, engine>>
      /\ truncated' = truncated /\ Misled' = Misled
  BY DEF Apply, ghosts, Misled
<1> QED
  BY <1>1, <1>2, <1>4, <1>6, <1>7, <1>8, LiveStep

(* A tab that loses its socket has no one to agree with.                    *)
LEMMA QLosesSocketStep ==
  ASSUME QInv, IInv', NEW t \in Tab, LosesSocket(t)
  PROVE  QInv'
<1>1. /\ socket' = [socket EXCEPT ![t] = None]
      /\ UNCHANGED <<desired, shown, conn, server, engine, ghosts, counts>>
  BY DEF LosesSocket
<1>2. ASSUME NEW u \in Tab PROVE Tuned(u)'
  <2>1. CASE u = t
    BY <1>1, <2>1 DEF Tuned, QInv, IInv, TypeOK
  <2>2. CASE u # t
    BY <1>1, <2>2, SameTab
    DEF QInv, IInv, TypeOK, ghosts, Misled, engine
  <2> QED
    BY <2>1, <2>2
<1>3. ASSUME NEW c \in Conn PROVE Plain(c)'
  BY <1>1 DEF QInv, Plain, Stage, Link
<1> QED
  BY <1>2, <1>3 DEF QInv

(* What is appended comes last.                                             *)
LEMMA LastOfAppend ==
  ASSUME NEW S, NEW o \in Seq(S), NEW p \in S
  PROVE  /\ Append(o, p) # <<>>
         /\ Append(o, p)[Len(Append(o, p))] = p
OBVIOUS

(* What was sent last is what arrives last.                                *)
LEMMA SentLast ==
  ASSUME NEW k \in Connection, NEW p \in Position, k.link = "up", NEW value
  PROVE  LastSent(Sent(k, p), value) = p
<1>1. k.outbox \in Seq(Position)
  BY DEF Connection
<1> DEFINE o == Append(k.outbox, p)
           j == [k EXCEPT !.outbox = o]
<1>2. Sent(k, p) = j
  BY DEF Sent
<1>3. j.outbox = o
  BY DEF Connection
<1>4. o # <<>> /\ o[Len(o)] = p
  BY <1>1, LastOfAppend
<1> HIDE DEF o, j
<1> QED
  BY <1>2, <1>3, <1>4 DEF LastSent

(* Sending changes no frames on their way to the server.                    *)
LEMMA SentSame ==
  ASSUME NEW k \in Connection, NEW p \in Position
  PROVE  /\ Sent(k, p).early = k.early /\ Sent(k, p).account = k.account
         /\ Sent(k, p).read = k.read
         /\ Pending(Sent(k, p)) = Pending(k)
<1>1. /\ Sent(k, p).early = k.early /\ Sent(k, p).account = k.account
      /\ Sent(k, p).read = k.read
  BY DEF Sent, Connection
<1> QED
  BY <1>1, SentLike DEF Pending

(* A snapshot sent is the position as it is, or came late.                  *)
LEMMA QSendSnapshotStep ==
  ASSUME QInv, IInv', NEW c \in Conn, SendSnapshot(c)
  PROVE  QInv'
<1>1. PICK k \in Connection : k = conn[c]
  BY DEF QInv, IInv, TypeOK
<1>2. PICK p \in Position : p = k.read
  BY <1>1 DEF SendSnapshot, Connection
<1>3. PICK s \in Connection :
        /\ s = Sent(k, p) /\ s.subs = k.subs /\ s.inbox = k.inbox
        /\ s.tab = k.tab /\ s.stage = k.stage /\ s.link = k.link
        /\ s.early = k.early /\ s.account = k.account
  BY SentLike, SentSame
<1> DEFINE j == [s EXCEPT !.read = "none"]
<1>4. conn' = [conn EXCEPT ![c] = j]
  BY <1>1, <1>2, <1>3 DEF SendSnapshot, QInv, IInv, TypeOK
<1>5. /\ j \in Connection /\ j.subs = k.subs /\ j.inbox = k.inbox
      /\ j.tab = k.tab /\ j.stage = k.stage /\ j.link = k.link
      /\ j.early = k.early /\ j.account = k.account /\ j.outbox = s.outbox
  BY <1>3 DEF Connection
<1>6. conn'[c] = j
  BY <1>4 DEF QInv, IInv, TypeOK
<1>7. /\ UNCHANGED <<socket, desired, shown, engine>>
      /\ truncated' = truncated
      /\ \A d \in Conn \ {c} : d \in Misled => d \in Misled'
      /\ c \notin Misled' /\ UserAt(c) \notin opening => p = book[UserAt(c)]
  BY <1>1, <1>2 DEF SendSnapshot, browser, Misled
<1> HIDE DEF j
<1>8. ASSUME NEW t \in Tab, socket[t] = c, conn[c].tab = t, Attuned(t, c),
             j.link = "up"
      PROVE  Attuned(t, c)'
  <2>1. LastSent(j, shown[t]) = p
    <3>1. LastSent(s, shown[t]) = p
      BY <1>3, <1>5, <1>8, SentLast
    <3> QED
      BY <1>5, <3>1 DEF LastSent
  <2>2. Pending(j) = Pending(k)
    BY <1>5 DEF Pending
  <2>3. \A q, goal : Hears(k, q, goal) => Hears(j, q, goal)
    BY <1>5, HearsBy
  <2>4. c \notin Misled' /\ UserOf[t] \notin opening => p = book[UserOf[t]]
    BY <1>7, <1>8 DEF UserAt
  <2> QED
    BY <1>1, <1>6, <1>7, <1>8, <2>1, <2>2, <2>3, <2>4
    DEF Attuned, Stage, engine
<1> QED
  BY <1>1, <1>4, <1>5, <1>7, <1>8, LiveStep

(* An update reaches each served tab of its user, or comes before its      *)
(* snapshot was read.                                                      *)
LEMMA QBroadcastStep ==
  ASSUME QInv, IInv', NEW u \in User, NEW p \in Position, Broadcast(u, p),
         UNCHANGED <<socket, desired, shown>>, truncated' = truncated,
         book' = [book EXCEPT ![u] = p], opening' = opening \ {u},
         Misled' = Misled
  PROVE  QInv'
<1> DEFINE to == {c \in registered : UserAt(c) = u /\ Listens(c)}
<1>2. conn' = [c \in Conn |-> IF c \in to THEN Sent(conn[c], p) ELSE conn[c]]
  BY DEF Broadcast
<1>3. /\ UNCHANGED <<socket, desired, shown>> /\ truncated' = truncated
      /\ book' = [book EXCEPT ![u] = p] /\ Misled' = Misled
      /\ opening' = opening \ {u}
  OBVIOUS
<1>4. to \subseteq Conn
  BY DEF QInv, IInv, TypeOK
<1>5. \A c \in Conn : c \in to <=>
        c \in registered /\ UserAt(c) = u /\ Listens(c)
  OBVIOUS
<1> HIDE DEF to
<1>6. ASSUME NEW c \in Conn
      PROVE  /\ conn[c] \in Connection
             /\ conn'[c].subs = conn[c].subs /\ conn'[c].tab = conn[c].tab
             /\ conn'[c].stage = conn[c].stage /\ conn'[c].link = conn[c].link
             /\ conn'[c].account = conn[c].account
             /\ conn'[c].read = conn[c].read
             /\ Pending(conn'[c]) = Pending(conn[c])
  <2>1. conn[c] \in Connection
    BY DEF QInv, IInv, TypeOK
  <2>2. conn'[c] = Sent(conn[c], p) \/ conn'[c] = conn[c]
    BY <1>2
  <2> QED
    BY <2>1, <2>2, SentLike, SentSame
<1>7. ASSUME NEW t \in Tab PROVE Tuned(t)'
  <2> SUFFICES ASSUME socket[t] # None PROVE Tuned(t)'
    BY <1>3 DEF Tuned
  <2>1. PICK c \in Conn : c = socket[t]
    BY DEF QInv, IInv, TypeOK
  <2>2. conn[c].tab = t /\ conn[c].stage # "unused"
    BY <2>1 DEF QInv, Tuned, Stage
  <2> SUFFICES ASSUME conn[c].link = "up" PROVE Attuned(t, c)'
    BY <1>3, <1>6, <2>1, <2>2 DEF Tuned, Stage, Link
  <2>3. Attuned(t, c)
    BY <2>1 DEF QInv, Tuned, Link
  <2>4. c \notin truncated => Hears(conn'[c], Pending(conn'[c]), desired[t])
    <3>1. \A q, goal : Hears(conn[c], q, goal) => Hears(conn'[c], q, goal)
      BY <1>6, HearsBy
    <3> QED
      BY <1>6, <2>3, <3>1 DEF Attuned
  <2>5. ASSUME conn[c].stage = "served", conn[c].account,
               conn[c].read = "none", c \notin Misled',
               UserOf[t] \notin opening'
        PROVE  LastSent(conn'[c], shown[t]) = book'[UserOf[t]]
    <3>1. c \in registered
      BY <2>5 DEF QInv, IInv, Sane, Stage, Link
    <3>2. CASE UserOf[t] = u
      <4>1. c \in to
        BY <1>5, <2>2, <2>5, <3>1, <3>2 DEF UserAt, Listens
      <4>2. conn'[c] = Sent(conn[c], p)
        BY <1>2, <4>1
      <4>3. book'[UserOf[t]] = p
        BY <1>3, <3>2 DEF QInv, IInv, TypeOK
      <4> QED
        BY <1>6, <4>2, <4>3, SentLast
    <3>3. CASE UserOf[t] # u
      <4>1. c \notin to /\ c \notin Misled
        BY <1>3, <1>5, <2>2, <2>5, <3>3 DEF UserAt
      <4>2. conn'[c] = conn[c]
        BY <1>2, <4>1
      <4>3. book'[UserOf[t]] = book[UserOf[t]]
        BY <1>3, <3>3, OwnerAssumption DEF QInv, IInv, TypeOK
      <4>4. UserOf[t] \notin opening
        BY <1>3, <2>5, <3>3
      <4> QED
        BY <2>3, <2>5, <4>1, <4>2, <4>3, <4>4 DEF Attuned, Stage
    <3> QED
      BY <3>2, <3>3
  <2> QED
    BY <1>3, <1>6, <2>4, <2>5 DEF Attuned, Stage
<1>8. ASSUME NEW c \in Conn PROVE Plain(c)'
  BY <1>6 DEF QInv, Plain, Stage, Link
<1> QED
  BY <1>7, <1>8 DEF QInv

(* A position that is opened, broadcast, closed or dropped.                *)
LEMMA QEngineStep ==
  ASSUME QInv, IInv', NEW u \in User,
         Opens(u) \/ Announces(u) \/ ClosesPosition(u) \/ DropsPosition(u)
  PROVE  QInv'
<1>1. CASE Announces(u)
  <2>1. book' = [book EXCEPT ![u] = "open"]
    BY <1>1 DEF Announces, QInv, IInv, TypeOK
  <2> QED
    BY <1>1, <2>1, QBroadcastStep
    DEF Announces, browser, ghosts, Misled, Position
<1>2. CASE ClosesPosition(u)
  BY <1>2, QBroadcastStep
  DEF ClosesPosition, browser, ghosts, Misled, Position
<1>3. CASE Opens(u) \/ DropsPosition(u)
  <2>1. /\ UNCHANGED <<socket, desired, shown, conn>>
        /\ truncated' = truncated /\ Misled \subseteq Misled'
        /\ \A v \in User : v # u =>
             book'[v] = book[v] /\ (v \in opening => v \in opening')
    BY <1>3
    DEF Opens, DropsPosition, browser, ghosts, Misled, QInv, IInv, TypeOK
  <2>2. ASSUME NEW t \in Tab PROVE Tuned(t)'
    <3>1. CASE UserOf[t] # u
      BY <2>1, <3>1, OwnerAssumption, SameTab
    <3>2. CASE UserOf[t] = u
      <4> SUFFICES ASSUME socket[t] # None PROVE Tuned(t)'
        BY <2>1 DEF Tuned
      <4>1. PICK c \in Conn : c = socket[t]
        BY DEF QInv, IInv, TypeOK
      <4>2. Tuned(t) /\ conn[c].tab = t /\ Stage(c) # "unused"
        BY <4>1 DEF QInv, Tuned
      <4>3. c \in Misled' \/ u \in opening'
        BY <1>3, <3>2, <4>2 DEF Opens, DropsPosition, Misled, UserAt
      <4> QED
        BY <2>1, <3>2, <4>1, <4>2, <4>3 DEF Tuned, Attuned, Stage, Link
    <3> QED
      BY <3>1, <3>2
  <2>3. ASSUME NEW c \in Conn PROVE Plain(c)'
    BY <2>1 DEF QInv, Plain, Stage, Link
  <2> QED
    BY <2>2, <2>3 DEF QInv
<1> QED
  BY <1>1, <1>2, <1>3

(* No frames before others.                                                 *)
LEMMA ConcatNone ==
  ASSUME NEW S, NEW q \in Seq(S)
  PROVE  <<>> \o q = q
BY ConcatEmptySeq

(* One element before others.                                               *)
LEMMA OneFirst ==
  ASSUME NEW S, NEW f \in S, NEW q \in Seq(S)
  PROVE  /\ <<f>> \o q \in Seq(S) /\ Len(<<f>> \o q) = 1 + Len(q)
         /\ (<<f>> \o q)[1] = f
         /\ \A i \in 1..Len(q) : (<<f>> \o q)[i + 1] = q[i]
OBVIOUS

(* The frames of onopen ask for just what the tab wants.                   *)
LEMMA HelloHears ==
  ASSUME IInv, NEW t \in Tab, NEW k, k.subs = {}
  PROVE  Hears(k, Hello(t), desired[t])
<1> DEFINE D == desired[t]
           F == {Subscribing(s) : s \in D}
           g == SetToSeq(F)
           h == <<AccountFrame>> \o g
<1>1. D \subseteq Symbol
  BY DEF IInv, TypeOK
<1>2. F \subseteq Frame
  BY <1>1, FrameKinds
<1>3. /\ IsFiniteSet(F) /\ Cardinality(F) \in Nat
      /\ g \in [1..Cardinality(F) -> F] /\ IsInjective(g)
  BY SubscribingSeq
<1>4. g \in Surjection(1..Cardinality(F), F)
  <2> HIDE DEF F, g
  <2>1. IsFiniteSet(1..Cardinality(F))
        /\ Cardinality(1..Cardinality(F)) = Cardinality(F)
    BY <1>3, FS_Interval
  <2>2. g \in Injection(1..Cardinality(F), F)
    BY <1>3 DEF Injection
  <2> QED
    BY <1>3, <2>1, <2>2, FS_Injection
<1>5. \A s \in D : \E i \in 1..Cardinality(F) : g[i] = Subscribing(s)
  BY <1>4 DEF Surjection
<1>6. /\ h \in Seq(Frame) /\ Len(h) = 1 + Cardinality(F)
      /\ h[1] = AccountFrame
      /\ \A i \in 1..Cardinality(F) : h[i + 1] = g[i]
      /\ g \in Seq(Frame)
  <2> HIDE DEF F, g
  <2>1. g \in Seq(Frame) /\ Len(g) = Cardinality(F)
    BY <1>2, <1>3
  <2> QED
    BY <2>1, FrameKinds, OneFirst
<1>7. Has(h, AccountFrame)
  <2>1. 1 \in 1..Len(h)
    BY <1>3, <1>6
  <2> QED
    BY <1>6, <2>1 DEF Has
<1>8. \A s \in D : Has(h, Subscribing(s))
  <2> SUFFICES ASSUME NEW s \in D PROVE Has(h, Subscribing(s))
    OBVIOUS
  <2>1. PICK i \in 1..Cardinality(F) : g[i] = Subscribing(s)
    BY <1>5
  <2> HIDE DEF h, g, F
  <2>2. i + 1 \in 1..Len(h) /\ h[i + 1] = Subscribing(s)
    BY <1>3, <1>6, <2>1
  <2> QED
    BY <2>2 DEF Has
<1>9. \A i \in 1..Len(h) :
        h[i] = AccountFrame \/ \E s \in D : h[i] = Subscribing(s)
  <2> SUFFICES ASSUME NEW i \in 1..Len(h), i # 1
               PROVE  \E s \in D : h[i] = Subscribing(s)
    BY <1>6
  <2> DEFINE n == Cardinality(F)
             m == i - 1
  <2>1. m \in 1..n /\ m + 1 = i
    <3> HIDE DEF F, h
    <3> QED
      BY <1>3, <1>6
  <2>2. h[i] = g[m]
    <3> HIDE DEF F, h, g, m
    <3> QED
      BY <1>6, <2>1
  <2>3. g[m] \in F
    <3> HIDE DEF F, g, m
    <3> QED
      BY <1>3, <2>1
  <2> QED
    BY <2>2, <2>3
<1>10. h = Hello(t)
  BY DEF Hello
<1> HIDE DEF h
<1>11. ASSUME NEW s \in Symbol
       PROVE  /\ s \in D => /\ s \in k.subs \/ Has(h, Subscribing(s))
                            /\ Overrides(h, Subscribing(s), Unsubscribing(s))
              /\ s \notin D =>
                   /\ s \notin k.subs \/ Has(h, Unsubscribing(s))
                   /\ Overrides(h, Unsubscribing(s), Subscribing(s))
  <2>1. Overrides(h, Subscribing(s), Unsubscribing(s))
    BY <1>1, <1>9, FrameKinds DEF Overrides
  <2>2. s \notin D => Overrides(h, Unsubscribing(s), Subscribing(s))
    BY <1>1, <1>9, FrameKinds DEF Overrides
  <2> QED
    BY <1>8, <2>1, <2>2
<1>12. Leads(h, k.subs, D)
  <2> HIDE DEF D
  <2> QED
    BY <1>11 DEF Leads
<1> QED
  BY <1>7, <1>10, <1>12 DEF Hears

(* A new connection is told all that its tab wants.                         *)
LEMMA QConnectStep ==
  ASSUME QInv, IInv', NEW t \in Tab, NEW c \in Conn, Connect(t, c)
  PROVE  QInv'
<1> DEFINE k == [Unused EXCEPT
                   !.tab = t, !.link = "up", !.stage = "auth",
                   !.inbox = Hello(t)]
<1>1. /\ k.tab = t /\ k.stage = "auth" /\ k.subs = {} /\ ~ k.account
      /\ k.early = <<>> /\ k.inbox = Hello(t)
  BY DEF Unused
<1>2. /\ conn' = [conn EXCEPT ![c] = k] /\ socket[t] = None
      /\ \A u \in Tab : socket[u] # c
      /\ socket' = [socket EXCEPT ![t] = c]
      /\ UNCHANGED <<desired, shown, book, opening>>
      /\ truncated' = truncated \ {c} /\ Misled' = Misled \ {c}
  BY DEF Connect, Free, Misled, engine
<1>3. conn'[c] = k /\ \A d \in Conn : d # c => conn'[d] = conn[d]
  BY <1>2 DEF QInv, IInv, TypeOK
<1> HIDE DEF k
<1>4. ASSUME NEW u \in Tab PROVE Tuned(u)'
  <2>1. CASE u = t
    <3>1. socket'[u] = c
      BY <1>2, <2>1 DEF QInv, IInv, TypeOK
    <3>2. Pending(k) = Hello(t)
      <4>1. <<>> \o Hello(t) = Hello(t)
        BY HelloType, ConcatNone DEF QInv
      <4> QED
        BY <1>1, <4>1 DEF Pending
    <3>3. Hears(k, Pending(k), desired[t])
      BY <1>1, <3>2, HelloHears DEF QInv
    <3> QED
      BY <1>1, <1>2, <1>3, <2>1, <3>1, <3>3 DEF Tuned, Attuned, Stage, Link
  <2>2. CASE u # t
    <3>1. socket'[u] = socket[u]
      BY <1>2, <2>2 DEF QInv, IInv, TypeOK
    <3>2. socket[u] # None => socket[u] \in Conn /\ socket[u] # c
      BY <1>2 DEF QInv, IInv, TypeOK
    <3>3. /\ socket[u] # None => conn'[socket[u]] = conn[socket[u]]
          /\ socket[u] \in truncated => socket[u] \in truncated'
          /\ socket[u] \in Misled => socket[u] \in Misled'
      BY <1>2, <1>3, <3>2
    <3> QED
      BY <1>2, <3>1, <3>3, SameTab
  <2> QED
    BY <2>1, <2>2
<1>5. ASSUME NEW d \in Conn PROVE Plain(d)'
  BY <1>1, <1>3 DEF QInv, Plain, Stage, Link
<1> QED
  BY <1>4, <1>5 DEF QInv

(* One frame more on its way changes what the frames lead to.              *)
LEMMA LeadsAppend ==
  ASSUME NEW q \in Seq(Frame), NEW base, NEW goal, NEW s \in Symbol,
         Leads(q, base, goal)
  PROVE  /\ Leads(Append(q, Subscribing(s)), base, goal \cup {s})
         /\ Leads(Append(q, Unsubscribing(s)), base, goal \ {s})
<1> DEFINE on == Subscribing(s)
           off == Unsubscribing(s)
<1>1. on \in Frame /\ off \in Frame /\ on # off
  BY FrameKinds
<1>2. ASSUME NEW x \in Symbol
      PROVE
        LET r == Append(q, on)
            new == goal \cup {s}
        IN /\ x \in new => /\ x \in base \/ Has(r, Subscribing(x))
                           /\ Overrides(r, Subscribing(x), Unsubscribing(x))
           /\ x \notin new => /\ x \notin base \/ Has(r, Unsubscribing(x))
                              /\ Overrides(r, Unsubscribing(x), Subscribing(x))
  <2>1. CASE x = s
    BY <1>1, <2>1, AfterAppend
  <2>2. CASE x # s
    <3>1. Subscribing(x) # on /\ Unsubscribing(x) # on
      BY <2>2, FrameKinds
    <3>2. x \in goal <=> x \in goal \cup {s}
      BY <2>2
    <3> HIDE DEF on
    <3> QED
      BY <1>1, <3>1, <3>2, AfterAppend DEF Leads
  <2> QED
    BY <2>1, <2>2
<1>3. ASSUME NEW x \in Symbol
      PROVE
        LET r == Append(q, off)
            new == goal \ {s}
        IN /\ x \in new => /\ x \in base \/ Has(r, Subscribing(x))
                           /\ Overrides(r, Subscribing(x), Unsubscribing(x))
           /\ x \notin new => /\ x \notin base \/ Has(r, Unsubscribing(x))
                              /\ Overrides(r, Unsubscribing(x), Subscribing(x))
  <2>1. CASE x = s
    BY <1>1, <2>1, AfterAppend
  <2>2. CASE x # s
    <3>1. Subscribing(x) # off /\ Unsubscribing(x) # off
      BY <2>2, FrameKinds
    <3>2. x \in goal <=> x \in goal \ {s}
      BY <2>2
    <3> HIDE DEF off
    <3> QED
      BY <1>1, <3>1, <3>2, AfterAppend DEF Leads
  <2> QED
    BY <2>1, <2>2
<1> QED
  BY <1>2, <1>3 DEF Leads

(* A frame sent comes behind all that were sent before.                     *)
LEMMA PendingAppend ==
  ASSUME NEW k \in Connection, NEW f \in Frame, NEW j,
         j.stage = k.stage, j.early = k.early, j.inbox = Append(k.inbox, f)
  PROVE  Pending(k) \in Seq(Frame) /\ Pending(j) = Append(Pending(k), f)
<1>1. k.early \in Seq(Frame) /\ k.inbox \in Seq(Frame)
  BY DEF Connection
<1>2. ASSUME NEW a \in Seq(Frame), NEW b \in Seq(Frame)
      PROVE  a \o b \in Seq(Frame) /\ a \o Append(b, f) = Append(a \o b, f)
  <2>1. a \o b \in Seq(Frame) /\ <<f>> \in Seq(Frame)
    OBVIOUS
  <2>2. /\ Append(b, f) = b \o <<f>>
        /\ Append(a \o b, f) = (a \o b) \o <<f>>
    BY <2>1, AppendIsConcat
  <2>3. (a \o b) \o <<f>> = a \o (b \o <<f>>)
    BY <2>1, ConcatAssociative
  <2> QED
    BY <2>1, <2>2, <2>3
<1> QED
  BY <1>1, <1>2 DEF Pending

(* A change of mind is sent behind all that it takes back.                  *)
LEMMA QToggleStep ==
  ASSUME QInv, IInv', NEW t \in Tab, NEW s \in Symbol, Toggle(t, s)
  PROVE  QInv'
<1> DEFINE c == socket[t]
           new == IF s \notin desired[t] THEN Subscribing(s)
                                         ELSE Unsubscribing(s)
           goal == IF s \notin desired[t] THEN desired[t] \cup {s}
                                          ELSE desired[t] \ {s}
<1>1. /\ UNCHANGED <<socket, shown, book, opening>>
      /\ truncated' = truncated /\ Misled' = Misled
      /\ desired'[t] = goal
      /\ \A u \in Tab : u # t => desired'[u] = desired[u]
  BY DEF Toggle, ghosts, Misled, QInv, IInv, TypeOK, engine
<1>2. new \in Frame
  BY FrameKinds
<1>3. CASE c # None /\ Link(c) = "up"
  <2>1. c \in Conn
    BY <1>3 DEF QInv, IInv, TypeOK
  <2>2. PICK k \in Connection : k = conn[c]
    BY <2>1 DEF QInv, IInv, TypeOK
  <2> DEFINE j == [k EXCEPT !.inbox = Append(@, new)]
  <2>3. conn' = [conn EXCEPT ![c] = j]
    BY <1>3, <2>1, <2>2 DEF Toggle, QInv, IInv, TypeOK
  <2>4. /\ j.subs = k.subs /\ j.account = k.account /\ j.early = k.early
        /\ j.tab = k.tab /\ j.stage = k.stage /\ j.link = k.link
        /\ j.read = k.read /\ j.outbox = k.outbox
        /\ j.inbox = Append(k.inbox, new)
    BY DEF Connection
  <2>5. conn'[c] = j /\ \A d \in Conn : d # c => conn'[d] = conn[d]
    BY <2>1, <2>3 DEF QInv, IInv, TypeOK
  <2> HIDE DEF j
  <2>6. Tuned(t)'
    <3>1. conn[c].tab = t /\ conn[c].stage # "unused" /\ Attuned(t, c)
      BY <1>3 DEF QInv, Tuned, Stage
    <3>2. Pending(k) \in Seq(Frame) /\ Pending(j) = Append(Pending(k), new)
      BY <1>2, <2>4, PendingAppend
    <3>3. Hears(k, Pending(k), desired[t]) => Hears(j, Pending(j), goal)
      <4> SUFFICES ASSUME Hears(k, Pending(k), desired[t])
                   PROVE  Hears(j, Pending(j), goal)
        OBVIOUS
      <4>1. Leads(Append(Pending(k), new), k.subs, goal)
        BY <3>2, LeadsAppend DEF Hears
      <4> HIDE DEF new, goal
      <4>2. k.account \/ Has(Append(Pending(k), new), AccountFrame)
        BY <1>2, <3>2, AfterAppend DEF Hears
      <4> QED
        BY <2>4, <3>2, <4>1, <4>2 DEF Hears
    <3>4. LastSent(j, shown[t]) = LastSent(k, shown[t])
      BY <2>4 DEF LastSent
    <3> HIDE DEF goal
    <3>5. Attuned(t, c)'
      BY <1>1, <2>2, <2>4, <2>5, <3>1, <3>3, <3>4 DEF Attuned, Stage
    <3> QED
      BY <1>1, <2>2, <2>4, <2>5, <3>1, <3>5 DEF Tuned, Stage
  <2>7. ASSUME NEW u \in Tab, u # t PROVE Tuned(u)'
    <3>1. socket[u] # None => socket[u] \in Conn /\ socket[u] # c
      BY <1>3, <2>7, SocketsDiffer DEF QInv, IInv, TypeOK
    <3> QED
      BY <1>1, <2>5, <2>7, <3>1, SameTab
  <2>8. ASSUME NEW d \in Conn PROVE Plain(d)'
    BY <2>2, <2>4, <2>5 DEF QInv, Plain, Stage, Link
  <2> QED
    BY <2>6, <2>7, <2>8 DEF QInv
<1>4. CASE ~ (c # None /\ Link(c) = "up")
  <2>1. conn' = conn
    BY <1>4 DEF Toggle
  <2>2. Tuned(t)'
    BY <1>1, <1>4, <2>1, DeadTab DEF QInv, Tuned, Stage, Link
  <2>3. ASSUME NEW u \in Tab, u # t PROVE Tuned(u)'
    BY <1>1, <2>1, <2>3, SameTab
  <2>4. ASSUME NEW d \in Conn PROVE Plain(d)'
    BY <2>1 DEF QInv, Plain, Stage, Link
  <2> QED
    BY <2>2, <2>3, <2>4 DEF QInv
<1> QED
  BY <1>3, <1>4

(* Keeping the first frame of b behind those of a changes not their order. *)
LEMMA MoveOne ==
  ASSUME NEW S, NEW a \in Seq(S), NEW b \in Seq(S), b # <<>>
  PROVE  Append(a, Head(b)) \o Tail(b) = a \o b
<1> DEFINE h == Head(b)
           d == Tail(b)
<1>1. h \in S /\ d \in Seq(S)
  OBVIOUS
<1>2. b = <<h>> \o d
  OBVIOUS
<1> HIDE DEF h, d
<1>3. <<h>> \in Seq(S) /\ Append(a, h) = a \o <<h>>
  BY <1>1, AppendIsConcat
<1>4. (a \o <<h>>) \o d = a \o (<<h>> \o d)
  BY <1>1, <1>3, ConcatAssociative
<1> QED
  BY <1>2, <1>3, <1>4 DEF h, d

(* A frame is kept, dropped beyond the buffer, or handled.                  *)
LEMMA QReceiveStep ==
  ASSUME QInv, IInv', NEW c \in Conn, Receive(c)
  PROVE  QInv'
<1>1. PICK k \in Connection : k = conn[c]
  BY DEF QInv, IInv, TypeOK
<1> DEFINE f == Head(conn[c].inbox)
           rest == [k EXCEPT !.inbox = Tail(@)]
<1>2. /\ k.inbox # <<>> /\ k.inbox \in Seq(Frame) /\ k.early \in Seq(Frame)
      /\ f = Head(k.inbox)
  BY <1>1 DEF Receive, Connection
<1>3. f \in Frame /\ Tail(k.inbox) \in Seq(Frame)
  BY <1>2
<1>4. /\ rest \in Connection /\ rest.tab = k.tab /\ rest.stage = k.stage
      /\ rest.subs = k.subs /\ rest.link = k.link /\ rest.early = k.early
      /\ rest.account = k.account /\ rest.read = k.read
      /\ rest.outbox = k.outbox /\ rest.inbox = Tail(k.inbox)
  BY <1>3 DEF Connection
<1>5. /\ UNCHANGED <<socket, desired, shown, engine>> /\ Misled' = Misled
      /\ book' = book /\ opening' = opening
      /\ conn \in [Conn -> Connection]
  BY DEF Receive, browser, Misled, QInv, IInv, TypeOK, engine
<1> HIDE DEF f, rest
<1>6. CASE Stage(c) = "auth" /\ Len(k.early) < EarlyFrames
  <2> DEFINE kept == [rest EXCEPT !.early = Append(@, f)]
  <2>1. conn' = [conn EXCEPT ![c] = kept] /\ truncated' = truncated
    <3>1. Len(conn[c].early) < EarlyFrames
          /\ ~ (Len(conn[c].early) >= EarlyFrames)
      <4>1. Len(k.early) \in Nat /\ EarlyFrames \in Nat
        BY <1>2, BoundAssumption
      <4> QED
        BY <1>1, <1>6, <4>1
    <3> QED
      BY <1>1, <1>6, <3>1 DEF Receive, f, rest
  <2>2. Append(k.early, f) \in Seq(Frame)
    BY <1>2, <1>3
  <2>3. /\ kept \in Connection /\ kept.tab = k.tab /\ kept.stage = k.stage
        /\ kept.subs = k.subs /\ kept.link = k.link
        /\ kept.account = k.account /\ kept.read = k.read
        /\ kept.inbox = Tail(k.inbox) /\ kept.early = Append(k.early, f)
    BY <1>4, <2>2 DEF Connection
  <2>4. conn'[c] = kept
    BY <1>5, <2>1
  <2> HIDE DEF kept
  <2>5. Pending(kept) = Pending(k)
    <3>1. k.stage = "auth"
      BY <1>1, <1>6 DEF Stage
    <3>2. Append(k.early, f) \o Tail(k.inbox) = k.early \o k.inbox
      BY <1>2, MoveOne
    <3> QED
      BY <2>3, <3>1, <3>2 DEF Pending
  <2>6. ASSUME NEW t \in Tab, Attuned(t, c) PROVE Attuned(t, c)'
    <3>1. Hears(k, Pending(k), desired[t])
            => Hears(kept, Pending(kept), desired[t])
      BY <2>3, <2>5, HearsBy
    <3>2. kept.stage # "served"
      BY <1>1, <1>6, <2>3 DEF Stage
    <3> QED
      BY <1>1, <1>5, <2>1, <2>4, <2>6, <3>1, <3>2 DEF Attuned, Stage
  <2> QED
    BY <1>1, <1>5, <2>1, <2>3, <2>6, LiveStep
<1>7. CASE Stage(c) = "auth" /\ ~ (Len(k.early) < EarlyFrames)
  <2>1. Len(k.early) >= EarlyFrames
    <3>1. Len(k.early) \in Nat /\ EarlyFrames \in Nat
      BY <1>2, BoundAssumption
    <3> QED
      BY <1>7, <3>1
  <2>2. conn' = [conn EXCEPT ![c] = rest] /\ truncated' = truncated \cup {c}
    BY <1>1, <1>7, <2>1 DEF Receive, rest
  <2>3. conn'[c] = rest
    BY <1>5, <2>2
  <2>4. ASSUME NEW t \in Tab PROVE Attuned(t, c)'
    <3>1. rest.stage # "served"
      BY <1>1, <1>4, <1>7 DEF Stage
    <3> QED
      BY <2>2, <2>3, <3>1 DEF Attuned, Stage
  <2> QED
    BY <1>1, <1>4, <1>5, <2>2, <2>4, LiveStep
<1>8. CASE Stage(c) = "served"
  <2> DEFINE at == [k |-> rest, index |-> bySymbol]
             after == Handle(at, c, f)
             j == after.k
  <2>1. conn' = [conn EXCEPT ![c] = j] /\ truncated' = truncated
    BY <1>1, <1>8 DEF Receive, rest, f
  <2>2. bySymbol \in [Symbol -> SUBSET Conn]
    BY DEF QInv, IInv, TypeOK
  <2>3. Took(rest, f, j)
    BY <1>3, <1>4, <1>8, <2>2, HandleTook DEF QInv
  <2>4. Serves(c, after)
    <3>1. \A s \in Symbol : c \in bySymbol[s] <=> s \in k.subs
      <4>1. c \in registered
        BY <1>1, <1>8 DEF Receive, QInv, IInv, Sane
      <4> QED
        BY <1>1, <4>1 DEF QInv, IInv, Indexed
    <3>2. Keeps(c, rest, bySymbol)
      BY <1>1, <1>4, <1>8, <3>1, <2>2 DEF Keeps, Stage
    <3>3. Serves(c, at)
      BY <1>4, <2>2, <3>2 DEF Serves
    <3> HIDE DEF at
    <3> QED
      BY <1>3, <1>8, <3>3, HandleServes DEF QInv
  <2> HIDE DEF after
  <2>5. j \in Connection /\ j.tab = k.tab /\ j.stage = "served"
    BY <1>1, <2>4 DEF Serves, Keeps
  <2> HIDE DEF j
  <2>6. /\ j.inbox = Tail(k.inbox) /\ j.outbox = k.outbox
        /\ j.link = "up" => k.link = "up"
    BY <1>4, <2>3 DEF Took
  <2>7. conn'[c] = j
    BY <1>5, <2>1
  <2>8. ASSUME NEW t \in Tab, Attuned(t, c), j.link = "up"
        PROVE  Attuned(t, c)'
    <3>1. k.stage = "served"
      BY <1>1, <1>8 DEF Stage
    <3>2. c \notin truncated => Hears(j, Pending(j), desired[t])
      <4>1. Pending(k) = k.inbox /\ Pending(j) = Tail(k.inbox)
        BY <2>5, <2>6, <3>1 DEF Pending
      <4>2. Took(k, Head(k.inbox), j)
            \/ (Took(rest, Head(k.inbox), j) /\ rest.subs = k.subs)
        BY <1>2, <1>4, <2>3
      <4>3. Hears(k, k.inbox, desired[t]) => Hears(rest, k.inbox, desired[t])
        BY <1>4, HearsBy
      <4>4. Hears(rest, k.inbox, desired[t]) =>
              Hears(j, Tail(k.inbox), desired[t])
        BY <1>2, <2>3, <2>8, HearsAfterTail
      <4> QED
        BY <1>1, <2>8, <4>1, <4>3, <4>4 DEF Attuned
    <3>3. j.account /\ j.read = "none" =>
            k.account /\ k.read = "none"
      BY <1>4, <2>3 DEF Took
    <3>4. LastSent(j, shown[t]) = LastSent(k, shown[t])
      BY <2>6 DEF LastSent
    <3> QED
      BY <1>1, <1>5, <2>1, <2>7, <2>8, <3>1, <3>2, <3>3, <3>4
      DEF Attuned, Stage
  <2> QED
    BY <1>1, <1>5, <2>1, <2>5, <2>6, <2>8, LiveStep
<1>9. CASE Stage(c) \notin {"auth", "served"}
  <2>1. conn' = [conn EXCEPT ![c] = rest] /\ truncated' = truncated
    BY <1>1, <1>9 DEF Receive, rest
  <2>2. ASSUME NEW t \in Tab, socket[t] = c, rest.link = "up"
        PROVE  FALSE
    <3>1. k.link = "up" /\ c # None
      BY <1>4, <2>2 DEF QInv, IInv, TypeOK, Conn, None
    <3>2. Stage(c) # "unused" /\ Stage(c) # "refused"
      BY <1>1, <2>2, <3>1 DEF QInv, Tuned, Plain, Link
    <3> QED
      BY <1>1, <1>9, <3>2 DEF Stage, Connection
  <2> QED
    BY <1>1, <1>4, <1>5, <1>9, <2>1, <2>2, LiveStep DEF Stage
<1> QED
  BY <1>6, <1>7, <1>8, <1>9

(* The replay leaves what the tab will have got to.                        *)
LEMMA QAuthenticatedStep ==
  ASSUME QInv, IInv', NEW c \in Conn, Authenticated(c)
  PROVE  QInv'
<1>1. Stage(c) = "auth" /\ ~ conn[c].account
  BY DEF Authenticated, QInv, Plain
<1>2. PICK j \in Connection :
        j = Replayed(c).k /\ Keeps(c, j, Replayed(c).index)
  BY <1>1, ReplayServes DEF Serves, QInv
<1>3. /\ conn' = [conn EXCEPT ![c] = j]
      /\ UNCHANGED <<socket, desired, shown, engine>>
      /\ book' = book /\ opening' = opening
      /\ truncated' = truncated /\ Misled' = Misled
  BY <1>2 DEF Authenticated, browser, Misled, engine
<1>4. conn'[c] = j
  BY <1>3 DEF QInv, IInv, TypeOK
<1>5. j.stage = "served" /\ j.tab = conn[c].tab
  BY <1>2 DEF Keeps
<1>6. /\ j.link = "up" => conn[c].link = "up"
      /\ j.account => j.read # "none"
  BY <1>1, <1>2, ReplayHears DEF QInv, Link
<1>7. ASSUME NEW t \in Tab, Attuned(t, c), j.link = "up"
      PROVE  Attuned(t, c)'
  <2>1. Pending(j) = j.inbox
        /\ Pending(conn[c]) = conn[c].early \o conn[c].inbox
    BY <1>1, <1>5 DEF Pending, Stage
  <2>2. Hears(conn[c], Pending(conn[c]), desired[t]) =>
          Hears(j, Pending(j), desired[t])
    BY <1>1, <1>2, <1>7, <2>1, ReplayHears DEF QInv
  <2> QED
    BY <1>3, <1>4, <1>6, <1>7, <2>2 DEF Attuned, Stage
<1> QED
  BY <1>3, <1>5, <1>6, <1>7, LiveStep

(* The invariant holds at first,                                            *)
LEMMA InitQInv == Init => QInv
<1> SUFFICES ASSUME Init PROVE QInv
  OBVIOUS
<1>1. IInv
  BY InitIInv
<1>2. ASSUME NEW t \in Tab PROVE Tuned(t)
  BY DEF Init, Tuned
<1>3. ASSUME NEW c \in Conn PROVE Plain(c)
  BY DEF Init, Plain, Stage, Unused
<1> QED
  BY <1>1, <1>2, <1>3 DEF QInv

(* is kept by every step,                                                   *)
LEMMA NextQInv ==
  ASSUME QInv, [Next]_vars
  PROVE  QInv'
<1>0. IInv'
  BY NextIInv DEF QInv
<1>1. CASE Next
  <2>1. ASSUME NEW t \in Tab, NEW c \in Conn, Connect(t, c) PROVE QInv'
    BY <1>0, <2>1, QConnectStep
  <2>2. ASSUME NEW t \in Tab, NEW s \in Symbol, Toggle(t, s) PROVE QInv'
    BY <1>0, <2>2, QToggleStep
  <2>3. ASSUME NEW t \in Tab, LosesSocket(t) PROVE QInv'
    BY <1>0, <2>3, QLosesSocketStep
  <2>4. ASSUME NEW c \in Conn, Progress(c) PROVE QInv'
    BY <1>0, <2>4, QApplyStep, QReceiveStep, QAuthenticatedStep,
       QSendSnapshotStep, QDeadSteps DEF Progress
  <2>5. ASSUME NEW c \in Conn,
               Terminate(c) \/ Cut(c) \/ Closes(c) \/ Refuse(c) \/ Errs(c)
        PROVE  QInv'
    BY <1>0, <2>5, QDeadSteps
  <2>6. ASSUME NEW u \in User,
               \/ Opens(u) \/ Announces(u)
               \/ ClosesPosition(u) \/ DropsPosition(u)
        PROVE  QInv'
    BY <1>0, <2>6, QEngineStep
  <2> QED
    BY <1>1, <2>1, <2>2, <2>3, <2>4, <2>5, <2>6 DEF Next
<1>2. CASE UNCHANGED vars
  <2>1. UNCHANGED <<socket, desired, shown, conn, book, opening, truncated,
                    Misled>>
    BY <1>2 DEF vars, browser, ghosts, Misled, engine
  <2>2. ASSUME NEW t \in Tab PROVE Tuned(t)'
    BY <2>1, SameTab
  <2>3. ASSUME NEW c \in Conn PROVE Plain(c)'
    BY <2>1 DEF QInv, Plain, Stage, Link
  <2> QED
    BY <1>0, <2>2, <2>3 DEF QInv
<1> QED
  BY <1>1, <1>2

(* and so holds always.                                                     *)
LEMMA QInvariance == Spec => []QInv
<1>1. Init => QInv
  BY InitQInv
<1>2. QInv /\ [Next]_vars => QInv'
  BY NextQInv
<1> QED
  BY <1>1, <1>2, PTL DEF Spec

(* Nothing on its way: what both ends lead to is what they are.             *)
LEMMA QuietAgrees ==
  ASSUME QInv
  PROVE  QuietMeansAgreed
<1> SUFFICES ASSUME NEW t \in Tab, Quiet(socket[t]), socket[t] \notin truncated
             PROVE  /\ conn[socket[t]].subs = desired[t]
                    /\ conn[socket[t]].account
                    /\ socket[t] \notin Misled /\ UserOf[t] \notin opening =>
                         shown[t] = book[UserOf[t]]
  BY DEF QuietMeansAgreed
<1>1. PICK c \in Conn : c = socket[t]
  BY DEF Quiet, QInv, IInv, TypeOK
<1>2. PICK k \in Connection : k = conn[c]
  BY DEF QInv, IInv, TypeOK
<1>3. /\ k.stage = "served" /\ k.inbox = <<>> /\ k.outbox = <<>>
      /\ k.read = "none" /\ Attuned(t, c)
  BY <1>1, <1>2 DEF Quiet, QInv, Tuned, Stage
<1>4. Hears(k, <<>>, desired[t])
  BY <1>1, <1>2, <1>3 DEF Attuned, Pending
<1>5. k.account
  BY <1>4, NothingInNone DEF Hears
<1>6. \A s \in Symbol : s \in k.subs <=> s \in desired[t]
  BY <1>4, NothingInNone DEF Hears, Leads
<1>7. k.subs \subseteq Symbol /\ desired[t] \subseteq Symbol
  BY DEF QInv, IInv, TypeOK, Connection
<1>8. c \notin Misled /\ UserOf[t] \notin opening => shown[t] = book[UserOf[t]]
  BY <1>2, <1>3, <1>5 DEF Attuned, LastSent, Stage
<1> QED
  BY <1>1, <1>2, <1>5, <1>6, <1>7, <1>8

(***************************************************************************)
(* When nothing is on its way, the server serves what the tab wants and    *)
(* the tab shows the position as it is, whatever sockets were lost, unless *)
(* early frames were dropped, a snapshot came after an update it does not  *)
(* contain, a position left the memory without an update, or one is still  *)
(* to be broadcast.                                                        *)
(***************************************************************************)
THEOREM Agreement == Spec => []QuietMeansAgreed
<1>1. QInv => QuietMeansAgreed
  BY QuietAgrees
<1> QED
  BY <1>1, QInvariance, PTL
-----------------------------------------------------------------------------
(* Limits.                                                                 *)

(* What a connection may take of the server's memory.                      *)
FewSubs(k) == Cardinality(k.subs) <= MaxSubs
WithinLimits(k) == FewSubs(k) /\ Len(k.early) <= EarlyFrames
LimitsHold == \A c \in Conn : WithinLimits(conn[c])

(* A set of symbols can be counted.                                        *)
LEMMA SubsCounted ==
  ASSUME NEW S \in SUBSET Symbol
  PROVE  IsFiniteSet(S) /\ Cardinality(S) \in Nat
BY FiniteAssumption, FS_Subset, FS_CardinalityType

(* No command gets past the limit of subscriptions.                        *)
LEMMA HandleLimits ==
  ASSUME NEW c, NEW at, NEW k \in Connection, NEW index,
         at = [k |-> k, index |-> index], FewSubs(k), NEW f \in Frame
  PROVE  /\ FewSubs(Handle(at, c, f).k)
         /\ Handle(at, c, f).k.early = k.early
<1>1. IsFiniteSet(k.subs) /\ Cardinality(k.subs) \in Nat
  BY SubsCounted DEF Connection
<1>2. CASE f.type = "account_subscribe"
  <2> DEFINE j == [k EXCEPT !.account = TRUE, !.read = book[UserAt(c)]]
  <2>1. Handle(at, c, f) = [k |-> j, index |-> index]
    BY <1>2 DEF Handle
  <2>2. j.subs = k.subs /\ j.early = k.early
    BY DEF Connection
  <2> HIDE DEF j
  <2> QED
    BY <2>1, <2>2 DEF FewSubs
<1>3. CASE f.type = "unsubscribe"
  <2> DEFINE j == [k EXCEPT !.subs = @ \ {f.symbol}]
  <2>1. Handle(at, c, f)
          = [k |-> j, index |-> [index EXCEPT ![f.symbol] = @ \ {c}]]
    BY <1>3 DEF Handle
  <2>2. j.subs = k.subs \ {f.symbol} /\ j.early = k.early
    BY DEF Connection
  <2>3. /\ Cardinality(k.subs \ {f.symbol}) \in Nat
        /\ Cardinality(k.subs \ {f.symbol}) <= Cardinality(k.subs)
    <3>1. /\ IsFiniteSet(k.subs \ {f.symbol})
          /\ k.subs \ {f.symbol} \subseteq k.subs
      BY <1>1, FS_RemoveElement
    <3> QED
      BY <1>1, <3>1, FS_CardinalityType, FS_Subset
  <2> HIDE DEF j
  <2>4. Handle(at, c, f).k = j
    BY <2>1
  <2> QED
    BY <1>1, <2>2, <2>3, <2>4, BoundAssumption DEF FewSubs
<1>4. CASE /\ f.type = "subscribe"
           /\ f.symbol \notin k.subs /\ Cardinality(k.subs) >= MaxSubs
  <2> DEFINE j == [k EXCEPT !.link = IF @ = "gone" THEN @ ELSE "ended"]
  <2>1. Handle(at, c, f) = [k |-> j, index |-> index]
    BY <1>4 DEF Handle
  <2>2. j.subs = k.subs /\ j.early = k.early
    BY DEF Connection
  <2> HIDE DEF j
  <2> QED
    BY <2>1, <2>2 DEF FewSubs
<1>5. CASE /\ f.type = "subscribe"
           /\ ~ (f.symbol \notin k.subs /\ Cardinality(k.subs) >= MaxSubs)
  <2> DEFINE j == [k EXCEPT !.subs = @ \cup {f.symbol}]
  <2>1. Handle(at, c, f)
          = [k |-> j, index |-> [index EXCEPT ![f.symbol] = @ \cup {c}]]
    BY <1>5 DEF Handle
  <2>2. j.subs = k.subs \cup {f.symbol} /\ j.early = k.early
    BY DEF Connection
  <2> HIDE DEF j
  <2>3. CASE f.symbol \in k.subs
    <3>1. k.subs \cup {f.symbol} = k.subs
      BY <2>3
    <3> QED
      BY <2>1, <2>2, <3>1 DEF FewSubs
  <2>4. CASE f.symbol \notin k.subs
    <3>1. Cardinality(k.subs \cup {f.symbol}) = Cardinality(k.subs) + 1
      BY <1>1, <2>4, FS_AddElement
    <3>2. Cardinality(k.subs) < MaxSubs
      BY <1>1, <1>5, <2>4, BoundAssumption
    <3>3. Cardinality(k.subs \cup {f.symbol}) <= MaxSubs
      <4> DEFINE m == Cardinality(k.subs)
      <4>1. m \in Nat /\ m < MaxSubs /\ MaxSubs \in Nat
        BY <1>1, <3>2, BoundAssumption
      <4>2. m + 1 <= MaxSubs
        <5> HIDE DEF m
        <5> QED
          BY <4>1
      <4> QED
        BY <3>1, <4>2
    <3>4. Handle(at, c, f).k = j
      BY <2>1
    <3> QED
      BY <2>2, <3>3, <3>4 DEF FewSubs
  <2> QED
    BY <2>3, <2>4
<1> QED
  BY <1>2, <1>3, <1>4, <1>5 DEF Frame

(* Nor does the replay, however many frames came before the user was known.*)
LEMMA ReplayLimits ==
  ASSUME IInv, NEW c \in Conn, Stage(c) = "auth"
  PROVE  WithinLimits(Replayed(c).k)
<1> DEFINE n == Len(Replay(c))
           G(at) == /\ Serves(c, at) /\ FewSubs(at.k) /\ at.k.early = <<>>
           S == {i \in 0..n : G(Table(c)[i])}
<1>1. n \in Nat
  BY TableSteps
<1>2. 0 \in S
  <2>1. Table(c)[0] = [k |-> Fresh(c), index |-> bySymbol] /\ 0 \in 0..n
    BY <1>1, TableSteps
  <2>2. Serves(c, Table(c)[0])
    BY <2>1, FreshServes
  <2>3. PICK k \in Connection : k = conn[c] /\ k.subs = {}
    BY DEF IInv, TypeOK, Sane
  <2>4. Fresh(c).subs = {} /\ Fresh(c).early = <<>>
    BY <2>3 DEF Fresh, Connection
  <2>5. FewSubs(Fresh(c))
    BY <2>4, FS_EmptySet, BoundAssumption DEF FewSubs
  <2> QED
    BY <2>1, <2>2, <2>4, <2>5
<1>3. ASSUME NEW i \in 1..n, i - 1 \in S PROVE i \in S
  <2>1. /\ Table(c)[i] = Handle(Table(c)[i - 1], c, Replay(c)[i])
        /\ Replay(c)[i] \in Frame
    BY TableSteps
  <2>2. G(Table(c)[i - 1])
    BY <1>3
  <2>3. Serves(c, Table(c)[i])
    BY <2>1, <2>2, HandleServes
  <2>4. PICK k \in Connection, index \in [Symbol -> SUBSET Conn] :
          Table(c)[i - 1] = [k |-> k, index |-> index]
    BY <2>2 DEF Serves
  <2>5. FewSubs(Table(c)[i].k) /\ Table(c)[i].k.early = <<>>
    <3>1. FewSubs(k) /\ k.early = <<>>
      BY <2>2, <2>4
    <3> QED
      BY <2>1, <2>4, <3>1, HandleLimits
  <2>6. i \in 0..n
    BY <1>1
  <2> QED
    BY <2>3, <2>5, <2>6
<1>4. n \in S
  <2> HIDE DEF S, n
  <2> QED
    BY <1>1, <1>2, <1>3, Counting
<1>5. Len(<<>>) = 0
  OBVIOUS
<1> QED
  BY <1>4, <1>5, TableOfReplay, BoundAssumption DEF WithinLimits

(* A connection that takes neither subscriptions nor early frames.         *)
NoMore(d) ==
  /\ conn'[d].subs \in {conn[d].subs, {}}
  /\ conn'[d].early \in {conn[d].early, <<>>}

LEMMA NoMoreKeeps ==
  ASSUME NEW d, WithinLimits(conn[d]), NoMore(d)
  PROVE  WithinLimits(conn'[d])
<1>1. FewSubs(conn'[d])
  <2>1. Cardinality({}) = 0
    BY FS_EmptySet
  <2>2. CASE conn'[d].subs = {}
    BY <2>1, <2>2, BoundAssumption DEF FewSubs
  <2>3. CASE conn'[d].subs = conn[d].subs
    BY <2>3 DEF WithinLimits, FewSubs
  <2> QED
    BY <2>2, <2>3 DEF NoMore
<1>2. Len(<<>>) = 0
  OBVIOUS
<1>3. Len(conn'[d].early) <= EarlyFrames
  BY <1>2, BoundAssumption DEF WithinLimits, NoMore
<1> QED
  BY <1>1, <1>3 DEF WithinLimits

(* The steps that take from one connection only.                           *)
LEMMA OthersNoMore ==
  ASSUME IInv, LimitsHold, NEW c \in Conn, NEW k,
         conn' = [conn EXCEPT ![c] = k], WithinLimits(k)
  PROVE  LimitsHold'
BY DEF LimitsHold, IInv, TypeOK

LEMMA ReceiveKeepsLimits ==
  ASSUME IInv, LimitsHold, NEW c \in Conn, Receive(c)
  PROVE  LimitsHold'
<1>1. PICK k \in Connection : k = conn[c]
  BY DEF IInv, TypeOK
<1> DEFINE f == Head(conn[c].inbox)
           rest == [k EXCEPT !.inbox = Tail(@)]
<1>2. k.inbox \in Seq(Frame) /\ k.early \in Seq(Frame) /\ k.inbox # <<>>
  BY <1>1 DEF Receive, Connection
<1>3. f \in Frame /\ Tail(k.inbox) \in Seq(Frame)
  BY <1>1, <1>2
<1>4. rest \in Connection /\ rest.subs = k.subs /\ rest.early = k.early
  BY <1>3 DEF Connection
<1>5. WithinLimits(k)
  BY <1>1 DEF LimitsHold
<1>6. WithinLimits(rest)
  BY <1>4, <1>5 DEF WithinLimits, FewSubs
<1>7. CASE Stage(c) = "served"
  <2> DEFINE at == [k |-> rest, index |-> bySymbol]
  <2>1. conn' = [conn EXCEPT ![c] = Handle(at, c, f).k]
    BY <1>1, <1>7 DEF Receive
  <2>2. at = [k |-> rest, index |-> bySymbol]
    OBVIOUS
  <2> HIDE DEF at, rest, f
  <2>3. WithinLimits(Handle(at, c, f).k)
    <3>1. FewSubs(rest) /\ Len(rest.early) <= EarlyFrames
      BY <1>6 DEF WithinLimits
    <3> QED
      BY <1>3, <1>4, <2>2, <3>1, HandleLimits DEF WithinLimits
  <2> QED
    BY <2>1, <2>3, OthersNoMore
<1>8. CASE Stage(c) = "auth" /\ Len(conn[c].early) < EarlyFrames
  <2> DEFINE kept == [rest EXCEPT !.early = Append(@, f)]
  <2>1. conn' = [conn EXCEPT ![c] = kept]
    <3>1. Len(conn[c].early) \in Nat
      BY <1>1, <1>2
    <3> QED
      BY <1>1, <1>8, <3>1, BoundAssumption DEF Receive
  <2> HIDE DEF f, rest
  <2>2. kept.subs = rest.subs /\ kept.early = Append(rest.early, f)
    BY <1>4 DEF Connection
  <2>3. Len(kept.early) = Len(rest.early) + 1 /\ Len(rest.early) \in Nat
    BY <1>2, <1>3, <1>4, <2>2
  <2> HIDE DEF kept
  <2>4. WithinLimits(kept)
    BY <1>1, <1>4, <1>6, <1>8, <2>2, <2>3, BoundAssumption
    DEF WithinLimits, FewSubs
  <2> QED
    BY <2>1, <2>4, OthersNoMore
<1>9. CASE ~ (\/ Stage(c) = "served"
              \/ Stage(c) = "auth" /\ Len(conn[c].early) < EarlyFrames)
  <2>1. Len(conn[c].early) \in Nat
    BY <1>1, <1>2
  <2>2. conn' = [conn EXCEPT ![c] = rest]
    BY <1>1, <1>9, <2>1, BoundAssumption DEF Receive
  <2> HIDE DEF rest
  <2> QED
    BY <1>6, <2>2, OthersNoMore
<1> QED
  BY <1>7, <1>8, <1>9

LEMMA ConnectKeepsLimits ==
  ASSUME IInv, LimitsHold, NEW t \in Tab, NEW c \in Conn, Connect(t, c)
  PROVE  LimitsHold'
<1> DEFINE k == [Unused EXCEPT !.tab = t, !.link = "up", !.stage = "auth",
                               !.inbox = Hello(t)]
<1>1. conn' = [conn EXCEPT ![c] = k]
  BY DEF Connect
<1>2. k.subs = {} /\ k.early = <<>>
  BY DEF Unused
<1> HIDE DEF k
<1>3. WithinLimits(k)
  BY <1>2, FS_EmptySet, BoundAssumption DEF WithinLimits, FewSubs
<1> QED
  BY <1>1, <1>3, OthersNoMore

(* One connection takes no more, and the others stay as they are.          *)
LEMMA OneNoMore ==
  ASSUME IInv, LimitsHold, NEW c \in Conn, NEW k,
         conn' = [conn EXCEPT ![c] = k],
         k.subs \in {conn[c].subs, {}}, k.early \in {conn[c].early, <<>>}
  PROVE  LimitsHold'
<1>1. conn'[c] = k
  BY DEF IInv, TypeOK
<1>2. WithinLimits(conn'[c])
  BY <1>1, NoMoreKeeps DEF LimitsHold, NoMore
<1> QED
  BY <1>1, <1>2, OthersNoMore

LEMMA ToggleKeepsLimits ==
  ASSUME IInv, LimitsHold, NEW t \in Tab, NEW s \in Symbol, Toggle(t, s)
  PROVE  LimitsHold'
<1> DEFINE c == socket[t]
           new == IF s \notin desired[t] THEN Subscribing(s)
                                         ELSE Unsubscribing(s)
<1>1. CASE c # None /\ Link(c) = "up"
  <2>1. c \in Conn
    BY <1>1 DEF IInv, TypeOK
  <2>2. PICK k \in Connection : k = conn[c]
    BY <2>1 DEF IInv, TypeOK
  <2> DEFINE j == [k EXCEPT !.inbox = Append(@, new)]
  <2>3. conn' = [conn EXCEPT ![c] = j]
    BY <1>1, <2>1, <2>2 DEF Toggle, IInv, TypeOK
  <2> HIDE DEF new
  <2>4. j.subs = k.subs /\ j.early = k.early
    BY DEF Connection
  <2> HIDE DEF j, c
  <2> QED
    BY <2>1, <2>2, <2>3, <2>4, OneNoMore
<1>2. CASE ~ (c # None /\ Link(c) = "up")
  BY <1>2 DEF Toggle, LimitsHold
<1> QED
  BY <1>1, <1>2

(* What happens to a link, and what the tab takes, asks for nothing.       *)
LEMMA LinkKeepsLimits ==
  ASSUME IInv, LimitsHold, NEW c \in Conn,
         \/ Apply(c) \/ Terminate(c) \/ Cut(c) \/ Closes(c)
         \/ Refuse(c) \/ Errs(c)
  PROVE  LimitsHold'
<1>1. PICK k \in Connection : k = conn[c]
  BY DEF IInv, TypeOK
<1> DEFINE l == IF k.link = "gone" THEN "gone" ELSE "ended"
           j1 == [k EXCEPT !.outbox = Tail(@)]
           j2 == [k EXCEPT !.link = "ended"]
           j3 == [k EXCEPT !.link = "cut", !.inbox = <<>>, !.outbox = <<>>]
           j4 == [k EXCEPT !.stage = "refused", !.early = <<>>, !.link = l]
           j5 == [k EXCEPT !.link = "ended", !.inbox = <<>>]
<1>2. \E j \in {j1, j2, j3, j4, j5} : conn' = [conn EXCEPT ![c] = j]
  BY <1>1 DEF Apply, Terminate, Cut, Closes, Refuse, Errs, IInv, TypeOK
<1>3. \A j \in {j1, j2, j3, j4, j5} :
        j.subs = k.subs /\ j.early \in {k.early, <<>>}
  <2> HIDE DEF l
  <2> QED
    BY DEF Connection
<1> HIDE DEF j1, j2, j3, j4, j5
<1>4. PICK j : /\ conn' = [conn EXCEPT ![c] = j]
               /\ j.subs = k.subs /\ j.early \in {k.early, <<>>}
  BY <1>2, <1>3
<1> QED
  BY <1>1, <1>4, OneNoMore

(* The close event leaves nothing.                                         *)
LEMMA CloseEventKeepsLimits ==
  ASSUME IInv, LimitsHold, NEW c \in Conn, CloseEvent(c)
  PROVE  LimitsHold'
<1>1. PICK k \in Connection : k = conn[c]
  BY DEF IInv, TypeOK
<1> DEFINE j1 == [k EXCEPT !.link = "gone", !.inbox = <<>>]
           j2 == [Unused EXCEPT !.tab = k.tab, !.link = "gone",
                                !.stage = k.stage, !.read = k.read]
<1>2. conn' = [conn EXCEPT ![c] = j1] \/ conn' = [conn EXCEPT ![c] = j2]
  BY <1>1 DEF CloseEvent, Stage, IInv, TypeOK
<1>3. j1.subs = k.subs /\ j1.early = k.early
  BY DEF Connection
<1>4. j2.subs = {} /\ j2.early = <<>>
  BY DEF Unused
<1> HIDE DEF j1, j2
<1> QED
  BY <1>1, <1>2, <1>3, <1>4, OneNoMore

(* What is sent to a tab takes nothing from the server.                    *)
LEMMA SentTakesNothing ==
  ASSUME NEW k \in Connection, NEW p
  PROVE  Sent(k, p).subs = k.subs /\ Sent(k, p).early = k.early
BY DEF Sent, Connection

LEMMA SendSnapshotKeepsLimits ==
  ASSUME IInv, LimitsHold, NEW c \in Conn, SendSnapshot(c)
  PROVE  LimitsHold'
<1>1. PICK k \in Connection : k = conn[c]
  BY DEF IInv, TypeOK
<1>2. PICK p \in Position : p = k.read
  BY <1>1 DEF SendSnapshot, Connection
<1>3. PICK s \in Connection :
        s = Sent(k, p) /\ s.subs = k.subs /\ s.early = k.early
  BY SentLike, SentTakesNothing
<1> DEFINE j == [s EXCEPT !.read = "none"]
<1>4. conn' = [conn EXCEPT ![c] = j]
  BY <1>1, <1>2, <1>3 DEF SendSnapshot, IInv, TypeOK
<1>5. j.subs = k.subs /\ j.early = k.early
  BY <1>3 DEF Connection
<1> HIDE DEF j
<1> QED
  BY <1>1, <1>4, <1>5, OneNoMore

LEMMA BroadcastKeepsLimits ==
  ASSUME IInv, LimitsHold, NEW u \in User, NEW q \in Position, Broadcast(u, q)
  PROVE  LimitsHold'
<1>1. ASSUME NEW d \in Conn PROVE NoMore(d)
  <2>1. conn[d] \in Connection
    BY DEF IInv, TypeOK
  <2>2. conn'[d] = conn[d] \/ conn'[d] = Sent(conn[d], q)
    BY DEF Broadcast
  <2> QED
    BY <2>1, <2>2, SentTakesNothing DEF NoMore
<1> QED
  BY <1>1, NoMoreKeeps DEF LimitsHold

(***************************************************************************)
(* A client cannot make the server keep more for a connection than its     *)
(* limits say, also not by what it sends before its user is known: the     *)
(* early frames are bounded, and their replay is held to the same limit of *)
(* subscriptions as the frames that come later.                            *)
(***************************************************************************)
THEOREM Limits == Spec => []LimitsHold
<1>1. Init => LimitsHold
  <2> SUFFICES ASSUME Init, NEW c \in Conn PROVE WithinLimits(conn[c])
    BY DEF LimitsHold
  <2>1. conn[c].subs = {} /\ conn[c].early = <<>>
    BY DEF Init, Unused
  <2> QED
    BY <2>1, FS_EmptySet, BoundAssumption DEF WithinLimits, FewSubs
<1>2. IInv /\ LimitsHold /\ [Next]_vars => LimitsHold'
  <2> SUFFICES ASSUME IInv, LimitsHold, [Next]_vars PROVE LimitsHold'
    OBVIOUS
  <2>1. ASSUME NEW c \in Conn, Authenticated(c)
        PROVE  LimitsHold'
    <3>1. /\ conn' = [conn EXCEPT ![c] = Replayed(c).k]
          /\ WithinLimits(Replayed(c).k)
      BY <2>1, ReplayLimits DEF Authenticated
    <3> QED
      BY <3>1, OthersNoMore
  <2>2. ASSUME NEW c \in Conn, Receive(c)
        PROVE  LimitsHold'
    BY <2>2, ReceiveKeepsLimits
  <2>3. ASSUME NEW t \in Tab, NEW c \in Conn, Connect(t, c)
        PROVE  LimitsHold'
    BY <2>3, ConnectKeepsLimits
  <2>4. ASSUME NEW t \in Tab, NEW s \in Symbol, Toggle(t, s)
        PROVE  LimitsHold'
    BY <2>4, ToggleKeepsLimits
  <2>5. ASSUME NEW t \in Tab, LosesSocket(t) PROVE LimitsHold'
    BY <2>5 DEF LosesSocket, LimitsHold
  <2>6. ASSUME NEW c \in Conn,
               \/ Apply(c) \/ Terminate(c) \/ Cut(c) \/ Closes(c)
               \/ Refuse(c) \/ Errs(c)
        PROVE  LimitsHold'
    BY <2>6, LinkKeepsLimits
  <2>7. ASSUME NEW c \in Conn, CloseEvent(c) PROVE LimitsHold'
    BY <2>7, CloseEventKeepsLimits
  <2>8. ASSUME NEW c \in Conn, SendSnapshot(c) PROVE LimitsHold'
    BY <2>8, SendSnapshotKeepsLimits
  <2>9. ASSUME NEW u \in User, Announces(u) \/ ClosesPosition(u)
        PROVE  LimitsHold'
    BY <2>9, BroadcastKeepsLimits DEF Announces, ClosesPosition, Position
  <2>10. ASSUME NEW u \in User, Opens(u) \/ DropsPosition(u) PROVE LimitsHold'
    BY <2>10 DEF Opens, DropsPosition, LimitsHold
  <2>11. CASE UNCHANGED vars
    BY <2>11 DEF vars, LimitsHold
  <2> QED
    BY <2>1, <2>2, <2>3, <2>4, <2>5, <2>6, <2>7, <2>8, <2>9, <2>10, <2>11
    DEF Next, Progress
<1> QED
  BY Invariance, <1>1, <1>2, PTL DEF Spec
=============================================================================
