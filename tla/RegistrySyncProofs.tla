-------------------------- MODULE RegistrySyncProofs -------------------------
(***************************************************************************)
(* What is published of the registry stays published: for any number of    *)
(* machines, writes, computations and faults.                              *)
(***************************************************************************)
EXTENDS RegistrySync, FiniteSetTheorems, WellFoundedInduction, TLAPS

Ranks == {NoRank} \cup UNION {Clock[m] : m \in Machines}

\* The types, with the times a pipeline row can have.
Types ==
    /\ TypeOK
    /\ rank \in [Machines -> [by : Machines, at : Ranks]]

\* A machine has all its own commits; nobody has commits that do not exist; the rows of a
\* machine's files only grow from one commit to the next and to its working tree.
Histories ==
    /\ \A m \in Machines : head[m][m] = Len(log[m]) /\ Len(log[m]) > 0
    /\ \A m, n \in Machines : head[m][n] <= Len(log[n])
    /\ \A n \in Machines : remote[n] <= Len(log[n])
    /\ \A n \in Machines : \A i, j \in 1..Len(log[n]) : i <= j => log[n][i].rows \subseteq log[n][j].rows
    /\ \A m \in Machines : log[m][Len(log[m])].rows \subseteq own[m].rows

IInv == Types /\ Histories

\* Commits are added and none is changed.
Extended ==
    \A n \in Machines : /\ Len(log[n]) <= Len(log'[n])
                        /\ \A i \in 1..Len(log[n]) : log'[n][i] = log[n][i]

USE RegistryAssumption

-----------------------------------------------------------------------------
(* Numbers.                                                                *)

LEMMA MaxOfTwo ==
    ASSUME NEW i \in Nat, NEW j \in Nat
    PROVE  Max({i, j}) \in {i, j} /\ i <= Max({i, j}) /\ j <= Max({i, j})
<1>1. \E x \in {i, j} : \A y \in {i, j} : x >= y
  <2>1. CASE i >= j
    BY <2>1
  <2>2. CASE j >= i
    BY <2>2
  <2> QED BY <2>1, <2>2
<1>2. Max({i, j}) \in {i, j} /\ \A y \in {i, j} : Max({i, j}) >= y
  BY <1>1 DEF Max
<1> QED BY <1>2

\* A finite set on which numbers are given has a member with the largest.
LEMMA Largest ==
    ASSUME NEW S, IsFiniteSet(S), S # {}, NEW v \in [S -> Nat]
    PROVE  \E x \in S : \A y \in S : v[y] <= v[x]
<1> DEFINE above == [x \in S |-> {y \in S : v[y] > v[x]}]
           size == [x \in S |-> Cardinality(above[x])]
           sizes == {size[x] : x \in S}
           less == {pair \in Nat \X Nat : pair[1] < pair[2]}
<1>1. \A x \in S : above[x] \in SUBSET S
  OBVIOUS
<1>2. \A x, y \in S : v[y] > v[x] => /\ above[y] \subseteq above[x]
                                    /\ y \in above[x] /\ y \notin above[y]
  OBVIOUS
<1>3. \A x \in S : size[x] = Cardinality(above[x])
  OBVIOUS
<1> HIDE DEF above, size
<1>4. \A x \in S : IsFiniteSet(above[x]) /\ size[x] \in Nat
  BY <1>1, <1>3, FS_Subset, FS_CardinalityType
<1>5. sizes \subseteq Nat /\ sizes # {}
  BY <1>4
<1>6. PICK x \in S : \A y \in S : ~(size[y] < size[x])
  <2>1. IsWellFoundedOn(less, Nat)
    BY NatLessThanWellFounded DEF OpToRel
  <2>2. \E k \in sizes : \A l \in sizes : <<l, k>> \notin less
    <3> HIDE DEF sizes, less
    <3> QED BY <1>5, <2>1, WFMin
  <2> QED BY <1>4, <2>2
<1>7. ASSUME NEW y \in S, v[y] > v[x] PROVE FALSE
  <2>1. Cardinality(above[y]) <= Cardinality(above[x]) /\ Cardinality(above[y]) # Cardinality(above[x])
    BY <1>2, <1>4, <1>7, FS_Subset
  <2> QED BY <1>3, <1>4, <1>6, <2>1
<1> QED BY <1>7

-----------------------------------------------------------------------------
(* What the operations return.                                             *)

LEMMA FilesType == ASSUME Types, NEW h \in [Machines -> Nat], NEW n \in Machines, h[n] <= Len(log[n])
                   PROVE  Files(h, n) \in Contents
<1>1. log[n] \in Seq(Contents)
  BY DEF Types, TypeOK
<1>2. Empty \in Contents
  BY DEF Empty, Contents
<1> HIDE DEF Contents
<1>3. h[n] # 0 => h[n] \in 1..Len(log[n])
  OBVIOUS
<1> QED BY <1>1, <1>2, <1>3 DEF Files

\* An import leaves a pipeline row of some machine with a time at which one was computed.
LEMMA ImportedRankType ==
    ASSUME Types, NEW m \in Machines, NEW h \in [Machines -> Nat],
           \A n \in Machines \ {m} : h[n] <= Len(log[n])
    PROVE  ImportedRank(m, h) \in [by : Machines, at : Ranks]
<1> DEFINE others == {k \in Machines \ {m} : Files(h, k).rank # NoRank}
           ranks == {[by |-> n, at |-> Files(h, n).rank] : n \in others}
           newer == {r \in ranks : Newer(r, rank[m])}
           from == {n \in others : Newer([by |-> n, at |-> Files(h, n).rank], rank[m])}
           time == [n \in from |-> Files(h, n).rank]
<1>1. \A n \in Machines \ {m} : Files(h, n).rank \in Ranks
  BY FilesType DEF Contents, Ranks
<1>2. Ranks \subseteq Nat
  BY DEF Ranks, NoRank
<1>3. newer \subseteq [by : Machines, at : Ranks]
  BY <1>1
<1>4. CASE newer = {}
  BY <1>4 DEF ImportedRank, Types
<1>5. CASE newer # {}
  <2>1. from # {} /\ IsFiniteSet(from)
    <3>1. PICK r \in ranks : Newer(r, rank[m])
      BY <1>5
    <3>2. PICK n \in others : r = [by |-> n, at |-> Files(h, n).rank]
      BY <3>1
    <3>3. n \in from
      BY <3>1, <3>2
    <3>4. from \in SUBSET Machines
      OBVIOUS
    <3> HIDE DEF from
    <3> QED BY <3>3, <3>4, FS_Subset
  <2>2. time \in [from -> Nat]
    BY <1>1, <1>2
  <2> HIDE DEF time
  <2>3. PICK n \in from : \A k \in from : time[k] <= time[n]
    BY <2>1, <2>2, Largest
  <2>4. \E r \in newer : \A s \in newer : s.at <= r.at
    <3> DEFINE top == [by |-> n, at |-> Files(h, n).rank]
    <3>1. top \in newer
      OBVIOUS
    <3>2. ASSUME NEW s \in newer PROVE s.at <= top.at
      <4>1. PICK k \in others : s = [by |-> k, at |-> Files(h, k).rank]
        OBVIOUS
      <4>2. k \in from
        BY <4>1
      <4>3. s.at = time[k] /\ top.at = time[n]
        BY <4>1, <4>2 DEF time
      <4> QED BY <2>3, <4>2, <4>3
    <3> HIDE DEF top, newer
    <3> QED BY <3>1, <3>2
  <2>5. (CHOOSE r \in newer : \A s \in newer : s.at <= r.at) \in newer
    BY <2>4
  <2> QED BY <1>3, <1>5, <2>5 DEF ImportedRank
<1> QED BY <1>4, <1>5

-----------------------------------------------------------------------------
(* What a merge and a commit do to the histories.                          *)

HistoryTypes == log \in [Machines -> Seq(Contents)] /\ head \in [Machines -> [Machines -> Nat]]

LEMMA AppendFacts ==
    ASSUME NEW S, NEW s \in Seq(S), NEW x \in S
    PROVE  /\ Append(s, x) \in Seq(S) /\ Len(Append(s, x)) = Len(s) + 1
           /\ \A i \in 1..Len(s) : Append(s, x)[i] = s[i]
           /\ Append(s, x)[Len(s) + 1] = x
OBVIOUS

\* A commit of machine m's files, with all the rows of its last one.
LEMMA AppendKeeps ==
    ASSUME IInv, NEW m \in Machines, NEW files \in Contents,
           log[m][Len(log[m])].rows \subseteq files.rows, files.rows \subseteq own'[m].rows,
           \A n \in Machines : own[n].rows \subseteq own'[n].rows,
           log' = [log EXCEPT ![m] = Append(log[m], files)],
           head' \in [Machines -> [Machines -> Nat]],
           \A k \in Machines \ {m} : head'[k] = head[k],
           head'[m][m] = Len(log[m]) + 1,
           \A n \in Machines \ {m} : head'[m][n] <= Len(log[n]),
           UNCHANGED remote
    PROVE  HistoryTypes' /\ Histories' /\ Extended
<1>1. log \in [Machines -> Seq(Contents)] /\ head \in [Machines -> [Machines -> Nat]] /\ remote \in [Machines -> Nat]
  BY DEF IInv, Types, TypeOK
<1>2. \A n \in Machines : Len(log[n]) \in Nat /\ Len(log[n]) > 0
  BY <1>1 DEF IInv, Histories
<1> HIDE DEF Contents
<1>3. /\ log'[m] \in Seq(Contents) /\ Len(log'[m]) = Len(log[m]) + 1
      /\ \A i \in 1..Len(log[m]) : log'[m][i] = log[m][i]
      /\ log'[m][Len(log[m]) + 1] = files
  <2>1. log'[m] = Append(log[m], files)
    BY <1>1
  <2> QED BY <1>1, <2>1, AppendFacts
<1>4. \A n \in Machines \ {m} : log'[n] = log[n]
  BY <1>1
<1>5. HistoryTypes' /\ Extended
  <2>1. log' \in [Machines -> Seq(Contents)]
    BY <1>1, AppendFacts
  <2>2. \A n \in Machines : Len(log[n]) <= Len(log'[n]) /\ \A i \in 1..Len(log[n]) : log'[n][i] = log[n][i]
    <3> TAKE n \in Machines
    <3>1. CASE n = m
      BY <1>2, <1>3, <3>1
    <3>2. CASE n # m
      BY <1>2, <1>4, <3>2
    <3> QED BY <3>1, <3>2
  <2> QED BY <2>1, <2>2 DEF HistoryTypes, Extended
<1>6. \A k \in Machines : head'[k][k] = Len(log'[k]) /\ Len(log'[k]) > 0
  <2> TAKE k \in Machines
  <2>1. CASE k = m
    BY <1>2, <1>3, <2>1
  <2>2. CASE k # m
    BY <1>4, <2>2 DEF IInv, Histories
  <2> QED BY <2>1, <2>2
<1>7. \A k, n \in Machines : head'[k][n] <= Len(log'[n])
  <2> TAKE k, n \in Machines
  <2>1. head'[k][n] <= Len(log[n]) \/ (k = m /\ n = m)
    BY DEF IInv, Histories
  <2>2. Len(log[n]) <= Len(log'[n]) /\ head'[k][n] \in Nat /\ Len(log[n]) \in Nat /\ Len(log'[n]) \in Nat
    BY <1>2, <1>5 DEF Extended, HistoryTypes
  <2>3. CASE k = m /\ n = m
    BY <1>6, <2>2, <2>3
  <2>4. CASE head'[k][n] <= Len(log[n])
    BY <2>2, <2>4, SMTT(40)
  <2> QED BY <2>1, <2>3, <2>4
<1>8. \A n \in Machines : remote'[n] <= Len(log'[n])
  BY <1>1, <1>2, <1>3, <1>4 DEF IInv, Histories
<1>9. \A n \in Machines : \A i, j \in 1..Len(log'[n]) : i <= j => log'[n][i].rows \subseteq log'[n][j].rows
  <2> TAKE n \in Machines
  <2>1. CASE n # m
    BY <1>4, <2>1, SMTT(40) DEF IInv, Histories
  <2>2. CASE n = m
    <3> TAKE i, j \in 1..Len(log'[n])
    <3>1. CASE j <= Len(log[m])
      BY <1>2, <1>3, <2>2, <3>1 DEF IInv, Histories
    <3>2. CASE j = Len(log[m]) + 1 /\ i <= Len(log[m])
      <4>1. log[m][i].rows \subseteq log[m][Len(log[m])].rows
        BY <1>2, <2>2, <3>2 DEF IInv, Histories
      <4> QED BY <1>2, <1>3, <2>2, <3>2, <4>1
    <3>3. CASE j = Len(log[m]) + 1 /\ i = j
      BY <3>3
    <3> QED BY <1>2, <1>3, <2>2, <3>1, <3>2, <3>3
  <2> QED BY <2>1, <2>2
<1>10. \A n \in Machines : log'[n][Len(log'[n])].rows \subseteq own'[n].rows
  BY <1>3, <1>4, SMTT(40) DEF IInv, Histories
<1> QED BY <1>5, <1>6, <1>7, <1>8, <1>9, <1>10 DEF Histories

LEMMA MergeKeeps ==
    ASSUME IInv, NEW m \in Machines, Merge(m), UNCHANGED <<own, remote>>
    PROVE  HistoryTypes' /\ Histories' /\ Extended
<1>1. log \in [Machines -> Seq(Contents)] /\ head \in [Machines -> [Machines -> Nat]] /\ remote \in [Machines -> Nat]
      /\ own \in [Machines -> Contents]
  BY DEF IInv, Types, TypeOK
<1>2. CASE UNCHANGED <<head, log>>
  <2>1. HistoryTypes' /\ Histories'
    BY <1>1, <1>2 DEF IInv, HistoryTypes, Histories
  <2>2. \A n \in Machines : Len(log[n]) <= Len(log[n])
    BY <1>1
  <2>3. log' = log
    BY <1>2
  <2>4. Extended
    BY <2>2, <2>3 DEF Extended
  <2> QED BY <2>1, <2>4
<1>3. CASE Ancestor(head[m], remote) /\ head' = [head EXCEPT ![m] = remote] /\ UNCHANGED log
  <2>1. \A k \in Machines : head'[k] = IF k = m THEN remote ELSE head[k]
    BY <1>1, <1>3
  <2>2. remote[m] = Len(log[m])
    <3>1. head[m][m] <= remote[m] /\ remote[m] <= Len(log[m]) /\ head[m][m] = Len(log[m])
      BY <1>3 DEF Ancestor, IInv, Histories
    <3> QED BY <1>1, <3>1
  <2>3. HistoryTypes' /\ Extended
    BY <1>1, <1>3 DEF HistoryTypes, Extended
  <2>4. Histories'
    BY <1>3, <2>1, <2>2 DEF IInv, Histories
  <2> QED BY <2>3, <2>4
<1>4. CASE /\ head' = [head EXCEPT ![m] =
                  [n \in Machines |-> IF n = m THEN head[m][m] + 1 ELSE Max({head[m][n], remote[n]})]]
           /\ log' = [log EXCEPT ![m] = Append(log[m], Files(head[m], m))]
  <2> DEFINE files == Files(head[m], m)
             joined == [n \in Machines |-> IF n = m THEN head[m][m] + 1 ELSE Max({head[m][n], remote[n]})]
  <2>1. files = log[m][Len(log[m])] /\ files \in Contents
    <3>1. head[m] \in [Machines -> Nat] /\ head[m][m] = Len(log[m]) /\ head[m][m] # 0
      BY <1>1 DEF IInv, Histories
    <3> QED BY <1>1, <3>1, FilesType DEF Files, IInv
  <2>2. \A n \in Machines : Max({head[m][n], remote[n]}) \in {head[m][n], remote[n]}
    <3> TAKE n \in Machines
    <3>1. head[m][n] \in Nat /\ remote[n] \in Nat
      BY <1>1
    <3> QED BY <3>1, MaxOfTwo
  <2>3. joined \in [Machines -> Nat] /\ \A n \in Machines \ {m} : joined[n] <= Len(log[n])
    <3>1. \A n \in Machines : Max({head[m][n], remote[n]}) \in Nat /\ Max({head[m][n], remote[n]}) <= Len(log[n])
      <4> TAKE n \in Machines
      <4>1. /\ head[m][n] \in Nat /\ head[m][n] <= Len(log[n])
            /\ remote[n] \in Nat /\ remote[n] <= Len(log[n])
        BY <1>1 DEF IInv, Histories
      <4> QED BY <2>2, <4>1
    <3>2. head[m][m] + 1 \in Nat
      BY <1>1
    <3> QED BY <3>1, <3>2
  <2>4. joined[m] = Len(log[m]) + 1
    BY DEF IInv, Histories
  <2> HIDE DEF joined, files
  <2>5. head' = [head EXCEPT ![m] = joined] /\ log' = [log EXCEPT ![m] = Append(log[m], files)]
    BY <1>4 DEF joined, files
  <2>6. /\ head' \in [Machines -> [Machines -> Nat]] /\ head'[m] = joined
        /\ \A k \in Machines \ {m} : head'[k] = head[k]
    BY <1>1, <2>3, <2>5
  <2>7. /\ files.rows \subseteq own'[m].rows /\ log[m][Len(log[m])].rows \subseteq files.rows
        /\ \A n \in Machines : own[n].rows \subseteq own'[n].rows
    BY <2>1 DEF IInv, Histories
  <2>8. head'[m][m] = Len(log[m]) + 1 /\ \A n \in Machines \ {m} : head'[m][n] <= Len(log[n])
    BY <2>3, <2>4, <2>6
  <2>9. PICK f \in Contents : f = files
    BY <2>1
  <2>10. /\ log[m][Len(log[m])].rows \subseteq f.rows /\ f.rows \subseteq own'[m].rows
         /\ log' = [log EXCEPT ![m] = Append(log[m], f)]
    BY <2>5, <2>7, <2>9
  <2> HIDE DEF Contents
  <2> QED BY <2>6, <2>7, <2>8, <2>10, AppendKeeps
<1> QED BY <1>2, <1>3, <1>4 DEF Merge

\* The files of a machine get more rows, and are committed or not.
LEMMA WriteKeeps ==
    ASSUME IInv, NEW m \in Machines, NEW files \in Contents, own[m].rows \subseteq files.rows,
           own' = [own EXCEPT ![m] = files], UNCHANGED remote, Commit(m) \/ UNCHANGED <<log, head>>
    PROVE  HistoryTypes' /\ Histories' /\ Extended /\ own' \in [Machines -> Contents]
<1>1. log \in [Machines -> Seq(Contents)] /\ head \in [Machines -> [Machines -> Nat]] /\ remote \in [Machines -> Nat]
      /\ own \in [Machines -> Contents]
  BY DEF IInv, Types, TypeOK
<1> HIDE DEF Contents
<1>2. own' \in [Machines -> Contents] /\ own'[m] = files /\ \A n \in Machines : own[n].rows \subseteq own'[n].rows
  BY <1>1
<1>3. CASE UNCHANGED <<log, head>>
  <2>1. HistoryTypes' /\ Extended
    BY <1>1, <1>3 DEF HistoryTypes, Extended
  <2>2. \A n \in Machines : log'[n][Len(log'[n])].rows \subseteq own'[n].rows
    BY <1>2, <1>3 DEF IInv, Histories
  <2>3. Histories'
    BY <1>3, <2>2 DEF IInv, Histories
  <2> QED BY <1>2, <2>1, <2>3
<1>4. CASE log' = [log EXCEPT ![m] = Append(@, own'[m])] /\ head' = [head EXCEPT ![m][m] = @ + 1]
  <2>1. log' = [log EXCEPT ![m] = Append(log[m], files)]
    BY <1>1, <1>2, <1>4
  <2>2. /\ head' \in [Machines -> [Machines -> Nat]] /\ head'[m][m] = head[m][m] + 1
        /\ \A k \in Machines \ {m} : head'[k] = head[k]
        /\ \A n \in Machines \ {m} : head'[m][n] = head[m][n]
    BY <1>1, <1>4
  <2>3. head'[m][m] = Len(log[m]) + 1 /\ \A n \in Machines \ {m} : head'[m][n] <= Len(log[n])
    BY <2>2 DEF IInv, Histories
  <2>4. log[m][Len(log[m])].rows \subseteq files.rows /\ files.rows \subseteq own'[m].rows
    BY <1>2 DEF IInv, Histories
  <2> QED BY <1>2, <2>1, <2>2, <2>3, <2>4, AppendKeeps
<1> QED BY <1>3, <1>4 DEF Commit

-----------------------------------------------------------------------------
(* The steps.                                                              *)

\* The remote branch never loses a commit.
Forward == \A n \in Machines : remote[n] <= remote'[n]

Typed ==
    /\ rows \in [Machines -> SUBSET Rows]
    /\ rank \in [Machines -> [by : Machines, at : Ranks]]
    /\ own \in [Machines -> Contents]
    /\ lock \in [Machines -> Actors \cup {"free"}]
    /\ at \in [Machines -> [Actors -> Points]]
    /\ queue \in [Machines -> SUBSET (SUBSET Rows)]
    /\ acts \in 0..MaxActs /\ faults \in 0..MaxFaults

LEMMA TypedParts ==
    Types <=> Typed /\ HistoryTypes /\ remote \in [Machines -> Nat]
<1>1. Ranks \subseteq Nat
  BY DEF Ranks, NoRank
<1>2. rank \in [Machines -> [by : Machines, at : Ranks]] => rank \in [Machines -> [by : Machines, at : Nat]]
  BY <1>1
<1> HIDE DEF Contents
<1> QED BY <1>2 DEF Types, TypeOK, Typed, HistoryTypes

\* A step at the point, the lock or the faults keeps their types.
LEMMA ControlTypes ==
    ASSUME Typed, NEW m \in Machines, NEW a \in Actors
    PROVE  /\ \A p \in Points : GoTo(m, a, p) => at' \in [Machines -> [Actors -> Points]]
           /\ Take(m, a) \/ Leave(m, a) => lock' \in [Machines -> Actors \cup {"free"}]
           /\ Leave(m, a) => at' \in [Machines -> [Actors -> Points]]
           /\ Fault => faults' \in 0..MaxFaults
<1> HIDE DEF Contents
<1>1. \A p \in Points : GoTo(m, a, p) => at' \in [Machines -> [Actors -> Points]]
  BY DEF Typed, GoTo
<1>2. "idle" \in Points
  BY DEF Points
<1>3. Fault => faults' \in 0..MaxFaults
  BY DEF Typed, Fault
<1>4. Take(m, a) \/ Leave(m, a) => lock' \in [Machines -> Actors \cup {"free"}]
  BY DEF Typed, Take, Leave
<1> QED BY <1>1, <1>2, <1>3, <1>4 DEF Leave

\* Nothing is done to the histories and the files.
LEMMA QuietKeeps ==
    ASSUME IInv, UNCHANGED <<own, history>>
    PROVE  HistoryTypes' /\ Histories' /\ Extended /\ Forward /\ remote' \in [Machines -> Nat]
<1>1. log \in [Machines -> Seq(Contents)] /\ head \in [Machines -> [Machines -> Nat]] /\ remote \in [Machines -> Nat]
  BY DEF IInv, Types, TypeOK
<1> QED BY <1>1 DEF IInv, history, HistoryTypes, Histories, Extended, Forward

Kept == Typed' /\ HistoryTypes' /\ remote' \in [Machines -> Nat] /\ Histories' /\ Extended /\ Forward

LEMMA RecordKeeps == ASSUME IInv, NEW m \in Machines, Record(m) PROVE Kept
<1>1. Typed /\ HistoryTypes' /\ Histories' /\ Extended /\ Forward /\ remote' \in [Machines -> Nat]
  BY QuietKeeps, TypedParts DEF IInv, Record, history
<1> DEFINE row == [by |-> m, at |-> acts + 1]
<1>2. row \in Rows /\ acts' \in 0..MaxActs
  BY <1>1 DEF Record, Rows, Typed
<1> HIDE DEF row, Rows, Contents
<1>3. rows' = [rows EXCEPT ![m] = @ \cup {row}]
  BY DEF Record, row
<1>4. rows' \in [Machines -> SUBSET Rows]
  BY <1>1, <1>2, <1>3 DEF Typed
<1>5. queue' \in [Machines -> SUBSET (SUBSET Rows)] /\ faults' \in 0..MaxFaults
  <2>1. OwnRows(m) \cup {row} \in SUBSET Rows
    BY <1>1, <1>2 DEF OwnRows, Typed
  <2>2. CASE queue' = [queue EXCEPT ![m] = @ \cup {OwnRows(m) \cup {row}}] /\ UNCHANGED faults
    BY <1>1, <2>1, <2>2 DEF Typed
  <2>3. CASE Fault /\ UNCHANGED queue
    BY <1>1, <2>3 DEF Typed, Fault
  <2> QED BY <2>2, <2>3 DEF Record, row
<1> QED BY <1>1, <1>2, <1>4, <1>5 DEF Record, Typed, Kept

LEMMA SyncKeeps == ASSUME IInv, NEW m \in Machines, Sync(m) PROVE Kept
<1>1. Typed /\ HistoryTypes /\ remote \in [Machines -> Nat]
  BY TypedParts DEF IInv
<1>2. "cli" \in Actors /\ "export" \in Points
  BY DEF Actors, Points
<1>3. at' \in [Machines -> [Actors -> Points]]
  BY <1>1, <1>2, ControlTypes DEF Sync
<1>4. HistoryTypes' /\ Histories' /\ Extended
  <2>1. CASE Merge(m)
    BY <2>1, MergeKeeps DEF Sync
  <2>2. CASE UNCHANGED <<head, log>>
    BY <2>2, QuietKeeps DEF Sync, history
  <2> QED BY <2>1, <2>2 DEF Sync
<1>5. \A r \in [by : Machines, at : Ranks] :
         Compute(m, r) => rank' \in [Machines -> [by : Machines, at : Ranks]]
  <2> HIDE DEF Contents
  <2>1. \A t \in Clock[m] : [by |-> m, at |-> t] \in [by : Machines, at : Ranks]
    BY DEF Ranks
  <2>2. rank \in [Machines -> [by : Machines, at : Ranks]]
    BY <1>1 DEF Typed
  <2>3. ASSUME NEW r \in [by : Machines, at : Ranks], rank' = [rank EXCEPT ![m] = r]
        PROVE  rank' \in [Machines -> [by : Machines, at : Ranks]]
    BY <2>2, <2>3
  <2> QED BY <2>1, <2>3 DEF Compute
<1>6. rank[m] \in [by : Machines, at : Ranks]
  BY <1>1 DEF Typed
<1>7. rows' \in [Machines -> SUBSET Rows] /\ rank' \in [Machines -> [by : Machines, at : Ranks]]
      /\ faults' \in 0..MaxFaults
  <2>1. CASE Merge(m) /\ rows' = [rows EXCEPT ![m] = ImportedRows(m, head'[m])]
             /\ Compute(m, ImportedRank(m, head'[m])) /\ UNCHANGED faults
    <3>1. \A n \in Machines \ {m} : log'[n] = log[n]
      BY <1>1, <2>1 DEF Merge, HistoryTypes
    <3>2. head'[m] \in [Machines -> Nat] /\ \A n \in Machines \ {m} : head'[m][n] <= Len(log[n])
      BY <1>4, <3>1 DEF HistoryTypes, Histories
    <3>3. \A n \in Machines \ {m} : Files(head'[m], n).rows \subseteq Rows
      BY <3>2, FilesType DEF IInv, Contents
    <3>4. ImportedRows(m, head'[m]) \subseteq Rows
      BY <1>1, <3>3 DEF ImportedRows, Typed
    <3>5. ImportedRank(m, head'[m]) \in [by : Machines, at : Ranks]
      BY <3>2, ImportedRankType DEF IInv
    <3> HIDE DEF Contents
    <3> QED BY <1>1, <1>5, <2>1, <3>4, <3>5 DEF Typed
  <2>2. CASE Fault /\ Compute(m, rank[m]) /\ UNCHANGED rows
    BY <1>1, <1>2, <1>5, <1>6, <2>2, ControlTypes DEF Typed
  <2> QED BY <2>1, <2>2 DEF Sync
<1>8. Forward
  BY <1>1 DEF Sync, Forward
<1> QED BY <1>1, <1>3, <1>4, <1>7, <1>8 DEF Sync, Typed, Kept

\* A merge or nothing, by an actor that only moves on.
LEMMA MergeOrNot ==
    ASSUME IInv, NEW m \in Machines, Merge(m) \/ UNCHANGED <<log, head>>, UNCHANGED <<own, remote>>
    PROVE  HistoryTypes' /\ Histories' /\ Extended /\ Forward /\ remote' \in [Machines -> Nat]
<1>1. HistoryTypes' /\ Histories' /\ Extended
  <2>1. CASE Merge(m)
    BY <2>1, MergeKeeps
  <2>2. CASE UNCHANGED <<log, head>>
    BY <2>2, QuietKeeps DEF history
  <2> QED BY <2>1, <2>2
<1>2. remote \in [Machines -> Nat]
  BY DEF IInv, Types, TypeOK
<1> QED BY <1>1, <1>2 DEF Forward

LEMMA ExportKeeps == ASSUME IInv, NEW m \in Machines, Export(m) \/ ExportSnapshot(m) PROVE Kept
<1>1. Typed /\ HistoryTypes /\ remote \in [Machines -> Nat]
  BY TypedParts DEF IInv
<1>2. \A a \in Actors : a \in {"cli", "panel"}
  BY DEF Actors
<1>3. "cli" \in Actors /\ "panel" \in Actors /\ "push" \in Points /\ "idle" \in Points
  BY DEF Actors, Points
<1>4. PICK files \in Contents : own[m].rows \subseteq files.rows /\ own' = [own EXCEPT ![m] = files]
  <2>1. own[m] \in Contents
    BY <1>1 DEF Typed
  <2>2. CASE Export(m)
    <3> DEFINE files == [rows |-> Written(own[m], OwnRows(m)),
                         rank |-> IF rank[m].by = m THEN rank[m].at ELSE NoRank]
    <3>1. OwnRows(m) \subseteq Rows
      BY <1>1 DEF OwnRows, Typed
    <3>2. (IF rank[m].by = m THEN rank[m].at ELSE NoRank) \in Ranks
      BY <1>1 DEF Typed, Ranks
    <3>3. files \in Contents /\ own[m].rows \subseteq files.rows
      BY <2>1, <3>1, <3>2 DEF Contents, Written, Ranks
    <3>4. own' = [own EXCEPT ![m] = files]
      BY <1>1, <2>2 DEF Export, Typed
    <3> HIDE DEF files, Contents
    <3> QED BY <3>3, <3>4
  <2>3. CASE ExportSnapshot(m)
    <3>1. PICK s \in queue[m] : own' = [own EXCEPT ![m].rows = Written(own[m], s)]
      BY <2>3 DEF ExportSnapshot
    <3> DEFINE files == [own[m] EXCEPT !.rows = Written(own[m], s)]
    <3>2. s \subseteq Rows
      BY <1>1 DEF Typed
    <3>3. files \in Contents /\ own[m].rows \subseteq files.rows
      BY <2>1, <3>2 DEF Contents, Written
    <3>4. own' = [own EXCEPT ![m] = files]
      BY <1>1, <3>1 DEF Typed
    <3> HIDE DEF files, Contents
    <3> QED BY <3>3, <3>4
  <2> QED BY <2>2, <2>3
<1>5. PICK a \in Actors : \/ Take(m, a) /\ Commit(m) /\ GoTo(m, a, "push") /\ UNCHANGED faults
                          \/ CutShort(m, a)
  BY <1>3 DEF Export, ExportSnapshot
<1>6. UNCHANGED <<rows, rank, remote, acts>>
  BY DEF Export, ExportSnapshot, registry
<1>7. HistoryTypes' /\ Histories' /\ Extended /\ own' \in [Machines -> Contents]
  <2>1. Commit(m) \/ UNCHANGED <<log, head>>
    BY <1>5 DEF CutShort
  <2> HIDE DEF Contents
  <2> QED BY <1>4, <1>6, <2>1, WriteKeeps
<1>8. at' \in [Machines -> [Actors -> Points]] /\ lock' \in [Machines -> Actors \cup {"free"}]
      /\ faults' \in 0..MaxFaults
  <2>1. CASE Take(m, a) /\ GoTo(m, a, "push") /\ UNCHANGED faults
    BY <1>1, <1>3, <2>1, ControlTypes DEF Typed
  <2>2. CASE CutShort(m, a)
    BY <1>1, <1>3, <2>2, ControlTypes DEF CutShort, Typed
  <2> QED BY <1>5, <2>1, <2>2
<1>9. queue' \in [Machines -> SUBSET (SUBSET Rows)]
  BY <1>1 DEF Export, ExportSnapshot, Typed
<1> HIDE DEF Contents
<1> QED BY <1>1, <1>6, <1>7, <1>8, <1>9 DEF Typed, Kept, Forward

\* The end of an operation at the remote: what was pushed has all that the remote had.
LEMMA PushKeeps ==
    ASSUME IInv, NEW m \in Machines, NEW a \in Actors, Push(m, a) \/ PushFails(m, a)
    PROVE  Kept
<1>1. Typed /\ HistoryTypes /\ remote \in [Machines -> Nat]
  BY TypedParts DEF IInv
<1> HIDE DEF Contents
<1>2. UNCHANGED <<rows, rank, last, own, log, head, queue, acts>> /\ Leave(m, a)
      /\ (UNCHANGED faults \/ Fault)
  BY DEF Push, PushFails, registry
<1>3. UNCHANGED remote \/ (Ancestor(remote, head[m]) /\ remote' = head[m])
  BY DEF Push, PushFails
<1>4. remote' \in [Machines -> Nat] /\ Forward /\ \A n \in Machines : remote'[n] <= Len(log[n])
  <2>1. CASE UNCHANGED remote
    BY <1>1, <2>1 DEF Forward, IInv, Histories
  <2>2. CASE Ancestor(remote, head[m]) /\ remote' = head[m]
    BY <1>1, <2>2 DEF Forward, Ancestor, HistoryTypes, IInv, Histories
  <2> QED BY <1>3, <2>1, <2>2
<1>5. Histories' /\ HistoryTypes' /\ Extended
  <2>1. UNCHANGED log /\ UNCHANGED head /\ UNCHANGED own
    BY <1>2
  <2>2. HistoryTypes' /\ Extended
    BY <1>1, <2>1 DEF HistoryTypes, Extended
  <2>3. Histories'
    BY <1>4, <2>1 DEF IInv, Histories
  <2> QED BY <2>2, <2>3
<1>6. Typed'
  BY <1>1, <1>2, ControlTypes DEF Typed
<1> QED BY <1>4, <1>5, <1>6 DEF Kept

LEMMA RejectedKeeps == ASSUME IInv, NEW m \in Machines, NEW a \in Actors, Rejected(m, a) PROVE Kept
<1>1. Typed
  BY TypedParts DEF IInv
<1> HIDE DEF Contents
<1>2. UNCHANGED <<rows, rank, own, remote, queue, acts, faults>>
  BY DEF Rejected, registry
<1>3. Merge(m) \/ UNCHANGED <<log, head>>
  BY DEF Rejected
<1>4. at' \in [Machines -> [Actors -> Points]] /\ lock' \in [Machines -> Actors \cup {"free"}]
  <2>1. "again" \in Points
    BY DEF Points
  <2> QED BY <1>1, <2>1, ControlTypes DEF Rejected, Typed
<1>5. Typed'
  BY <1>1, <1>2, <1>4 DEF Typed
<1> QED BY <1>2, <1>3, <1>5, MergeOrNot DEF Kept

LEMMA FaultKeeps == ASSUME IInv, NEW m \in Machines, NoExport(m) \/ NoSnapshots(m) PROVE Kept
<1>1. Typed
  BY TypedParts DEF IInv
<1> HIDE DEF Contents
<1>2. UNCHANGED <<rows, rank, own, log, head, remote, lock, acts>> /\ Fault
  BY DEF NoExport, NoSnapshots, registry, history
<1>3. at' \in [Machines -> [Actors -> Points]]
  <2>1. "cli" \in Actors /\ "idle" \in Points
    BY DEF Actors, Points
  <2> QED BY <1>1, <2>1, ControlTypes DEF NoExport, NoSnapshots, Typed
<1>4. queue' \in [Machines -> SUBSET (SUBSET Rows)]
  <2>1. CASE NoExport(m)
    BY <1>1, <2>1 DEF NoExport, Typed
  <2>2. CASE NoSnapshots(m)
    <3>1. PICK lost \in (SUBSET queue[m]) \ {{}} : queue' = [queue EXCEPT ![m] = queue[m] \ lost]
      BY <2>2 DEF NoSnapshots
    <3> HIDE DEF Rows
    <3>2. queue \in [Machines -> SUBSET (SUBSET Rows)]
      BY <1>1 DEF Typed
    <3> QED BY <3>1, <3>2
  <2> QED BY <2>1, <2>2
<1>5. Typed'
  BY <1>1, <1>2, <1>3, <1>4 DEF Typed, Fault
<1> QED BY <1>2, <1>5, QuietKeeps DEF Kept, history

-----------------------------------------------------------------------------
(* The theorems.                                                           *)

LEMMA Start == Init => IInv
<1> SUFFICES ASSUME Init PROVE IInv
  OBVIOUS
<1>1. Empty \in Contents
  BY DEF Empty, Contents
<1> HIDE DEF Contents
<1>2. Len(<<Empty>>) = 1 /\ <<Empty>>[1] = Empty /\ <<Empty>> \in Seq(Contents)
  BY <1>1
<1>3. Typed
  BY <1>1 DEF Init, Typed, Ranks, NoRank, Actors, Points
<1>4. HistoryTypes /\ remote \in [Machines -> Nat]
  BY <1>2 DEF Init, HistoryTypes
<1>5. Histories
  BY <1>2 DEF Init, Histories
<1> QED BY <1>3, <1>4, <1>5, TypedParts DEF IInv

LEMMA Steps == IInv /\ [Next]_vars => IInv' /\ Extended /\ Forward
<1> SUFFICES ASSUME IInv, [Next]_vars PROVE IInv' /\ Extended /\ Forward
  OBVIOUS
<1>1. Kept
  <2>1. CASE UNCHANGED vars
    <3>1. Typed
      BY TypedParts DEF IInv
    <3>2. Typed'
      BY <2>1, <3>1 DEF vars, Typed
    <3> QED BY <2>1, <3>2, QuietKeeps DEF vars, history, Kept
  <2>2. CASE Next
    BY <2>2, RecordKeeps, SyncKeeps, ExportKeeps, PushKeeps, RejectedKeeps, FaultKeeps DEF Next, Step
  <2> QED BY <2>1, <2>2
<1>2. Types'
  <2>1. Ranks \subseteq Nat
    BY DEF Ranks, NoRank
  <2>2. (rank \in [Machines -> [by : Machines, at : Nat]])'
    BY <1>1, <2>1 DEF Kept, Typed
  <2> HIDE DEF Contents
  <2> QED BY <1>1, <2>2 DEF Kept, Types, TypeOK, Typed, HistoryTypes
<1> QED BY <1>1, <1>2 DEF Kept, IInv

\* What the remote has of a machine's rows, it has after every step.
LEMMA RowsOfLater ==
    ASSUME IInv, IInv', Extended, Forward, NEW m \in Machines
    PROVE  Files(remote, m).rows \subseteq Files(remote, m).rows'
<1>1. /\ remote[m] \in Nat /\ remote[m] <= Len(log[m]) /\ Len(log[m]) \in Nat
      /\ remote'[m] \in Nat /\ remote'[m] <= Len(log'[m]) /\ Len(log'[m]) \in Nat
      /\ remote[m] <= remote'[m]
  BY SMTT(40) DEF IInv, Types, TypeOK, Histories, Forward
<1>2. CASE remote[m] = 0
  BY <1>2 DEF Files, Empty
<1>3. CASE remote[m] # 0
  <2>1. log[m][remote[m]] = log'[m][remote[m]]
    BY <1>1, <1>3 DEF Extended
  <2>2. log'[m][remote[m]].rows \subseteq log'[m][remote'[m]].rows
    BY <1>1, <1>3 DEF IInv, Histories
  <2>3. remote'[m] # 0
    BY <1>1, <1>3
  <2> QED BY <1>3, <2>1, <2>2, <2>3 DEF Files
<1> QED BY <1>2, <1>3

\* The registries, the files, the commits and the lock keep their types; every machine has all of its own commits and
\* nobody, the remote included, has one that does not exist; the rows of a machine's files grow along its commits up to
\* its working tree (sync.py: write_tables, sync_pull, sync_push).
THEOREM HistoriesHold == Spec => [](TypeOK /\ Histories)
<1>1. IInv => TypeOK /\ Histories
  BY DEF IInv, Types
<1> QED BY <1>1, Start, Steps, PTL DEF Spec

\* Nothing that reached the remote is ever taken from it, whatever the machines write, merge, push and lose.
THEOREM PublishedKept == Spec => PublishedStays
<1>1. IInv /\ [Next]_vars => IInv'
  BY Steps
<1>2. IInv /\ IInv' /\ [Next]_vars => [\A m \in Machines : Files(remote, m).rows \subseteq Files(remote, m).rows']_vars
  BY Steps, RowsOfLater
<1> QED BY <1>1, <1>2, Start, PTL DEF Spec, PublishedStays
=============================================================================
