------------------------------ MODULE RunTreeProofs ------------------------------
(***************************************************************************)
(* Proofs about RunTree, for every number of runs and every limit: what    *)
(* the runs of a tree refer to in each other, in every state, and from it   *)
(* that the verdict on a tree tells exactly what it should.                 *)
(***************************************************************************)
EXTENDS RunTree, Orders

-----------------------------------------------------------------------------
(* The inductive invariant.                                                  *)

Types == {"control", "run_start", "delegation", "delegation_result", "run_end"}
Sigs  == {NoSig} \cup (Runs \X Nat)
Artifacts == [type : Types, about : Runs \cup {NoRun}, ref : Sigs,
              disposition : Dispositions \cup {"none"}]

Is(r, k, type) == k \in 1..Size(r) /\ chain[r][k].type = type

Typed ==
    /\ chain \in [Runs -> Seq(Artifacts)]
    /\ persisted \in [Runs -> Nat]
    /\ \A r \in Runs : persisted[r] <= Size(r)

\* A run starts with its Control Artifact and run_start, which no one sees
\* apart, and ends with run_end.
Ordered ==
    \A r \in Runs :
        /\ Size(r) # 1
        /\ \A k \in 1..Size(r) :
              /\ k = 1 <=> chain[r][k].type = "control"
              /\ k = 2 <=> chain[r][k].type = "run_start"
              /\ chain[r][k].type = "run_end" => k = Size(r)

\* c's run_start binds the delegation at <<p, k>>, whose callback has returned.
StartedAt(c, p, k) ==
    /\ chain[c][2].ref = <<p, k>> /\ chain[c][2].about = p
    /\ Is(p, k, "delegation") /\ chain[p][k].about = c
    /\ k <= persisted[p]

Bound ==
    /\ \A r \in Roots : Size(r) >= 2 => chain[r][2].ref = NoSig
    /\ \A c \in Children : Size(c) >= 2 => \E p \in Runs, k \in Nat : StartedAt(c, p, k)

\* A run delegates to a child once, and never to itself.
Delegated ==
    \A p \in Runs, k \in Nat : Is(p, k, "delegation") =>
        /\ chain[p][k].about \in Children /\ chain[p][k].about # p
        /\ \A j \in Nat : Is(p, j, "delegation") /\ chain[p][j].about = chain[p][k].about => j = k

\* A result answers an earlier delegation, which has no other.
Answered ==
    \A p \in Runs, k \in Nat : Is(p, k, "delegation_result") =>
        /\ chain[p][k].about \in Children
        /\ \E j \in Nat : j < k /\ Is(p, j, "delegation") /\ chain[p][j].about = chain[p][k].about
        /\ \A j \in Nat : Is(p, j, "delegation_result") /\ chain[p][j].about = chain[p][k].about
              => j = k

\* Only a run whose delegations all have their result ends completed.
Complete ==
    \A r \in Runs, k \in Nat :
        Is(r, k, "run_end") /\ chain[r][k].disposition = "completed" =>
            \A j \in Nat : Is(r, j, "delegation") =>
                \E i \in Nat : /\ Is(r, i, "delegation_result")
                              /\ chain[r][i].about = chain[r][j].about

TreeInv == Typed /\ Ordered /\ Bound /\ Delegated /\ Answered /\ Complete

-----------------------------------------------------------------------------
(* What sealing does to the runs.                                            *)

\* Behind what run r has come the artifacts; every other run stays as it is.
LEMMA SealExtends ==
    ASSUME Typed, NEW r \in Runs, NEW artifacts \in Seq(Artifacts), Seal(r, artifacts)
    PROVE  /\ Typed'
           /\ \A q \in Runs : Len(chain'[q]) = IF q = r THEN Len(chain[r]) + Len(artifacts)
                                                        ELSE Len(chain[q])
           /\ \A q \in Runs : q # r => chain'[q] = chain[q]
           /\ \A q \in Runs : \A k \in 1..Len(chain[q]) : chain'[q][k] = chain[q][k]
           /\ \A k \in 1..Len(artifacts) : chain'[r][Len(chain[r]) + k] = artifacts[k]
           /\ persisted' = persisted
  <1>1. /\ chain \in [Runs -> Seq(Artifacts)] /\ persisted \in [Runs -> Nat]
        /\ chain' = [chain EXCEPT ![r] = chain[r] \o artifacts]
        /\ persisted' = persisted
    BY DEF Typed, Seal, Size
  <1>2. /\ chain[r] \in Seq(Artifacts) /\ chain[r] \o artifacts \in Seq(Artifacts)
        /\ Len(chain[r] \o artifacts) = Len(chain[r]) + Len(artifacts)
        /\ Len(chain[r]) \in Nat /\ Len(artifacts) \in Nat
        /\ \A k \in 1..Len(chain[r]) : (chain[r] \o artifacts)[k] = chain[r][k]
        /\ \A k \in 1..Len(artifacts) : (chain[r] \o artifacts)[Len(chain[r]) + k] = artifacts[k]
    BY <1>1
  <1>3. /\ chain' \in [Runs -> Seq(Artifacts)]
        /\ chain'[r] = chain[r] \o artifacts
        /\ \A q \in Runs : q # r => chain'[q] = chain[q]
    BY <1>1, <1>2
  <1>4. \A q \in Runs : Len(chain'[q]) = IF q = r THEN Len(chain[r]) + Len(artifacts)
                                                  ELSE Len(chain[q])
    BY <1>2, <1>3
  <1>5. \A q \in Runs : \A k \in 1..Len(chain[q]) : chain'[q][k] = chain[q][k]
    BY <1>2, <1>3
  <1>6. Typed'
    <2>1. ASSUME NEW q \in Runs
          PROVE  persisted'[q] <= Len(chain'[q])
      <3>1. persisted[q] \in Nat /\ persisted[q] <= Len(chain[q])
        BY DEF Typed, Size
      <3>2. CASE q = r
        BY <1>1, <1>2, <1>4, <3>1, <3>2
      <3>3. CASE q # r
        BY <1>1, <1>3, <3>1, <3>3
      <3> QED
        BY <3>2, <3>3
    <2> QED
      BY <1>1, <1>3, <2>1 DEF Typed, Size
  <1> QED
    BY <1>1, <1>2, <1>3, <1>4, <1>5, <1>6

\* One artifact more, behind the run's last.
Longer(r, artifact) ==
    /\ Typed'
    /\ \A q \in Runs : q # r => chain'[q] = chain[q]
    /\ Len(chain'[r]) = Len(chain[r]) + 1
    /\ \A q \in Runs : \A k \in 1..Len(chain[q]) : chain'[q][k] = chain[q][k]
    /\ chain'[r][Len(chain[r]) + 1] = artifact
    /\ persisted' = persisted

LEMMA SealOne ==
    ASSUME Typed, NEW r \in Runs, NEW artifact \in Artifacts, Seal(r, <<artifact>>)
    PROVE  Longer(r, artifact)
  <1>1. /\ <<artifact>> \in Seq(Artifacts) /\ Len(<<artifact>>) = 1 /\ <<artifact>>[1] = artifact
        /\ 1 \in 1..1
    OBVIOUS
  <1> QED
    BY <1>1, SealExtends DEF Longer

\* Where the artifacts of a type are afterwards.
LEMMA Where ==
    ASSUME Typed, NEW r \in Runs, NEW artifact \in Artifacts, Longer(r, artifact)
    PROVE  \A q \in Runs, k \in Nat, type \in Types :
              Is(q, k, type)' <=> \/ Is(q, k, type)
                                  \/ q = r /\ k = Size(r) + 1 /\ artifact.type = type
  <1> SUFFICES ASSUME NEW q \in Runs, NEW k \in Nat, NEW type \in Types
               PROVE  Is(q, k, type)' <=> \/ Is(q, k, type)
                                          \/ q = r /\ k = Size(r) + 1 /\ artifact.type = type
    OBVIOUS
  <1>1. Len(chain[q]) \in Nat /\ Len(chain[r]) \in Nat
    BY DEF Typed
  <1>2. CASE q = r
    <2>1. 1..Len(chain'[r]) = 1..Len(chain[r]) \cup {Len(chain[r]) + 1}
      BY <1>1 DEF Longer
    <2>2. CASE k = Len(chain[r]) + 1
      BY <1>1, <1>2, <2>1, <2>2 DEF Longer, Is, Size
    <2>3. CASE k # Len(chain[r]) + 1
      BY <1>1, <1>2, <2>1, <2>3 DEF Longer, Is, Size
    <2> QED
      BY <2>2, <2>3
  <1>3. CASE q # r
    BY <1>3 DEF Longer, Is, Size
  <1> QED
    BY <1>2, <1>3

-----------------------------------------------------------------------------
(* The steps of a run that is under way: delegate, complete_delegation and   *)
(* finish seal one artifact each.                                            *)

Later == {"delegation", "delegation_result", "run_end"}

\* A run that is open has no run_end.
LEMMA OpenIs ==
    ASSUME Typed, NEW r \in Runs
    PROVE  Open(r) <=> \A k \in Nat : ~Is(r, k, "run_end")
  <1>1. Len(chain[r]) \in Nat
    BY DEF Typed
  <1> QED
    BY <1>1 DEF Open, Ended, Places, Is, Size

LEMMA DeclaredIs ==
    ASSUME Typed, NEW r \in Runs, NEW c
    PROVE  /\ c \in Declared(r) <=> \E k \in Nat : Is(r, k, "delegation") /\ chain[r][k].about = c
           /\ c \in Outstanding(r) <=>
                 /\ c \in Declared(r)
                 /\ \A k \in Nat : Is(r, k, "delegation_result") => chain[r][k].about # c
  <1>1. Len(chain[r]) \in Nat
    BY DEF Typed
  <1>2. ASSUME NEW type
        PROVE  c \in About(r, Size(r), type) <=> \E k \in Nat : Is(r, k, type) /\ chain[r][k].about = c
    <2>1. \A k : k \in Places(r, Size(r), type) <=> Is(r, k, type)
      BY DEF Places, Is
    <2>2. \A k : Is(r, k, type) => k \in Nat
      BY <1>1 DEF Is, Size
    <2> QED
      BY <2>1, <2>2 DEF About
  <1> QED
    BY <1>2 DEF Outstanding, Declared

\* What was there stays.
LEMMA Stays ==
    ASSUME Typed, NEW r \in Runs, NEW artifact \in Artifacts, Longer(r, artifact),
           NEW q \in Runs, NEW k \in Nat, NEW type \in Types, Is(q, k, type)
    PROVE  Is(q, k, type)' /\ chain'[q][k] = chain[q][k]
  <1>1. Is(q, k, type)'
    BY Where
  <1>2. k \in 1..Len(chain[q])
    BY DEF Is, Size
  <1> QED
    BY <1>1, <1>2 DEF Longer

LEMMA LaterOrdered ==
    ASSUME TreeInv, NEW r \in Runs, Size(r) >= 2, Open(r),
           NEW artifact \in Artifacts, artifact.type \in Later, Longer(r, artifact)
    PROVE  Ordered'
  <1>1. Typed
    BY DEF TreeInv
  <1>2. SUFFICES ASSUME NEW q \in Runs
                 PROVE  /\ Len(chain'[q]) # 1
                        /\ \A k \in 1..Len(chain'[q]) :
                              /\ k = 1 <=> chain'[q][k].type = "control"
                              /\ k = 2 <=> chain'[q][k].type = "run_start"
                              /\ chain'[q][k].type = "run_end" => k = Len(chain'[q])
    BY DEF Ordered, Size
  <1>3. CASE q # r
    BY <1>3 DEF TreeInv, Ordered, Longer, Size
  <1>4. CASE q = r
    <2>1. Len(chain[r]) \in Nat /\ Len(chain[r]) >= 2 /\ Len(chain'[r]) = Len(chain[r]) + 1
      BY <1>1 DEF Typed, Longer, Size
    <2>2. ASSUME NEW k \in 1..Len(chain[r])
          PROVE  /\ k = 1 <=> chain'[r][k].type = "control"
                 /\ k = 2 <=> chain'[r][k].type = "run_start"
                 /\ chain'[r][k].type # "run_end"
      <3>1. chain'[r][k] = chain[r][k]
        BY DEF Longer
      <3>2. chain[r][k].type # "run_end"
        BY <1>1, <2>1, OpenIs DEF Is, Size
      <3> QED
        BY <3>1, <3>2 DEF TreeInv, Ordered, Size
    <2>3. chain'[r][Len(chain[r]) + 1].type \in Later
      BY DEF Longer
    <2>4. \A k \in 1..Len(chain'[r]) : k \in 1..Len(chain[r]) \/ k = Len(chain[r]) + 1
      BY <2>1
    <2> QED
      BY <1>4, <2>1, <2>2, <2>3, <2>4 DEF Later
  <1> QED
    BY <1>3, <1>4

LEMMA LaterBound ==
    ASSUME TreeInv, NEW r \in Runs, Size(r) >= 2,
           NEW artifact \in Artifacts, Longer(r, artifact)
    PROVE  Bound'
  <1>1. Typed
    BY DEF TreeInv
  <1>2. ASSUME NEW q \in Runs, Len(chain'[q]) >= 2
        PROVE  Size(q) >= 2 /\ chain'[q][2] = chain[q][2]
    <2>1. Len(chain[q]) \in Nat /\ Len(chain[q]) >= 2
      <3>1. Len(chain[q]) \in Nat
        BY <1>1 DEF Typed
      <3>2. CASE q = r
        BY <3>1, <3>2 DEF Size
      <3>3. CASE q # r
        BY <1>2, <3>1, <3>3 DEF Longer
      <3> QED
        BY <3>2, <3>3
    <2>2. 2 \in 1..Len(chain[q])
      BY <2>1
    <2> QED
      BY <2>1, <2>2 DEF Longer, Size
  <1>3. ASSUME NEW q \in Roots, Len(chain'[q]) >= 2
        PROVE  chain'[q][2].ref = NoSig
    BY <1>2, <1>3 DEF TreeInv, Bound, Runs
  <1>4. ASSUME NEW c \in Children, Len(chain'[c]) >= 2
        PROVE  \E p \in Runs, k \in Nat : StartedAt(c, p, k)'
    <2>1. Size(c) >= 2 /\ chain'[c][2] = chain[c][2]
      BY <1>2, <1>4 DEF Runs
    <2>2. PICK p \in Runs, k \in Nat : StartedAt(c, p, k)
      BY <2>1 DEF TreeInv, Bound
    <2>3. Is(p, k, "delegation")' /\ chain'[p][k] = chain[p][k]
      BY <1>1, <2>2, Stays DEF StartedAt, Types
    <2>4. persisted' = persisted
      BY DEF Longer
    <2>5. StartedAt(c, p, k)'
      BY <2>1, <2>2, <2>3, <2>4 DEF StartedAt
    <2> QED
      BY <2>5
  <1> QED
    BY <1>3, <1>4 DEF Bound, Size

\* Delegations: the artifact is none, or the first of a child.
LEMMA LaterDelegated ==
    ASSUME TreeInv, NEW r \in Runs, NEW artifact \in Artifacts, Longer(r, artifact),
           artifact.type = "delegation" =>
              /\ artifact.about \in Children /\ artifact.about # r
              /\ artifact.about \notin Declared(r)
    PROVE  Delegated'
  <1>1. Typed /\ "delegation" \in Types /\ Size(r) \in Nat
    BY DEF TreeInv, Types, Typed, Size
  <1> SUFFICES ASSUME NEW p \in Runs, NEW k \in Nat, Is(p, k, "delegation")'
               PROVE  /\ chain'[p][k].about \in Children /\ chain'[p][k].about # p
                      /\ \A j \in Nat : Is(p, j, "delegation")'
                            /\ chain'[p][j].about = chain'[p][k].about => j = k
    BY DEF Delegated
  <1> DEFINE n == Size(r) + 1
  <1>2. \A j \in Nat : Is(p, j, "delegation")' <=>
           \/ Is(p, j, "delegation")
           \/ p = r /\ j = n /\ artifact.type = "delegation"
    BY <1>1, Where
  <1>3. \A j \in Nat : Is(p, j, "delegation") => chain'[p][j] = chain[p][j]
    BY <1>1, Stays
  <1>4. chain'[r][n] = artifact
    BY DEF Longer, Size
  <1>5. \A j \in Nat : artifact.type = "delegation" /\ Is(r, j, "delegation")
                       => chain[r][j].about # artifact.about
    BY <1>1, DeclaredIs
  <1> HIDE DEF n
  <1>6. CASE Is(p, k, "delegation")
    <2>1. /\ chain[p][k].about \in Children /\ chain[p][k].about # p
          /\ \A j \in Nat : Is(p, j, "delegation") /\ chain[p][j].about = chain[p][k].about => j = k
      BY <1>6 DEF TreeInv, Delegated
    <2>2. chain'[p][k] = chain[p][k]
      BY <1>3, <1>6
    <2>3. ASSUME NEW j \in Nat, Is(p, j, "delegation")', chain'[p][j].about = chain[p][k].about
          PROVE  j = k
      <3>1. CASE Is(p, j, "delegation")
        BY <1>3, <2>1, <2>3, <3>1
      <3>2. CASE p = r /\ j = n /\ artifact.type = "delegation"
        BY <1>4, <1>5, <1>6, <2>3, <3>2
      <3> QED
        BY <1>2, <2>3, <3>1, <3>2
    <2> QED
      BY <2>1, <2>2, <2>3
  <1>7. CASE p = r /\ k = n /\ artifact.type = "delegation"
    <2>1. ASSUME NEW j \in Nat, Is(p, j, "delegation")', chain'[p][j].about = artifact.about
          PROVE  j = k
      <3>1. CASE Is(p, j, "delegation")
        BY <1>3, <1>5, <1>7, <2>1, <3>1
      <3> QED
        BY <1>2, <1>7, <2>1, <3>1
    <2> QED
      BY <1>4, <1>7, <2>1
  <1> QED
    BY <1>2, <1>6, <1>7

\* Results: the artifact is none, or the first for a child delegated to.
LEMMA LaterAnswered ==
    ASSUME TreeInv, NEW r \in Runs, Open(r), NEW artifact \in Artifacts, Longer(r, artifact),
           artifact.type = "delegation_result" =>
              artifact.about \in Outstanding(r) /\ artifact.about \in Children
    PROVE  Answered'
  <1>1. Typed /\ {"delegation", "delegation_result", "run_end"} \subseteq Types /\ Size(r) \in Nat
    BY DEF TreeInv, Types, Typed, Size
  <1> SUFFICES ASSUME NEW p \in Runs, NEW k \in Nat, Is(p, k, "delegation_result")'
               PROVE  /\ chain'[p][k].about \in Children
                      /\ \E j \in Nat : /\ j < k /\ Is(p, j, "delegation")'
                                        /\ chain'[p][j].about = chain'[p][k].about
                      /\ \A j \in Nat : Is(p, j, "delegation_result")'
                            /\ chain'[p][j].about = chain'[p][k].about => j = k
    BY DEF Answered
  <1> DEFINE n == Size(r) + 1
  <1>2. \A j \in Nat : Is(p, j, "delegation_result")' <=>
           \/ Is(p, j, "delegation_result")
           \/ p = r /\ j = n /\ artifact.type = "delegation_result"
    BY <1>1, Where
  <1>3. \A j \in Nat : /\ Is(p, j, "delegation_result") => chain'[p][j] = chain[p][j]
                       /\ Is(p, j, "delegation") => Is(p, j, "delegation")'
                                                      /\ chain'[p][j] = chain[p][j]
    BY <1>1, Stays
  <1>4. chain'[r][n] = artifact
    BY DEF Longer, Size
  <1>5. ASSUME artifact.type = "delegation_result"
        PROVE  /\ \A j \in Nat : Is(r, j, "delegation_result") => chain[r][j].about # artifact.about
               /\ \E j \in Nat : Is(r, j, "delegation") /\ chain[r][j].about = artifact.about
    BY <1>1, <1>5, DeclaredIs
  <1> HIDE DEF n
  <1>7. CASE Is(p, k, "delegation_result")
    <2>1. /\ chain[p][k].about \in Children
          /\ \E j \in Nat : j < k /\ Is(p, j, "delegation") /\ chain[p][j].about = chain[p][k].about
          /\ \A j \in Nat : Is(p, j, "delegation_result")
                /\ chain[p][j].about = chain[p][k].about => j = k
      BY <1>7 DEF TreeInv, Answered
    <2>2. chain'[p][k] = chain[p][k]
      BY <1>3, <1>7
    <2>4. chain'[p][k].about \in Children
      BY <2>1, <2>2
    <2>5. \E j \in Nat : j < k /\ Is(p, j, "delegation")' /\ chain'[p][j].about = chain'[p][k].about
      BY <1>3, <2>1, <2>2
    <2>6. ASSUME NEW j \in Nat, Is(p, j, "delegation_result")', chain'[p][j].about = chain'[p][k].about
          PROVE  j = k
      <3>1. CASE Is(p, j, "delegation_result")
        BY <1>3, <2>1, <2>2, <2>6, <3>1
      <3>2. CASE p = r /\ j = n /\ artifact.type = "delegation_result"
        BY <1>4, <1>5, <1>7, <2>2, <2>6, <3>2
      <3> QED
        BY <1>2, <2>6, <3>1, <3>2
    <2> QED
      BY <2>4, <2>5, <2>6
  <1>8. CASE p = r /\ k = n /\ artifact.type = "delegation_result"
    <2>1. chain'[p][k].about \in Children
      BY <1>4, <1>8
    <2>2. PICK j \in Nat : Is(r, j, "delegation") /\ chain[r][j].about = artifact.about
      BY <1>5, <1>8
    <2>3. j < n
      BY <1>1, <2>2 DEF Is, n
    <2>4. \E i \in Nat : i < k /\ Is(p, i, "delegation")' /\ chain'[p][i].about = chain'[p][k].about
      BY <1>3, <1>4, <1>8, <2>2, <2>3
    <2>5. ASSUME NEW i \in Nat, Is(p, i, "delegation_result")', chain'[p][i].about = chain'[p][k].about
          PROVE  i = k
      <3>1. CASE Is(p, i, "delegation_result")
        BY <1>3, <1>4, <1>5, <1>8, <2>5, <3>1
      <3> QED
        BY <1>2, <1>8, <2>5, <3>1
    <2> QED
      BY <2>1, <2>4, <2>5
  <1> QED
    BY <1>2, <1>7, <1>8

LEMMA LaterComplete ==
    ASSUME TreeInv, NEW r \in Runs, Open(r), NEW artifact \in Artifacts, Longer(r, artifact),
           artifact.type = "run_end" /\ artifact.disposition = "completed" => Outstanding(r) = {}
    PROVE  Complete'
  <1>1. Typed /\ {"delegation", "delegation_result", "run_end"} \subseteq Types /\ Size(r) \in Nat
    BY DEF TreeInv, Types, Typed, Size
  <1> SUFFICES ASSUME NEW q \in Runs, NEW k \in Nat, Is(q, k, "run_end")',
                      chain'[q][k].disposition = "completed",
                      NEW j \in Nat, Is(q, j, "delegation")'
               PROVE  \E i \in Nat : Is(q, i, "delegation_result")'
                                        /\ chain'[q][i].about = chain'[q][j].about
    BY DEF Complete
  <1> DEFINE n == Size(r) + 1
  <1>2. /\ \A i \in Nat : Is(q, i, "delegation")' <=>
              \/ Is(q, i, "delegation")
              \/ q = r /\ i = n /\ artifact.type = "delegation"
        /\ \A i \in Nat : Is(q, i, "run_end")' <=>
              \/ Is(q, i, "run_end")
              \/ q = r /\ i = n /\ artifact.type = "run_end"
    BY <1>1, Where
  <1>3. \A i \in Nat : /\ Is(q, i, "delegation") => chain'[q][i] = chain[q][i]
                       /\ Is(q, i, "run_end") => chain'[q][i] = chain[q][i]
                       /\ Is(q, i, "delegation_result") => Is(q, i, "delegation_result")'
                                                      /\ chain'[q][i] = chain[q][i]
    BY <1>1, Stays
  <1>4. chain'[r][n] = artifact
    BY DEF Longer, Size
  <1>5. \A i \in Nat : ~Is(r, i, "run_end")
    BY <1>1, OpenIs
  <1> HIDE DEF n
  <1>6. CASE q = r
    <2>1. k = n /\ artifact.type = "run_end" /\ artifact.disposition = "completed"
      BY <1>2, <1>4, <1>5, <1>6
    <2>2. Is(r, j, "delegation")
      BY <1>2, <1>6, <2>1
    <2>3. chain[r][j].about \in Declared(r) /\ chain[r][j].about \notin Outstanding(r)
      BY <1>1, <2>1, <2>2, DeclaredIs
    <2>4. PICK i \in Nat : Is(r, i, "delegation_result") /\ chain[r][i].about = chain[r][j].about
      BY <1>1, <2>3, DeclaredIs
    <2> QED
      BY <1>3, <1>6, <2>2, <2>4
  <1>7. CASE q # r
    <2>1. Is(q, k, "run_end") /\ Is(q, j, "delegation")
      BY <1>2, <1>7
    <2>2. chain[q][k].disposition = "completed"
      BY <1>3, <2>1
    <2>3. PICK i \in Nat : Is(q, i, "delegation_result") /\ chain[q][i].about = chain[q][j].about
      BY <2>1, <2>2 DEF TreeInv, Complete
    <2> QED
      BY <1>3, <2>1, <2>3
  <1> QED
    BY <1>6, <1>7

LEMMA DelegateKeeps ==
    ASSUME TreeInv, NEW p \in Runs, NEW c \in Children, Delegate(p, c)
    PROVE  TreeInv'
  <1> DEFINE a == Artifact("delegation", c, NoSig, "none")
  <1>1. /\ a \in Artifacts /\ a.type = "delegation" /\ a.about = c
        /\ Typed /\ persisted[p] >= 2 /\ Open(p) /\ c # p /\ c \notin Declared(p)
        /\ Seal(p, <<a>>)
    BY DEF Delegate, Running, Artifact, Artifacts, Types, Sigs, Runs, TreeInv
  <1> HIDE DEF a
  <1>2. Size(p) >= 2
    BY <1>1 DEF Typed, Size
  <1>3. Longer(p, a)
    BY <1>1, SealOne
  <1>4. Ordered'
    BY <1>1, <1>2, <1>3, LaterOrdered DEF Later
  <1>5. Bound'
    BY <1>1, <1>2, <1>3, LaterBound
  <1>6. Delegated'
    BY <1>1, <1>3, LaterDelegated
  <1>7. Answered' /\ Complete'
    BY <1>1, <1>3, LaterAnswered, LaterComplete
  <1> QED
    BY <1>3, <1>4, <1>5, <1>6, <1>7 DEF TreeInv, Longer

LEMMA CompleteKeeps ==
    ASSUME TreeInv, NEW p \in Runs, NEW c \in Children, NEW end \in Sigs,
           NEW d \in Dispositions \cup {"none"}, CompleteByValues(p, c, end, d)
    PROVE  TreeInv'
  <1> DEFINE a == Artifact("delegation_result", c, end, d)
  <1>1. Typed /\ persisted[p] >= 2 /\ Open(p) /\ c \in Outstanding(p) /\ c \in Runs
    BY DEF CompleteByValues, Running, TreeInv, Runs
  <1>2. a \in Artifacts /\ a.type = "delegation_result" /\ a.about = c
    BY <1>1 DEF Artifact, Artifacts, Types
  <1>3. Seal(p, <<a>>)
    BY DEF CompleteByValues
  <1> HIDE DEF a
  <1>4. Size(p) >= 2
    BY <1>1 DEF Typed, Size
  <1>5. Longer(p, a)
    BY <1>1, <1>2, <1>3, SealOne
  <1>6. Ordered'
    BY <1>1, <1>2, <1>4, <1>5, LaterOrdered DEF Later
  <1>7. Bound'
    BY <1>1, <1>2, <1>4, <1>5, LaterBound
  <1>8. Delegated'
    BY <1>2, <1>5, LaterDelegated
  <1>9. Answered'
    BY <1>1, <1>2, <1>5, LaterAnswered
  <1>10. Complete'
    BY <1>1, <1>2, <1>5, LaterComplete
  <1> QED
    BY <1>5, <1>6, <1>7, <1>8, <1>9, <1>10 DEF TreeInv, Longer

\* What a caller may say of a child's end.
LEMMA ValuesAre ==
    ASSUME Typed, NEW c \in Children
    PROVE  /\ \A v \in Values(c) : v[1] \in Sigs /\ v[2] \in Dispositions
           /\ Ended(c) => RunEnd(c) \in Sigs
                         /\ chain[c][Size(c)].disposition \in Dispositions \cup {"none"}
  <1>1. c \in Runs /\ chain[c] \in Seq(Artifacts) /\ Size(c) \in Nat /\ RunEnd(c) \in Sigs
    BY DEF Typed, Runs, Size, RunEnd, Sigs
  <1>2. \A v \in Values(c) : v[1] \in Sigs /\ v[2] \in Dispositions
    BY <1>1 DEF Values, Sigs, Dispositions
  <1>3. ASSUME Ended(c)
        PROVE  chain[c][Size(c)].disposition \in Dispositions \cup {"none"}
    <2>1. PICK k \in 1..Size(c) : chain[c][k].type = "run_end"
      BY <1>3 DEF Ended, Places
    <2>2. Size(c) \in 1..Size(c)
      BY <1>1, <2>1
    <2>3. chain[c][Size(c)] \in Artifacts
      BY <1>1, <2>2 DEF Size
    <2> QED
      BY <2>3 DEF Artifacts
  <1> QED
    BY <1>1, <1>2, <1>3

LEMMA FinishKeeps ==
    ASSUME TreeInv, NEW r \in Runs, NEW d \in Dispositions, Finish(r, d)
    PROVE  TreeInv'
  <1> DEFINE a == Artifact("run_end", NoRun, NoSig, d)
  <1>1. /\ a \in Artifacts /\ a.type = "run_end" /\ a.disposition = d
        /\ Typed /\ persisted[r] >= 2 /\ Open(r)
        /\ d = "completed" => Outstanding(r) = {}
        /\ Seal(r, <<a>>)
    BY DEF Finish, Running, Artifact, Artifacts, Types, Sigs, TreeInv
  <1> HIDE DEF a
  <1>2. Size(r) >= 2
    BY <1>1 DEF Typed, Size
  <1>3. Longer(r, a)
    BY <1>1, SealOne
  <1>4. Ordered'
    BY <1>1, <1>2, <1>3, LaterOrdered DEF Later
  <1>5. Bound' /\ Delegated'
    BY <1>1, <1>2, <1>3, LaterBound, LaterDelegated
  <1>6. Answered'
    BY <1>1, <1>3, LaterAnswered
  <1>7. Complete'
    BY <1>1, <1>3, LaterComplete
  <1> QED
    BY <1>3, <1>4, <1>5, <1>6, <1>7 DEF TreeInv, Longer

-----------------------------------------------------------------------------
(* A run that starts, and a callback.                                        *)

\* start seals the first two artifacts of a run at once; nothing else changes,
\* and nothing referred to the run.
LEMMA StartKeeps ==
    ASSUME TreeInv, NEW r \in Runs, chain[r] = <<>>,
           NEW parent \in Runs \cup {NoRun}, NEW sig \in Sigs, Seal(r, Started(parent, sig)),
           r \in Roots => sig = NoSig,
           r \in Children => \E p \in Runs, k \in Nat :
                                /\ sig = <<p, k>> /\ parent = p
                                /\ Is(p, k, "delegation") /\ chain[p][k].about = r
                                /\ k <= persisted[p]
    PROVE  TreeInv'
  <1> DEFINE a == Artifact("control", NoRun, NoSig, "none")
             b == Artifact("run_start", parent, sig, "none")
  <1>1. Typed /\ Types = {"control", "run_start"} \cup Later
    BY DEF TreeInv, Types, Later
  <1>2. /\ a \in Artifacts /\ b \in Artifacts /\ a.type = "control" /\ b.type = "run_start"
        /\ b.about = parent /\ b.ref = sig
    BY DEF Artifact, Artifacts, Types, Sigs
  <1>3. Started(parent, sig) = <<a, b>>
    BY DEF Started
  <1> HIDE DEF a, b
  <1>4. <<a, b>> \in Seq(Artifacts) /\ Len(<<a, b>>) = 2 /\ <<a, b>>[1] = a /\ <<a, b>>[2] = b
    BY <1>2
  <1>5. /\ Typed' /\ persisted' = persisted
        /\ \A q \in Runs : q # r => chain'[q] = chain[q]
        /\ Len(chain'[r]) = 2 /\ chain'[r][1] = a /\ chain'[r][2] = b
    <2>1. Len(chain[r]) = 0
      OBVIOUS
    <2>2. PICK s \in Seq(Artifacts) : s = <<a, b>>
      BY <1>4
    <2>3. /\ Typed' /\ persisted' = persisted
          /\ \A q \in Runs : q # r => chain'[q] = chain[q]
          /\ \A q \in Runs : Len(chain'[q]) = IF q = r THEN Len(chain[r]) + Len(s)
                                                       ELSE Len(chain[q])
          /\ \A k \in 1..Len(s) : chain'[r][Len(chain[r]) + k] = s[k]
      <3>1. Seal(r, s)
        BY <1>3, <2>2
      <3> QED
        BY <1>1, <3>1, SealExtends
    <2>4. Len(s) = 2 /\ s[1] = a /\ s[2] = b
      BY <1>4, <2>2
    <2>5. Len(chain'[r]) = 2
      <3>1. Len(chain'[r]) = Len(chain[r]) + Len(s)
        BY <2>3
      <3> QED
        BY <2>1, <2>4, <3>1
    <2>6. chain'[r][0 + 1] = s[1] /\ chain'[r][0 + 2] = s[2]
      BY <2>1, <2>3, <2>4
    <2> QED
      BY <2>3, <2>4, <2>5, <2>6
  <1>6. /\ \A q \in Runs, k \in Nat, type \in Later : Is(q, k, type)' <=> Is(q, k, type)
        /\ \A q \in Runs, k \in Nat, type \in Later : Is(q, k, type) => q # r
    <2>1. ASSUME NEW q \in Runs, NEW k \in Nat, NEW type \in Later
          PROVE  (Is(q, k, type)' <=> Is(q, k, type)) /\ (Is(q, k, type) => q # r)
      <3>1. CASE q # r
        BY <1>5, <3>1 DEF Is, Size
      <3>2. CASE q = r
        <4>1. ~Is(r, k, type)
          BY DEF Is, Size
        <4>2. ~Is(r, k, type)'
          <5>1. SUFFICES ASSUME k \in 1..2, chain'[r][k].type = type
                         PROVE  FALSE
            BY <1>5 DEF Is, Size
          <5>2. type # "control" /\ type # "run_start"
            BY DEF Later
          <5> QED
            BY <1>2, <1>5, <5>1, <5>2
        <4> QED
          BY <3>2, <4>1, <4>2
      <3> QED
        BY <3>1, <3>2
    <2> QED
      BY <2>1
  <1>7. Ordered'
    <2>1. ASSUME NEW q \in Runs
          PROVE  /\ Len(chain'[q]) # 1
                 /\ \A k \in 1..Len(chain'[q]) :
                       /\ k = 1 <=> chain'[q][k].type = "control"
                       /\ k = 2 <=> chain'[q][k].type = "run_start"
                       /\ chain'[q][k].type = "run_end" => k = Len(chain'[q])
      <3>1. CASE q # r
        BY <1>5, <3>1 DEF TreeInv, Ordered, Size
      <3>2. CASE q = r
        BY <1>2, <1>5, <3>2
      <3> QED
        BY <3>1, <3>2
    <2> QED
      BY <2>1 DEF Ordered, Size
  <1>8. Bound'
    <2>1. ASSUME NEW q \in Roots, Len(chain'[q]) >= 2
          PROVE  chain'[q][2].ref = NoSig
      <3>1. q \in Runs
        BY DEF Runs
      <3>2. CASE q # r
        BY <1>5, <2>1, <3>1, <3>2 DEF TreeInv, Bound, Size
      <3>3. CASE q = r
        BY <1>2, <1>5, <3>3
      <3> QED
        BY <3>2, <3>3
    <2>2. ASSUME NEW c \in Children, Len(chain'[c]) >= 2
          PROVE  \E p \in Runs, k \in Nat : StartedAt(c, p, k)'
      <3>1. c \in Runs
        BY DEF Runs
      <3>2. CASE c # r
        <4>1. chain'[c] = chain[c] /\ Size(c) >= 2
          BY <1>5, <2>2, <3>1, <3>2 DEF Size
        <4>2. PICK p \in Runs, k \in Nat : StartedAt(c, p, k)
          BY <4>1 DEF TreeInv, Bound
        <4>3. Is(p, k, "delegation")' /\ chain'[p] = chain[p]
          BY <1>5, <1>6, <4>2 DEF StartedAt, Later
        <4>4. StartedAt(c, p, k)'
          BY <1>5, <4>1, <4>2, <4>3 DEF StartedAt
        <4> QED
          BY <4>4
      <3>3. CASE c = r
        <4>1. PICK p \in Runs, k \in Nat :
                 /\ sig = <<p, k>> /\ parent = p
                 /\ Is(p, k, "delegation") /\ chain[p][k].about = r
                 /\ k <= persisted[p]
          BY <3>3
        <4>2. Is(p, k, "delegation")' /\ chain'[p] = chain[p]
          BY <1>5, <1>6, <4>1 DEF Later
        <4>3. StartedAt(c, p, k)'
          BY <1>2, <1>5, <3>3, <4>1, <4>2 DEF StartedAt
        <4> QED
          BY <4>3
      <3> QED
        BY <3>2, <3>3
    <2> QED
      BY <2>1, <2>2 DEF Bound, Size
  <1>9. /\ \A q \in Runs, k \in Nat : Is(q, k, "delegation")' <=> Is(q, k, "delegation")
        /\ \A q \in Runs, k \in Nat : Is(q, k, "delegation_result")' <=> Is(q, k, "delegation_result")
        /\ \A q \in Runs, k \in Nat : Is(q, k, "run_end")' <=> Is(q, k, "run_end")
        /\ \A q \in Runs, k \in Nat : Is(q, k, "delegation") => chain'[q] = chain[q]
        /\ \A q \in Runs, k \in Nat : Is(q, k, "delegation_result") => chain'[q] = chain[q]
        /\ \A q \in Runs, k \in Nat : Is(q, k, "run_end") => chain'[q] = chain[q]
    BY <1>5, <1>6 DEF Later
  <1>10. Delegated'
    BY <1>9 DEF TreeInv, Delegated
  <1>11. Answered'
    <2> SUFFICES ASSUME NEW p \in Runs, NEW k \in Nat, Is(p, k, "delegation_result")'
                 PROVE  /\ chain'[p][k].about \in Children
                        /\ \E j \in Nat : /\ j < k /\ Is(p, j, "delegation")'
                                          /\ chain'[p][j].about = chain'[p][k].about
                        /\ \A j \in Nat : Is(p, j, "delegation_result")'
                              /\ chain'[p][j].about = chain'[p][k].about => j = k
      BY DEF Answered
    <2>1. Is(p, k, "delegation_result") /\ chain'[p] = chain[p]
      BY <1>9
    <2>2. /\ chain[p][k].about \in Children
          /\ \E j \in Nat : j < k /\ Is(p, j, "delegation") /\ chain[p][j].about = chain[p][k].about
          /\ \A j \in Nat : Is(p, j, "delegation_result")
                /\ chain[p][j].about = chain[p][k].about => j = k
      BY <2>1 DEF TreeInv, Answered
    <2> QED
      BY <1>9, <2>1, <2>2
  <1>12. Complete'
    BY <1>9 DEF TreeInv, Complete
  <1> QED
    BY <1>5, <1>7, <1>8, <1>10, <1>11, <1>12 DEF TreeInv

\* Answered speaks of the runs alone.
LEMMA AnsweredOfRuns ==
    ASSUME Answered, chain' = chain
    PROVE  Answered'
  <1>1. /\ \A p \in Runs, k \in Nat : Is(p, k, "delegation")' <=> Is(p, k, "delegation")
        /\ \A p \in Runs, k \in Nat :
              Is(p, k, "delegation_result")' <=> Is(p, k, "delegation_result")
    BY DEF Is, Size
  <1> QED
    BY <1>1 DEF Answered

LEMMA PersistKeeps ==
    ASSUME TreeInv, NEW r \in Runs, Persist(r)
    PROVE  TreeInv'
  <1>1. /\ chain' = chain /\ persisted \in [Runs -> Nat]
        /\ persisted' = [persisted EXCEPT ![r] = persisted[r] + 1]
        /\ persisted[r] < Size(r)
    BY DEF Persist, TreeInv, Typed
  <1>2. \A q \in Runs : persisted'[q] = IF q = r THEN persisted[r] + 1 ELSE persisted[q]
    BY <1>1
  <1>3. Typed'
    <2>1. ASSUME NEW q \in Runs
          PROVE  persisted'[q] <= Len(chain[q])
      <3>1. Len(chain[q]) \in Nat /\ persisted[q] \in Nat /\ persisted[q] <= Len(chain[q])
        BY DEF TreeInv, Typed, Size
      <3> QED
        BY <1>1, <1>2, <3>1 DEF Size
    <2>2. persisted' \in [Runs -> Nat]
      BY <1>1
    <2> QED
      BY <1>1, <2>1, <2>2 DEF TreeInv, Typed, Size
  <1>4. ASSUME NEW c \in Children, NEW p \in Runs, NEW k \in Nat, StartedAt(c, p, k)
        PROVE  StartedAt(c, p, k)'
    <2>1. persisted[p] \in Nat /\ persisted[p] <= persisted'[p]
      BY <1>1, <1>2
    <2> QED
      BY <1>1, <1>4, <2>1 DEF StartedAt, Is, Size
  <1>5. Bound'
    BY <1>1, <1>4 DEF TreeInv, Bound, Size
  <1>6. Ordered' /\ Delegated'
    BY <1>1 DEF TreeInv, Ordered, Delegated, Is, Size
  <1>7. Answered'
    BY <1>1, AnsweredOfRuns DEF TreeInv
  <1>8. Complete'
    BY <1>1 DEF TreeInv, Complete, Is, Size
  <1> QED
    BY <1>3, <1>5, <1>6, <1>7, <1>8 DEF TreeInv

-----------------------------------------------------------------------------
LEMMA TreeInit == Init => TreeInv
  BY TreeAssumption DEF Init, TreeInv, Typed, Ordered, Bound, Delegated, Answered, Complete, Is, Size, Runs

LEMMA TreeNext == TreeInv /\ [Next]_vars => TreeInv'
  <1> SUFFICES ASSUME TreeInv, [Next]_vars
               PROVE  TreeInv'
    OBVIOUS
  <1>1. CASE UNCHANGED vars
    <2>1. chain' = chain /\ persisted' = persisted
      BY <1>1 DEF vars
    <2>2. Typed' /\ Ordered' /\ Delegated'
      BY <2>1 DEF TreeInv, Typed, Ordered, Delegated, Is, Size
    <2>3. Bound'
      <3>1. \A c \in Children, p \in Runs, k \in Nat : StartedAt(c, p, k)' <=> StartedAt(c, p, k)
        BY <2>1 DEF StartedAt, Is, Size
      <3> QED
        BY <2>1, <3>1 DEF TreeInv, Bound, Size
    <2>4. Answered' /\ Complete'
      BY <2>1, AnsweredOfRuns DEF TreeInv, Complete, Is, Size
    <2> QED
      BY <2>2, <2>3, <2>4 DEF TreeInv
  <1>2. ASSUME NEW r \in Runs, Persist(r)
        PROVE  TreeInv'
    BY <1>2, PersistKeeps
  <1>3. ASSUME NEW r \in Runs, StartRoot(r)
        PROVE  TreeInv'
    <2>1. r \in Roots /\ r \notin Children
      BY <1>3, TreeAssumption DEF StartRoot
    <2>2. NoRun \in Runs \cup {NoRun} /\ NoSig \in Sigs
      BY DEF Sigs
    <2> QED
      BY <1>3, <2>1, <2>2, StartKeeps DEF StartRoot
  <1>4. ASSUME NEW p \in Runs, NEW c \in Children, StartChild(c, p)
        PROVE  TreeInv'
    <2>1. PICK k \in Places(p, Size(p), "delegation") :
             /\ chain[p][k].about = c /\ Handed(p, k)
             /\ Seal(c, Started(p, <<p, k>>))
      BY <1>4 DEF StartChild
    <2>2. Is(p, k, "delegation") /\ k \in Nat /\ k <= persisted[p]
      BY <2>1 DEF Places, Is, Handed, Size, TreeInv, Typed
    <2>3. c \notin Roots /\ c \in Runs /\ <<p, k>> \in Sigs /\ chain[c] = <<>>
      BY <1>4, <2>2, TreeAssumption DEF Runs, Sigs, StartChild
    <2>4. \E q \in Runs, i \in Nat :
             /\ <<p, k>> = <<q, i>> /\ p = q
             /\ Is(q, i, "delegation") /\ chain[q][i].about = c
             /\ i <= persisted[q]
      BY <2>1, <2>2
    <2> QED
      BY <2>1, <2>3, <2>4, StartKeeps
  <1>5. ASSUME NEW p \in Runs, NEW c \in Children,
               \/ Delegate(p, c) \/ CompleteDelegation(p, c)
               \/ \E v \in Values(c) : CompleteByValues(p, c, v[1], v[2])
        PROVE  TreeInv'
    <2>1. CASE Delegate(p, c)
      BY <2>1, DelegateKeeps
    <2>2. CASE CompleteDelegation(p, c)
      <3>1. /\ RunEnd(c) \in Sigs /\ chain[c][Size(c)].disposition \in Dispositions \cup {"none"}
            /\ CompleteByValues(p, c, RunEnd(c), chain[c][Size(c)].disposition)
        BY <2>2, ValuesAre DEF CompleteDelegation, TreeInv
      <3> QED
        BY <3>1, CompleteKeeps
    <2>3. CASE \E v \in Values(c) : CompleteByValues(p, c, v[1], v[2])
      <3>1. PICK v \in Values(c) : CompleteByValues(p, c, v[1], v[2])
        BY <2>3
      <3>2. v[1] \in Sigs /\ v[2] \in Dispositions \cup {"none"}
        BY ValuesAre DEF TreeInv
      <3> QED
        BY <3>1, <3>2, CompleteKeeps
    <2> QED
      BY <1>5, <2>1, <2>2, <2>3
  <1>6. ASSUME NEW r \in Runs, NEW d \in Dispositions, Finish(r, d)
        PROVE  TreeInv'
    BY <1>6, FinishKeeps
  <1> QED
    BY <1>1, <1>2, <1>3, <1>4, <1>5, <1>6 DEF Next

\* The inductive invariant holds of every behaviour: what the artifacts of one
\* run name in another is there, whatever the order of calls and callbacks.
THEOREM TreeInvariant == Spec => []TreeInv
  <1>1. Init => TreeInv
    BY TreeInit
  <1>2. TreeInv /\ [Next]_vars => TreeInv'
    BY TreeNext
  <1> QED
    BY <1>1, <1>2, PTL DEF Spec

\* TypeOK, for every number of runs: nothing follows a run_end, and no callback
\* is ahead of the log.
THEOREM TreesTyped == Spec => []TypeOK
  <1>1. TreeInv => TypeOK
    <2> SUFFICES ASSUME TreeInv
                 PROVE  TypeOK
      OBVIOUS
    <2>1. ASSUME NEW r \in Runs, NEW k \in 1..Size(r)
          PROVE  /\ chain[r][k].type \in Types
                 /\ chain[r][k].about \in Runs \cup {NoRun}
                 /\ chain[r][k].disposition \in Dispositions \cup {"none"}
                 /\ chain[r][k].type = "run_end" => k = Size(r)
      <3>1. chain[r][k] \in Artifacts
        BY DEF TreeInv, Typed, Size
      <3>2. chain[r][k].type = "run_end" => k = Size(r)
        BY DEF TreeInv, Ordered
      <3> QED
        BY <3>1, <3>2 DEF Artifacts
    <2> QED
      BY <2>1 DEF TreeInv, Typed, TypeOK, Types
  <1> QED
    BY <1>1, TreeInvariant, PTL

-----------------------------------------------------------------------------
(* Reading a cut.                                                            *)

IsCut(cut) == cut \in [Runs -> Nat] /\ \A r \in Runs : cut[r] <= Size(r)

Has(cut, r, k, type) == Is(r, k, type) /\ k <= cut[r]

Ends(cut, r) == cut[r] = Size(r) /\ Is(r, Size(r), "run_end")

LEMMA Reading ==
    ASSUME TreeInv, NEW cut, IsCut(cut), NEW r \in Runs
    PROVE  /\ cut[r] \in Nat /\ Size(r) \in Nat /\ cut[r] <= Size(r)
           /\ r \in Supplied(cut) <=> cut[r] > 0
           /\ \A k, type : k \in Places(r, cut[r], type) <=> k \in Nat /\ Has(cut, r, k, type)
           /\ \A c : Declares(cut, r, c) <=>
                 \E k \in Nat : Has(cut, r, k, "delegation") /\ chain[r][k].about = c
           /\ Closed(cut, r) <=> Ends(cut, r)
  <1>1. cut[r] \in Nat /\ Size(r) \in Nat /\ cut[r] <= Size(r)
    BY DEF IsCut, TreeInv, Typed, Size
  <1>2. r \in Supplied(cut) <=> cut[r] > 0
    BY DEF Supplied
  <1>3. \A k, type : k \in Places(r, cut[r], type) <=> k \in Nat /\ Has(cut, r, k, type)
    BY <1>1 DEF Places, Has, Is
  <1>4. \A c : Declares(cut, r, c) <=>
           \E k \in Nat : Has(cut, r, k, "delegation") /\ chain[r][k].about = c
    BY <1>3 DEF Declares, About
  <1>5. Closed(cut, r) <=> Ends(cut, r)
    <2>1. ASSUME NEW k \in Nat, Has(cut, r, k, "run_end")
          PROVE  k = Size(r) /\ cut[r] = Size(r)
      <3>1. k = Size(r)
        BY <2>1 DEF Has, Is, TreeInv, Ordered
      <3> QED
        BY <1>1, <2>1, <3>1 DEF Has
    <2> QED
      BY <1>1, <1>3, <2>1 DEF Closed, Ends, Has
  <1> QED
    BY <1>1, <1>2, <1>3, <1>4, <1>5

\* The first artifacts: a run whose run_start is there is a root, or a child
\* that binds a delegation.
LEMMA ReadingStarts ==
    ASSUME TreeInv, NEW cut, IsCut(cut), NEW r \in Runs
    PROVE  /\ IsChild(cut, r) <=> cut[r] >= 2 /\ r \in Children
           /\ r \in Roots <=> r \notin Children
           /\ IsChild(cut, r) => \E p \in Runs, k \in Nat : StartedAt(r, p, k)
  <1>1. cut[r] \in Nat /\ Size(r) \in Nat /\ cut[r] <= Size(r)
    BY Reading
  <1>2. r \in Roots <=> r \notin Children
    BY TreeAssumption DEF Runs
  <1>3. cut[r] >= 2 => Size(r) >= 2
    BY <1>1
  <1>4. ASSUME cut[r] >= 2, r \in Roots
        PROVE  chain[r][2].ref = NoSig
    BY <1>3, <1>4 DEF TreeInv, Bound
  <1>5. ASSUME cut[r] >= 2, r \in Children
        PROVE  /\ \E p \in Runs, k \in Nat : StartedAt(r, p, k)
               /\ chain[r][2].ref # NoSig
    <2>1. PICK p \in Runs, k \in Nat : StartedAt(r, p, k)
      BY <1>3, <1>5 DEF TreeInv, Bound
    <2>2. chain[r][2].ref = <<p, k>>
      BY <2>1 DEF StartedAt
    <2>3. <<p, k>> # <<>>
      OBVIOUS
    <2> QED
      BY <2>1, <2>2, <2>3 DEF NoSig
  <1> QED
    BY <1>2, <1>4, <1>5 DEF IsChild, HasStart

\* The result at <<p, i>> tells how c ended, and the end is there.
Told(cut, p, i, c) ==
    /\ Ends(cut, c)
    /\ chain[p][i].ref = <<c, Size(c)>>
    /\ chain[p][i].disposition = chain[c][Size(c)].disposition

\* What an edge refers to: a child that is not there or bound by it, and, of a
\* result that is there, the end it tells of.
EdgeOk(cut, p, k) ==
    LET c == chain[p][k].about
    IN  /\ cut[c] = 0 \/ (cut[c] >= 2 /\ chain[c][2].ref = <<p, k>>)
        /\ \A i \in Nat : Has(cut, p, i, "delegation_result") /\ chain[p][i].about = c
              => Told(cut, p, i, c)

EdgeDone(cut, p, k) ==
    LET c == chain[p][k].about
    IN  /\ cut[c] >= 2 /\ chain[c][2].ref = <<p, k>>
        /\ \E i \in Nat : /\ Has(cut, p, i, "delegation_result") /\ chain[p][i].about = c
                          /\ Told(cut, p, i, c)

EdgeSound(cut, e) ==
    ~ \/ Binding(cut, e) = "unbound" \/ Completion(cut, e) = "result_mismatch"
      \/ Withheld(cut, e)
      \/ Completion(cut, e) = "no_result" /\ ClosedAs(cut, e[1], "completed")

LEMMA EdgesAre ==
    ASSUME TreeInv, NEW cut, IsCut(cut)
    PROVE  \A e : e \in Edges(cut) <=> \E p \in Runs, k \in Nat :
              e = <<p, k>> /\ Has(cut, p, k, "delegation")
  <1>1. \A p \in Runs : \A k : k \in Delegations(cut, p) <=> k \in Nat /\ Has(cut, p, k, "delegation")
    BY Reading DEF Delegations
  <1>2. ASSUME NEW p \in Runs, NEW k \in Nat, Has(cut, p, k, "delegation")
        PROVE  p \in Supplied(cut)
    <2>1. k >= 1 /\ k <= cut[p] /\ cut[p] \in Nat
      BY <1>2, Reading DEF Has, Is
    <2> QED
      BY <2>1, Reading
  <1>3. ASSUME NEW e \in Edges(cut)
        PROVE  \E p \in Runs, k \in Nat : e = <<p, k>> /\ Has(cut, p, k, "delegation")
    <2>1. PICK p \in Supplied(cut) : e \in {p} \X Delegations(cut, p)
      BY <1>3 DEF Edges
    <2>2. PICK k \in Delegations(cut, p) : e = <<p, k>>
      BY <2>1
    <2>3. p \in Runs
      BY DEF Supplied
    <2> QED
      BY <1>1, <2>2, <2>3
  <1>4. ASSUME NEW p \in Runs, NEW k \in Nat, Has(cut, p, k, "delegation")
        PROVE  <<p, k>> \in Edges(cut)
    <2>1. p \in Supplied(cut) /\ k \in Delegations(cut, p)
      BY <1>1, <1>2, <1>4
    <2>2. <<p, k>> \in {p} \X Delegations(cut, p)
      BY <2>1
    <2> QED
      BY <2>1, <2>2 DEF Edges
  <1> QED
    BY <1>3, <1>4

\* The findings about one edge.
LEMMA EdgeIs ==
    ASSUME TreeInv, NEW cut, IsCut(cut), NEW p \in Runs, NEW k \in Nat,
           Has(cut, p, k, "delegation")
    PROVE  /\ EdgeSound(cut, <<p, k>>) <=> EdgeOk(cut, p, k)
           /\ Binding(cut, <<p, k>>) = "mutually_bound" /\ Completion(cut, <<p, k>>) = "result_bound"
                 <=> EdgeDone(cut, p, k)
  <1> DEFINE e == <<p, k>>
             c == chain[p][k].about
             Answer(i) == Has(cut, p, i, "delegation_result") /\ chain[p][i].about = c
  <1>1. /\ Is(p, k, "delegation") /\ k <= cut[p]
        /\ c \in Children /\ c # p /\ c \in Runs
    BY DEF Has, TreeInv, Delegated, Runs
  <1>2. e[1] = p /\ e[2] = k /\ Child(e) = c
    BY DEF Child
  <1>3. /\ cut[c] \in Nat /\ Size(c) \in Nat /\ cut[c] <= Size(c)
        /\ IsChild(cut, c) <=> cut[c] >= 2
        /\ Closed(cut, c) <=> Ends(cut, c)
    BY <1>1, Reading, ReadingStarts
  <1>4. Binding(cut, e) = IF cut[c] = 0 THEN "child_missing"
                          ELSE IF cut[c] >= 2 /\ chain[c][2].ref = e THEN "mutually_bound"
                          ELSE "unbound"
    <2>1. PICK x, y : x = e /\ y = c
      OBVIOUS
    <2>2. Child(x) = y /\ cut[y] \in Nat /\ (IsChild(cut, y) <=> cut[y] >= 2)
      BY <1>2, <1>3, <2>1
    <2>3. Binding(cut, x) = IF cut[y] = 0 THEN "child_missing"
                            ELSE IF cut[y] >= 2 /\ chain[y][2].ref = x THEN "mutually_bound"
                            ELSE "unbound"
      BY <2>2 DEF Binding
    <2> QED
      BY <2>1, <2>3
  <1>5. ASSUME NEW i \in Nat, Answer(i)
        PROVE  /\ i > k
               /\ \A j \in Nat : Answer(j) => j = i
    <2>1. Is(p, i, "delegation_result") /\ chain[p][i].about = c
      BY <1>5 DEF Has
    <2>2. /\ \E j \in Nat : j < i /\ Is(p, j, "delegation") /\ chain[p][j].about = c
          /\ \A j \in Nat : Is(p, j, "delegation_result") /\ chain[p][j].about = c => j = i
      BY <2>1 DEF TreeInv, Answered
    <2>3. \A j \in Nat : Is(p, j, "delegation") /\ chain[p][j].about = c => j = k
      BY <1>1 DEF TreeInv, Delegated
    <2> QED
      BY <2>2, <2>3 DEF Has
  <1>6. \A i : i \in ResultOf(cut, e) <=> i \in Nat /\ Answer(i)
    <2>1. \A i : i \in Results(cut, p) <=> i \in Nat /\ Has(cut, p, i, "delegation_result")
      BY Reading DEF Results
    <2> QED
      BY <1>2, <1>5, <2>1 DEF ResultOf
  <1> HIDE DEF Answer
  <1>7. CASE \A i \in Nat : ~Answer(i)
    <2>1. Completion(cut, e) = "no_result"
      BY <1>6, <1>7 DEF Completion
    <2>2. ~ClosedAs(cut, p, "completed")
      <3> SUFFICES ASSUME ClosedAs(cut, p, "completed")
                   PROVE  FALSE
        OBVIOUS
      <3>1. Ends(cut, p) /\ chain[p][cut[p]].disposition = "completed" /\ Size(p) \in Nat
        BY Reading DEF ClosedAs
      <3>2. PICK i \in Nat : Is(p, i, "delegation_result") /\ chain[p][i].about = chain[p][k].about
        BY <1>1, <3>1 DEF Ends, TreeInv, Complete
      <3>3. Answer(i)
        BY <3>1, <3>2 DEF Answer, Has, Is, Ends
      <3> QED
        BY <1>7, <3>3
    <2>3. EdgeSound(cut, e) <=> Binding(cut, e) # "unbound"
      BY <1>2, <2>1, <2>2 DEF EdgeSound, Withheld
    <2>4. /\ EdgeOk(cut, p, k) <=> cut[c] = 0 \/ (cut[c] >= 2 /\ chain[c][2].ref = e)
          /\ ~EdgeDone(cut, p, k)
      BY <1>7 DEF EdgeOk, EdgeDone, Answer
    <2> QED
      BY <1>4, <2>1, <2>3, <2>4
  <1>8. CASE \E i \in Nat : Answer(i)
    <2>1. PICK i \in Nat : Answer(i)
      BY <1>8
    <2>2. ResultOf(cut, e) = {i} /\ \A j \in Nat : Answer(j) => j = i
      BY <1>5, <1>6, <2>1
    <2>3. (CHOOSE j \in ResultOf(cut, e) : \A l \in ResultOf(cut, e) : j <= l) = i
      BY <2>2
    <2>4. Completion(cut, e) = IF ~Ends(cut, c) THEN "result_unresolved"
                               ELSE IF Told(cut, p, i, c) THEN "result_bound" ELSE "result_mismatch"
      <3>1. Completion(cut, e) =
               IF ~Closed(cut, c) THEN "result_unresolved"
               ELSE IF /\ chain[p][i].ref = <<c, cut[c]>>
                       /\ chain[p][i].disposition = chain[c][cut[c]].disposition
                    THEN "result_bound" ELSE "result_mismatch"
        BY <1>2, <2>2, <2>3 DEF Completion
      <3>2. Ends(cut, c) => cut[c] = Size(c)
        BY DEF Ends
      <3>3. CASE Told(cut, p, i, c)
        <4>1. /\ Closed(cut, c) /\ chain[p][i].ref = <<c, cut[c]>>
              /\ chain[p][i].disposition = chain[c][cut[c]].disposition
          BY <1>3, <3>2, <3>3 DEF Told
        <4> QED
          BY <1>3, <3>1, <3>3, <4>1
      <3>4. CASE Ends(cut, c) /\ ~Told(cut, p, i, c)
        <4>1. /\ Closed(cut, c)
              /\ ~ /\ chain[p][i].ref = <<c, cut[c]>>
                   /\ chain[p][i].disposition = chain[c][cut[c]].disposition
          BY <1>3, <3>2, <3>4 DEF Told
        <4> QED
          BY <3>1, <3>4, <4>1
      <3>5. CASE ~Ends(cut, c)
        <4>1. ~Closed(cut, c)
          BY <1>3, <3>5
        <4>2. Completion(cut, e) = "result_unresolved"
          BY <3>1, <4>1
        <4> QED
          BY <3>5, <4>2
      <3>6. Told(cut, p, i, c) => Ends(cut, c)
        BY DEF Told
      <3> QED
        BY <3>3, <3>4, <3>5, <3>6
    <2>5. (Ends(cut, c) => cut[c] # 0) /\ (Told(cut, p, i, c) => Ends(cut, c))
      BY <1>3 DEF Ends, Is, Told
    <2>6. EdgeSound(cut, e) <=> Binding(cut, e) # "unbound" /\ Told(cut, p, i, c)
      BY <1>2, <1>4, <2>4, <2>5 DEF EdgeSound, Withheld
    <2>7. /\ EdgeOk(cut, p, k) <=> /\ cut[c] = 0 \/ (cut[c] >= 2 /\ chain[c][2].ref = e)
                                   /\ Told(cut, p, i, c)
          /\ EdgeDone(cut, p, k) <=> /\ cut[c] >= 2 /\ chain[c][2].ref = e
                                     /\ Told(cut, p, i, c)
      BY <2>1, <2>2 DEF EdgeOk, EdgeDone, Answer
    <2> QED
      BY <1>4, <2>4, <2>5, <2>6, <2>7
  <1> QED
    BY <1>7, <1>8

-----------------------------------------------------------------------------
(* The levels of a tree, and lines of descent.                               *)

Wider(cut, X) ==
    X \cup {c \in Supplied(cut) : \E p \in X : Declares(cut, p, c) \/ Binds(cut, c, p)}

IsLevel(cut, root, level) ==
    level = [n \in 0..MaxDepth+1 |->
                IF n = 0 THEN {root}
                ELSE level[n-1] \cup
                     {c \in Supplied(cut) : \E p \in level[n-1] : Declares(cut, p, c) \/ Binds(cut, c, p)}]

LEMMA LevelsAre ==
    ASSUME NEW cut, NEW root \in Runs
    PROVE  LET L == Reached(cut, root)
           IN  /\ L[0] = {root}
               /\ \A n \in 0..MaxDepth : L[n + 1] = Wider(cut, L[n])
               /\ \A n \in 0..MaxDepth+1 : L[n] \subseteq Runs
  <1> DEFINE N == MaxDepth + 1
             step == [X \in SUBSET Runs |-> Wider(cut, X)]
             L == CHOOSE level : IsLevel(cut, root, level)
  <1>1. Reached(cut, root) = L
    BY DEF Reached, IsLevel
  <1>2. N \in Nat /\ {root} \in SUBSET Runs
    BY TreeAssumption
  <1>3. step \in [SUBSET Runs -> SUBSET Runs]
    BY DEF Wider, Supplied
  <1>4. PICK f \in [0..N -> SUBSET Runs] : Iterates(step, {root}, N, f)
    BY <1>2, <1>3, Iterated
  <1>5. f[0] = {root} /\ \A n \in 1..N : n - 1 \in 0..N /\ f[n] = Wider(cut, f[n - 1])
    <2>1. f[0] = {root} /\ \A n \in 1..N : f[n] = step[f[n - 1]]
      BY <1>4 DEF Iterates
    <2>2. ASSUME NEW n \in 1..N
          PROVE  n - 1 \in 0..N /\ f[n] = Wider(cut, f[n - 1])
      <3>1. n - 1 \in 0..N
        BY <1>2
      <3>2. PICK X \in SUBSET Runs : X = f[n - 1]
        BY <3>1
      <3>3. step[X] = Wider(cut, X)
        OBVIOUS
      <3> QED
        BY <2>1, <3>1, <3>2, <3>3
    <2> QED
      BY <2>1, <2>2
  <1>6. IsLevel(cut, root, f)
    <2>1. \A n \in 0..N : n # 0 => n \in 1..N
      BY <1>2
    <2>2. \A n \in 0..N : f[n] = IF n = 0 THEN {root} ELSE Wider(cut, f[n - 1])
      BY <1>5, <2>1
    <2>3. f = [n \in 0..N |-> f[n]]
      OBVIOUS
    <2> QED
      BY <2>2, <2>3 DEF IsLevel, Wider
  <1>7. IsLevel(cut, root, L)
    BY <1>6
  <1> HIDE DEF L, step
  <1>8. \A n \in 0..N : L[n] = IF n = 0 THEN {root} ELSE Wider(cut, L[n - 1])
    BY <1>7 DEF IsLevel, Wider
  <1>9. L[0] = {root}
    BY <1>2, <1>8
  <1>10. ASSUME NEW n \in 0..MaxDepth
         PROVE  L[n + 1] = Wider(cut, L[n])
    <2>1. n + 1 \in 0..N /\ n + 1 # 0 /\ n + 1 - 1 = n
      BY TreeAssumption
    <2>2. PICK m \in 0..N : m = n + 1 /\ m # 0 /\ m - 1 = n
      BY <2>1
    <2>3. L[m] = Wider(cut, L[m - 1])
      BY <1>8, <2>2
    <2> QED
      BY <2>2, <2>3
  <1> DEFINE T == {n \in 0..N : L[n] \subseteq Runs}
  <1>11. 0 \in T
    BY <1>2, <1>9
  <1>12. ASSUME NEW n \in 0..(N - 1), n \in T
         PROVE  n + 1 \in T
    <2>1. n \in 0..MaxDepth /\ n + 1 \in 0..N
      BY TreeAssumption
    <2>2. Wider(cut, L[n]) \subseteq Runs
      BY <1>12 DEF Wider, Supplied
    <2> QED
      BY <1>10, <2>1, <2>2
  <1>13. 0..N \subseteq T
    BY <1>2, <1>11, <1>12, UpTo
  <1> QED
    BY <1>1, <1>9, <1>10, <1>13

\* A run enters a level as the child of one in the level before.
LEMMA Entered ==
    ASSUME NEW cut, NEW root \in Runs, NEW n \in 0..MaxDepth+1,
           NEW c \in Reached(cut, root)[n], c # root
    PROVE  \E m \in 0..(n - 1) : \E p \in Reached(cut, root)[m] :
              Declares(cut, p, c) \/ Binds(cut, c, p)
  <1> DEFINE L == Reached(cut, root)
             T == {m \in 0..n : c \in L[m]}
  <1>1. PICK m \in T : \A k \in T : m <= k
    <2>1. n \in T /\ T \in SUBSET Nat
      BY TreeAssumption
    <2> QED
      BY <2>1, LeastOf
  <1>2. m # 0
    BY LevelsAre
  <1>3. m - 1 \in 0..MaxDepth /\ m - 1 \in 0..(n - 1) /\ m - 1 \in 0..n /\ m - 1 + 1 = m
    BY <1>2, TreeAssumption
  <1>4. c \notin L[m - 1]
    BY <1>1, <1>3
  <1>5. PICK k \in 0..MaxDepth : k = m - 1 /\ k + 1 = m
    BY <1>3
  <1>6. c \in Wider(cut, L[k])
    BY <1>5, LevelsAre
  <1>7. \E p \in L[k] : Declares(cut, p, c) \/ Binds(cut, c, p)
    BY <1>4, <1>5, <1>6 DEF Wider
  <1> QED
    BY <1>3, <1>5, <1>7

\* Levels only widen.
LEMMA LevelsWiden ==
    ASSUME NEW cut, NEW root \in Runs, NEW m \in 0..MaxDepth+1, NEW n \in m..MaxDepth+1
    PROVE  Reached(cut, root)[m] \subseteq Reached(cut, root)[n]
  <1> DEFINE L == Reached(cut, root)
             d == n - m
             T == {k \in 0..d : L[m] \subseteq L[m + k]}
  <1>1. d \in Nat /\ m \in Nat /\ n = m + d
    BY TreeAssumption
  <1> HIDE DEF d
  <1>2. 0 \in T
    BY <1>1
  <1>3. ASSUME NEW k \in 0..(d - 1), k \in T
        PROVE  k + 1 \in T
    <2>1. m + k \in 0..MaxDepth /\ k + 1 \in 0..d /\ m + k + 1 = m + (k + 1)
      BY <1>1, TreeAssumption
    <2>2. PICK j \in 0..MaxDepth : j = m + k
      BY <2>1
    <2>3. L[j + 1] = Wider(cut, L[j])
      BY LevelsAre
    <2>4. L[m] \subseteq L[j + 1]
      BY <1>3, <2>2, <2>3 DEF Wider
    <2>5. j + 1 = m + (k + 1)
      BY <2>1, <2>2
    <2> QED
      BY <2>1, <2>4, <2>5
  <1> HIDE DEF T
  <1>4. d \in T
    <2>1. 0..d \subseteq T
      BY <1>1, <1>2, <1>3, UpTo
    <2> QED
      BY <1>1, <2>1
  <1> QED
    BY <1>1, <1>4 DEF T

\* n children, each started by the one before it.
Line(cut, n, line) ==
    /\ line \in [1..n+1 -> Supplied(cut)]
    /\ \A i \in 1..n : line[i+1] \in Children /\ Parent(line[i+1]) = line[i]

NoLongLine(cut) == ~ \E line : Line(cut, MaxDepth + 1, line)

\* A run beyond the levels ends a line that is too long.
LEMMA BeyondLevels ==
    ASSUME NEW cut, NEW root \in Runs,
           \A c \in Supplied(cut) : c # root =>
              c \in Children /\ Parent(c) \in Supplied(cut) /\ Binds(cut, c, Parent(c)),
           NEW c \in Supplied(cut), c \notin Reached(cut, root)[MaxDepth]
    PROVE  \E line : Line(cut, MaxDepth + 1, line)
  <1> DEFINE L == Reached(cut, root)
             LineTo(n) == \A x \in Supplied(cut) : x \notin L[n] =>
                             \E line : Line(cut, n + 1, line) /\ line[n + 2] = x
             T == {n \in 0..MaxDepth : LineTo(n)}
  <1>1. MaxDepth \in Nat /\ L[0] = {root}
    BY LevelsAre, TreeAssumption
  <1>2. 0 \in T
    <2> SUFFICES ASSUME NEW x \in Supplied(cut), x \notin L[0]
                 PROVE  \E line : Line(cut, 0 + 1, line) /\ line[0 + 2] = x
      BY <1>1
    <2>1. x \in Children /\ Parent(x) \in Supplied(cut)
      BY <1>1
    <2> DEFINE line == [i \in 1..2 |-> IF i = 1 THEN Parent(x) ELSE x]
    <2>2. line[1] = Parent(x) /\ line[2] = x /\ line \in [1..2 -> Supplied(cut)]
      BY <2>1
    <2> HIDE DEF line
    <2>3. Line(cut, 1, line)
      <3>1. line \in [1..1+1 -> Supplied(cut)]
        BY <2>2
      <3>2. \A i \in 1..1 : i = 1 /\ i + 1 = 2
        OBVIOUS
      <3> QED
        BY <2>1, <2>2, <3>1, <3>2 DEF Line
    <2> QED
      BY <2>2, <2>3
  <1>3. ASSUME NEW n \in 0..(MaxDepth - 1), n \in T
        PROVE  n + 1 \in T
    <2>1. n \in 0..MaxDepth /\ n + 1 \in 0..MaxDepth /\ n \in Nat
      BY <1>1
    <2> SUFFICES ASSUME NEW x \in Supplied(cut), x \notin L[n + 1]
                 PROVE  \E line : Line(cut, n + 1 + 1, line) /\ line[n + 1 + 2] = x
      BY <2>1
    <2>2. L[n + 1] = Wider(cut, L[n]) /\ root \in L[n + 1]
      <3>1. 0 \in 0..MaxDepth+1 /\ n + 1 \in 0..MaxDepth+1
        BY <1>1, <2>1
      <3>2. L[0] \subseteq L[n + 1]
        BY <3>1, LevelsWiden
      <3> QED
        BY <1>1, <2>1, <3>2, LevelsAre
    <2>3. x \in Children /\ Parent(x) \in Supplied(cut) /\ Binds(cut, x, Parent(x))
      BY <2>2
    <2>4. Parent(x) \notin L[n]
      BY <2>2, <2>3 DEF Wider
    <2>5. PICK before : Line(cut, n + 1, before) /\ before[n + 2] = Parent(x)
      BY <1>3, <2>3, <2>4
    <2> DEFINE line == [i \in 1..n+3 |-> IF i = n + 3 THEN x ELSE before[i]]
    <2>6. before \in [1..n+2 -> Supplied(cut)]
      <3>1. n + 1 + 1 = n + 2
        BY <2>1
      <3> QED
        BY <2>5, <3>1 DEF Line
    <2>7. line \in [1..n+3 -> Supplied(cut)] /\ line[n + 3] = x /\ \A i \in 1..n+2 : line[i] = before[i]
      BY <2>1, <2>6
    <2> HIDE DEF line
    <2>8. ASSUME NEW i \in 1..n+2
          PROVE  line[i + 1] \in Children /\ Parent(line[i + 1]) = line[i]
      <3>1. CASE i = n + 2
        BY <2>1, <2>3, <2>5, <2>7, <3>1
      <3>2. CASE i # n + 2
        <4>1. i \in 1..n+1 /\ i \in 1..n+2 /\ i + 1 \in 1..n+2
          BY <2>1, <3>2
        <4>2. before[i + 1] \in Children /\ Parent(before[i + 1]) = before[i]
          BY <2>5, <4>1 DEF Line
        <4> QED
          BY <2>7, <4>1, <4>2
      <3> QED
        BY <3>1, <3>2
    <2>9. Line(cut, n + 2, line)
      <3>1. n + 2 + 1 = n + 3
        BY <2>1
      <3> QED
        BY <2>7, <2>8, <3>1 DEF Line
    <2>10. n + 1 + 1 = n + 2 /\ n + 1 + 2 = n + 3
      BY <2>1
    <2> QED
      BY <2>7, <2>9, <2>10
  <1> HIDE DEF T
  <1>4. MaxDepth \in T
    <2>1. 0..MaxDepth \subseteq T
      BY <1>1, <1>2, <1>3, UpTo
    <2> QED
      BY <1>1, <2>1
  <1> QED
    BY <1>4 DEF T

\* When all runs are within the levels, and a run has no other parent than the
\* one that started it, no line is too long.
LEMMA LinesAreShort ==
    ASSUME NEW cut, NEW root \in Runs, root \notin Children,
           Supplied(cut) \subseteq Reached(cut, root)[MaxDepth],
           \A c \in Supplied(cut) \cap Children, p \in Runs :
              Declares(cut, p, c) \/ Binds(cut, c, p) => p = Parent(c)
    PROVE  NoLongLine(cut)
  <1> SUFFICES ASSUME NEW line, Line(cut, MaxDepth + 1, line)
               PROVE  FALSE
    BY DEF NoLongLine
  <1> DEFINE L == Reached(cut, root)
             M == MaxDepth
             T == {j \in 0..M : line[M + 2 - j] \in L[M - j]}
  <1>1. M \in Nat /\ L[0] = {root}
    BY LevelsAre, TreeAssumption
  <1>2. line \in [1..M+2 -> Supplied(cut)]
    <2>1. M + 1 + 1 = M + 2
      BY <1>1
    <2> QED
      BY <2>1 DEF Line
  <1>3. 0 \in T
    <2>1. M + 2 - 0 \in 1..M+2 /\ M - 0 = M
      BY <1>1
    <2> QED
      BY <1>1, <1>2, <2>1
  <1>4. ASSUME NEW j \in 0..(M - 1), j \in T
        PROVE  j + 1 \in T
    <2>1. /\ M + 1 - j \in 1..M+1 /\ M + 1 - j + 1 = M + 2 - j /\ j + 1 \in 0..M
          /\ M + 2 - (j + 1) = M + 1 - j /\ M - j \in 1..M /\ M - (j + 1) = M - j - 1
          /\ M + 2 - j \in 1..M+2 /\ M + 1 - j \in 1..M+2
      BY <1>1
    <2>2. PICK i \in 1..M+1 : i = M + 1 - j /\ i + 1 = M + 2 - j
      BY <2>1
    <2>3. PICK n \in 1..M : n = M - j
      BY <2>1
    <2> DEFINE c == line[i + 1]
    <2>4. c \in Children /\ Parent(c) = line[i] /\ c \in Supplied(cut) /\ c \in L[n]
      BY <1>2, <1>4, <2>1, <2>2, <2>3 DEF Line
    <2> HIDE DEF c
    <2>5. n \in 0..MaxDepth+1
      BY <1>1
    <2>6. PICK m \in 0..(n - 1) : \E p \in L[m] : Declares(cut, p, c) \/ Binds(cut, c, p)
      BY <2>4, <2>5, Entered
    <2>7. m \in 0..MaxDepth+1 /\ n - 1 \in m..MaxDepth+1 /\ n - 1 \in 0..MaxDepth+1
      BY <1>1
    <2>8. L[m] \subseteq Runs /\ L[m] \subseteq L[n - 1]
      BY <2>7, LevelsAre, LevelsWiden
    <2>9. Parent(c) \in L[n - 1]
      BY <2>4, <2>6, <2>8
    <2> QED
      BY <2>1, <2>2, <2>3, <2>4, <2>9
  <1> HIDE DEF T
  <1>5. M \in T
    <2>1. 0..M \subseteq T
      BY <1>1, <1>3, <1>4, UpTo
    <2> QED
      BY <1>1, <2>1
  <1>6. M + 2 - M = 2 /\ M - M = 0 /\ 1 \in 1..M+1 /\ 1 + 1 = 2
    BY <1>1
  <1>7. line[2] \in {root}
    BY <1>1, <1>5, <1>6 DEF T
  <1>8. line[2] \in Children
    BY <1>6 DEF Line
  <1> QED
    BY <1>7, <1>8

-----------------------------------------------------------------------------
(* What a consistent cut is, part by part.                                   *)

OneRoot(cut) == \E root \in Runs : Supplied(cut) \cap Roots = {root}

StartsThere(cut) == \A r \in Supplied(cut) : cut[r] >= 2

OneDelegation(cut) ==
    \A p, q \in Runs, j, k \in Nat :
        Has(cut, p, j, "delegation") /\ Has(cut, q, k, "delegation")
        /\ chain[p][j].about = chain[q][k].about => p = q

ParentsThere(cut) ==
    \A c \in Supplied(cut) \cap Children :
        \E p \in Runs, k \in Nat : chain[c][2].ref = <<p, k>> /\ Has(cut, p, k, "delegation")

EndsThere(cut) ==
    \A p \in Runs, k \in Nat :
        Has(cut, p, k, "delegation_result") => Told(cut, p, k, chain[p][k].about)

Small(cut) == Cardinality(Supplied(cut)) <= MaxRuns /\ Cardinality(EventsOf(cut)) <= MaxTreeArtifacts

Joined(cut) ==
    /\ OneRoot(cut) /\ StartsThere(cut) /\ OneDelegation(cut) /\ ParentsThere(cut)
    /\ EndsThere(cut) /\ NoLongLine(cut) /\ Small(cut)

LEMMA RunsFinite ==
    IsFiniteSet(Runs) /\ \A cut : IsFiniteSet(Supplied(cut))
  <1>1. IsFiniteSet(Runs)
    BY TreeAssumption, FS_Union DEF Runs
  <1>2. \A cut : Supplied(cut) \subseteq Runs
    BY DEF Supplied
  <1> QED
    BY <1>1, <1>2, FS_Subset

\* The lengths of the runs have a bound.
LEMMA SizesBounded ==
    ASSUME TreeInv
    PROVE  \E b \in Nat : \A r \in Runs : Size(r) <= b
  <1> DEFINE sizes == {Size(r) : r \in Runs}
             f == [r \in Runs |-> Size(r)]
  <1>1. \A r \in Runs : Size(r) \in Nat
    BY DEF TreeInv, Typed, Size
  <1>2. f \in Surjection(Runs, sizes)
    <2>1. f \in [Runs -> sizes] /\ \A s \in sizes : \E r \in Runs : f[r] = s
      OBVIOUS
    <2> QED
      BY <2>1, Zenon DEF Surjection
  <1>3. IsFiniteSet(sizes)
    BY <1>2, RunsFinite, FS_Surjection
  <1>4. sizes \in SUBSET Nat
    BY <1>1
  <1>5. PICK b \in Nat : \A s \in sizes : s <= b
    BY <1>3, <1>4, FiniteIsBounded
  <1> QED
    BY <1>5

LEMMA EventsAre ==
    ASSUME TreeInv, NEW cut, IsCut(cut)
    PROVE  /\ IsFiniteSet(EventsOf(cut))
           /\ \A e : e \in EventsOf(cut) <=> \E p \in Runs : \E k \in 2..cut[p] : e = <<p, k>>
           /\ \A p \in Runs, k \in Nat :
                 Has(cut, p, k, "delegation") \/ Has(cut, p, k, "delegation_result")
                 => <<p, k>> \in EventsOf(cut)
  <1>1. \A e : e \in EventsOf(cut) <=> \E p \in Runs : \E k \in 2..cut[p] : e = <<p, k>>
    <2>1. ASSUME NEW e \in EventsOf(cut)
          PROVE  \E p \in Runs : \E k \in 2..cut[p] : e = <<p, k>>
      <3>1. PICK p \in Runs : e \in {p} \X (2..cut[p])
        BY DEF EventsOf
      <3> QED
        BY <3>1
    <2>2. ASSUME NEW p \in Runs, NEW k \in 2..cut[p]
          PROVE  <<p, k>> \in EventsOf(cut)
      <3>1. <<p, k>> \in {p} \X (2..cut[p])
        OBVIOUS
      <3> QED
        BY <3>1 DEF EventsOf
    <2> QED
      BY <2>1, <2>2
  <1>2. ASSUME NEW p \in Runs, NEW k \in Nat,
               Has(cut, p, k, "delegation") \/ Has(cut, p, k, "delegation_result")
        PROVE  k \in 2..cut[p]
    <2>1. k \in 1..Size(p) /\ k <= cut[p] /\ chain[p][k].type # "control"
      BY <1>2 DEF Has, Is
    <2>2. k # 1 /\ cut[p] \in Nat
      BY <2>1, Reading DEF TreeInv, Ordered
    <2> QED
      BY <2>1, <2>2
  <1>3. IsFiniteSet(EventsOf(cut))
    <2>1. PICK b \in Nat : \A r \in Runs : Size(r) <= b
      BY SizesBounded
    <2>2. EventsOf(cut) \subseteq Runs \X (0..b)
      <3>1. ASSUME NEW p \in Runs, NEW k \in 2..cut[p]
            PROVE  k \in 0..b
        <4>1. cut[p] \in Nat /\ cut[p] <= Size(p) /\ Size(p) \in Nat /\ Size(p) <= b
          BY <2>1, Reading
        <4> QED
          BY <4>1
      <3>2. \A p \in Runs : \A k \in 2..cut[p] : <<p, k>> \in Runs \X (0..b)
        BY <3>1
      <3> QED
        BY <1>1, <3>2
    <2>3. IsFiniteSet(0..b)
      <3>1. 0 \in Int /\ b \in Int
        OBVIOUS
      <3> QED
        BY <3>1, FS_Interval
    <2>4. IsFiniteSet(Runs \X (0..b))
      BY <2>3, RunsFinite, FS_Product
    <2> QED
      BY <2>2, <2>4, FS_Subset
  <1> QED
    BY <1>1, <1>2, <1>3

LEMMA DelegationsAre ==
    ASSUME TreeInv, NEW cut, IsCut(cut), NEW c
    PROVE  /\ IsFiniteSet(DelegationsTo(cut, c))
           /\ \A e : e \in DelegationsTo(cut, c) <=>
                 \E p \in Runs, k \in Nat :
                    e = <<p, k>> /\ Has(cut, p, k, "delegation") /\ chain[p][k].about = c
  <1>1. IsFiniteSet(DelegationsTo(cut, c))
    <2>1. DelegationsTo(cut, c) \subseteq EventsOf(cut)
      BY DEF DelegationsTo
    <2> QED
      BY <2>1, EventsAre, FS_Subset
  <1>2. ASSUME NEW e \in DelegationsTo(cut, c)
        PROVE  \E p \in Runs, k \in Nat :
                  e = <<p, k>> /\ Has(cut, p, k, "delegation") /\ chain[p][k].about = c
    <2>1. e \in EventsOf(cut) /\ chain[e[1]][e[2]].type = "delegation" /\ chain[e[1]][e[2]].about = c
      BY DEF DelegationsTo
    <2>2. PICK p \in Runs : \E k \in 2..cut[p] : e = <<p, k>>
      BY <2>1, EventsAre
    <2>3. PICK k \in 2..cut[p] : e = <<p, k>>
      BY <2>2
    <2>4. e[1] = p /\ e[2] = k
      BY <2>3
    <2>5. cut[p] \in Nat /\ Size(p) \in Nat /\ cut[p] <= Size(p)
      BY Reading
    <2>6. k \in Nat /\ k \in 1..Size(p) /\ k <= cut[p]
      BY <2>5
    <2> QED
      BY <2>1, <2>4, <2>6, <2>3 DEF Has, Is
  <1>3. ASSUME NEW p \in Runs, NEW k \in Nat, Has(cut, p, k, "delegation"), chain[p][k].about = c
        PROVE  <<p, k>> \in DelegationsTo(cut, c)
    <2>1. <<p, k>> \in EventsOf(cut)
      BY <1>3, EventsAre
    <2>2. <<p, k>>[1] = p /\ <<p, k>>[2] = k
      OBVIOUS
    <2> QED
      BY <1>3, <2>1, <2>2 DEF DelegationsTo, Has, Is
  <1> QED
    BY <1>1, <1>2, <1>3

\* What a result says of its child, and what is there of the child.
LEMMA ResultIs ==
    ASSUME TreeInv, NEW cut, IsCut(cut), NEW p \in Runs, NEW k \in Nat,
           Is(p, k, "delegation_result")
    PROVE  Answers(cut, p, k) <=> Told(cut, p, k, chain[p][k].about)
  <1> DEFINE c == chain[p][k].about
  <1>1. c \in Children /\ c \in Runs
    BY DEF TreeInv, Answered, Runs
  <1>2. Closed(cut, c) <=> Ends(cut, c)
    BY <1>1, Reading
  <1> HIDE DEF c
  <1>3. cut[c] = Size(c) => (Closed(cut, c) <=> Ended(c))
    BY DEF Closed, Ended
  <1>4. Ends(cut, c) => cut[c] = Size(c)
    BY DEF Ends
  <1>5. Answers(cut, p, k) <=> /\ cut[c] = Size(c) /\ Ended(c)
                               /\ chain[p][k].ref = <<c, Size(c)>>
                               /\ chain[p][k].disposition = chain[c][Size(c)].disposition
    BY Zenon DEF Answers, RunEnd, c
  <1>6. Told(cut, p, k, c) <=> /\ Ends(cut, c)
                               /\ chain[p][k].ref = <<c, Size(c)>>
                               /\ chain[p][k].disposition = chain[c][Size(c)].disposition
    BY DEF Told
  <1>7. Answers(cut, p, k) <=> Told(cut, p, k, c)
    BY <1>2, <1>3, <1>4, <1>5, <1>6
  <1> QED
    BY <1>7 DEF c

\* The limits, which no verdict is needed to tell.
LEMMA TooLargeIs ==
    ASSUME TreeInv, NEW cut, IsCut(cut)
    PROVE  TooLarge(cut) <=> ~(NoLongLine(cut) /\ Small(cut))
  <1>1. NoLongLine(cut) <=>
           ~ \E line \in [1..MaxDepth+2 -> Supplied(cut)] :
                \A i \in 1..MaxDepth+1 : line[i+1] \in Children /\ chain[line[i+1]][2].about = line[i]
    <2>1. MaxDepth + 1 + 1 = MaxDepth + 2
      BY TreeAssumption
    <2> QED
      BY <2>1 DEF NoLongLine, Line, Parent
  <1> DEFINE S == {r \in Runs : cut[r] > 0}
             runs == Cardinality(S)
             events == Cardinality(EventsOf(cut))
             Lined == \E line \in [1..MaxDepth+2 -> S] :
                         \A i \in 1..MaxDepth+1 :
                            line[i+1] \in Children /\ chain[line[i+1]][2].about = line[i]
  <1>2. TooLarge(cut) <=> ~(runs <= MaxRuns) \/ ~(events <= MaxTreeArtifacts) \/ Lined
    <2>1. TooLarge(cut) <=> runs > MaxRuns \/ events > MaxTreeArtifacts \/ Lined
      BY Zenon DEF TooLarge
    <2>2. runs \in Nat /\ events \in Nat
      <3>1. S = Supplied(cut)
        BY DEF Supplied
      <3> QED
        BY <3>1, RunsFinite, EventsAre, FS_CardinalityType
    <2> QED
      BY <2>1, <2>2, TreeAssumption
  <1>3. S = Supplied(cut)
    BY DEF Supplied
  <1> QED
    BY <1>1, <1>2, <1>3 DEF Small

\* Consistent, part by part.
LEMMA ConsistentParts ==
    ASSUME TreeInv, NEW cut, IsCut(cut)
    PROVE  Consistent(cut) <=>
              /\ Cardinality(Supplied(cut) \cap Roots) = 1
              /\ StartsThere(cut)
              /\ \A c \in Children : Cardinality(DelegationsTo(cut, c)) <= 1
              /\ \A c \in Supplied(cut) \cap Children : chain[c][2].ref \in DelegationsTo(cut, c)
              /\ \A p \in Supplied(cut) : \A k \in Results(cut, p) : Answers(cut, p, k)
              /\ ~TooLarge(cut)
  <1> DEFINE S == {r \in Runs : cut[r] > 0}
  <1>1. Consistent(cut) <=>
              /\ Cardinality(S \cap Roots) = 1
              /\ \A r \in S : cut[r] >= 2
              /\ \A c \in Children : Cardinality(DelegationsTo(cut, c)) <= 1
              /\ \A c \in S \cap Children : chain[c][2].ref \in DelegationsTo(cut, c)
              /\ \A p \in S : \A k \in Places(p, cut[p], "delegation_result") : Answers(cut, p, k)
              /\ ~TooLarge(cut)
    BY Zenon DEF Consistent
  <1>2. S = Supplied(cut)
    BY Zenon DEF Supplied
  <1> HIDE DEF S
  <1> QED
    BY <1>1, <1>2, Zenon DEF StartsThere, Results

\* No child has two delegations: counted, or run by run.
LEMMA DelegatedOnce ==
    ASSUME TreeInv, NEW cut, IsCut(cut)
    PROVE  (\A c \in Children : Cardinality(DelegationsTo(cut, c)) <= 1) <=> OneDelegation(cut)
  <1>1. \A c : Cardinality(DelegationsTo(cut, c)) <= 1 <=> \A x, y \in DelegationsTo(cut, c) : x = y
    BY DelegationsAre, AtMostOne
  <1>2. ASSUME \A c \in Children : Cardinality(DelegationsTo(cut, c)) <= 1,
               NEW p \in Runs, NEW q \in Runs, NEW j \in Nat, NEW k \in Nat,
               Has(cut, p, j, "delegation"), Has(cut, q, k, "delegation"),
               chain[p][j].about = chain[q][k].about
        PROVE  p = q
    <2>1. PICK c : c = chain[p][j].about
      OBVIOUS
    <2>2. c \in Children
      BY <1>2, <2>1 DEF Has, TreeInv, Delegated
    <2>3. <<p, j>> \in DelegationsTo(cut, c) /\ <<q, k>> \in DelegationsTo(cut, c)
      BY <1>2, <2>1, DelegationsAre
    <2>4. <<p, j>> = <<q, k>>
      BY <1>1, <1>2, <2>2, <2>3
    <2> QED
      BY <2>4
  <1>3. ASSUME OneDelegation(cut), NEW c \in Children,
               NEW x \in DelegationsTo(cut, c), NEW y \in DelegationsTo(cut, c)
        PROVE  x = y
    <2>1. PICK p \in Runs, j \in Nat :
             x = <<p, j>> /\ Has(cut, p, j, "delegation") /\ chain[p][j].about = c
      BY DelegationsAre
    <2>2. PICK q \in Runs, k \in Nat :
             y = <<q, k>> /\ Has(cut, q, k, "delegation") /\ chain[q][k].about = c
      BY DelegationsAre
    <2>3. p = q
      BY <1>3, <2>1, <2>2 DEF OneDelegation
    <2>4. j = k
      BY <2>1, <2>2, <2>3 DEF Has, TreeInv, Delegated
    <2> QED
      BY <2>1, <2>2, <2>3, <2>4
  <1>4. (\A c \in Children : Cardinality(DelegationsTo(cut, c)) <= 1) => OneDelegation(cut)
    BY <1>2 DEF OneDelegation
  <1>5. OneDelegation(cut) => \A c \in Children : Cardinality(DelegationsTo(cut, c)) <= 1
    BY <1>1, <1>3
  <1> QED
    BY <1>4, <1>5

LEMMA ConsistentIs ==
    ASSUME TreeInv, NEW cut, IsCut(cut)
    PROVE  Consistent(cut) <=> Joined(cut)
  <1>1. Cardinality(Supplied(cut) \cap Roots) = 1 <=> OneRoot(cut)
    <2>1. IsFiniteSet(Supplied(cut) \cap Roots)
      BY RunsFinite, FS_Subset
    <2>2. \A root \in Supplied(cut) \cap Roots : root \in Runs
      BY DEF Runs
    <2> QED
      BY <2>1, <2>2, ExactlyOne DEF OneRoot
  <1>2. (\A c \in Children : Cardinality(DelegationsTo(cut, c)) <= 1) <=> OneDelegation(cut)
    BY DelegatedOnce
  <1>3. (\A c \in Supplied(cut) \cap Children : chain[c][2].ref \in DelegationsTo(cut, c))
           /\ StartsThere(cut)
        <=> ParentsThere(cut) /\ StartsThere(cut)
    <2>1. ASSUME StartsThere(cut), NEW c \in Supplied(cut) \cap Children
          PROVE  chain[c][2].ref \in DelegationsTo(cut, c) <=>
                 \E p \in Runs, k \in Nat : chain[c][2].ref = <<p, k>> /\ Has(cut, p, k, "delegation")
      <3>1. chain[c][2].ref \in DelegationsTo(cut, c) =>
            \E p \in Runs, k \in Nat : chain[c][2].ref = <<p, k>> /\ Has(cut, p, k, "delegation")
        BY DelegationsAre
      <3>2. ASSUME NEW p \in Runs, NEW k \in Nat,
                   chain[c][2].ref = <<p, k>>, Has(cut, p, k, "delegation")
            PROVE  chain[c][2].ref \in DelegationsTo(cut, c)
        <4>1. c \in Runs /\ c \in Children /\ cut[c] >= 2
          BY <2>1 DEF StartsThere, Runs
        <4>2. PICK q \in Runs, j \in Nat : StartedAt(c, q, j)
          <5>1. IsChild(cut, c)
            BY <4>1, ReadingStarts
          <5> QED
            BY <4>1, <5>1, ReadingStarts
        <4>3. q = p /\ j = k /\ chain[p][k].about = c
          BY <3>2, <4>2 DEF StartedAt
        <4> QED
          BY <3>2, <4>3, DelegationsAre
      <3> QED
        BY <3>1, <3>2
    <2> QED
      BY <2>1 DEF ParentsThere
  <1>4. (\A p \in Supplied(cut) : \A k \in Results(cut, p) : Answers(cut, p, k)) <=> EndsThere(cut)
    <2>1. \A p \in Runs : \A k : k \in Results(cut, p) <=> k \in Nat /\ Has(cut, p, k, "delegation_result")
      BY Reading DEF Results
    <2>2. ASSUME NEW p \in Runs, NEW k \in Nat, Has(cut, p, k, "delegation_result")
          PROVE  /\ p \in Supplied(cut)
                 /\ Answers(cut, p, k) <=> Told(cut, p, k, chain[p][k].about)
      <3>1. k >= 1 /\ k <= cut[p] /\ cut[p] \in Nat /\ Is(p, k, "delegation_result")
        BY <2>2, Reading DEF Has, Is
      <3> QED
        BY <3>1, Reading, ResultIs
    <2>3. Supplied(cut) \subseteq Runs
      BY DEF Supplied
    <2>4. EndsThere(cut) <=> \A p \in Runs, k \in Nat :
             Has(cut, p, k, "delegation_result") => Answers(cut, p, k)
      BY <2>2 DEF EndsThere
    <2> QED
      BY <2>1, <2>2, <2>3, <2>4
  <1>5. Consistent(cut) <=>
              /\ Cardinality(Supplied(cut) \cap Roots) = 1
              /\ StartsThere(cut)
              /\ \A c \in Children : Cardinality(DelegationsTo(cut, c)) <= 1
              /\ \A c \in Supplied(cut) \cap Children : chain[c][2].ref \in DelegationsTo(cut, c)
              /\ \A p \in Supplied(cut) : \A k \in Results(cut, p) : Answers(cut, p, k)
              /\ ~TooLarge(cut)
    BY ConsistentParts
  <1>6. ~TooLarge(cut) <=> NoLongLine(cut) /\ Small(cut)
    BY TooLargeIs
  <1> QED
    BY <1>1, <1>2, <1>3, <1>4, <1>5, <1>6 DEF Joined

-----------------------------------------------------------------------------
(* The verdict, part by part.                                                *)

EdgesOk(cut) ==
    \A p \in Runs, k \in Nat : Has(cut, p, k, "delegation") => EdgeOk(cut, p, k)

EdgesDone(cut) ==
    \A p \in Runs, k \in Nat : Has(cut, p, k, "delegation") => EdgeDone(cut, p, k)

Accepted(cut) ==
    WithinLimits(cut) /\ Structured(cut) /\ Strays(cut) = {} /\ EdgesOk(cut)

Finished(cut) == (\A r \in Supplied(cut) : Ends(cut, r)) /\ EdgesDone(cut)

LEMMA VerdictIs ==
    ASSUME TreeInv, NEW cut, IsCut(cut)
    PROVE  TreeVerdict(cut) = IF ~Accepted(cut) THEN "tree_invalid"
                              ELSE IF Finished(cut) THEN "tree_finalized" ELSE "tree_open"
  <1>1. (\A e \in Edges(cut) : EdgeSound(cut, e)) <=> EdgesOk(cut)
    <2>1. \A p \in Runs, k \in Nat : Has(cut, p, k, "delegation") =>
             (EdgeSound(cut, <<p, k>>) <=> EdgeOk(cut, p, k))
      BY EdgeIs
    <2>2. ASSUME \A e \in Edges(cut) : EdgeSound(cut, e),
                 NEW p \in Runs, NEW k \in Nat, Has(cut, p, k, "delegation")
          PROVE  EdgeOk(cut, p, k)
      <3>1. <<p, k>> \in Edges(cut)
        BY <2>2, EdgesAre
      <3> QED
        BY <2>1, <2>2, <3>1
    <2>3. ASSUME EdgesOk(cut), NEW e \in Edges(cut)
          PROVE  EdgeSound(cut, e)
      <3>1. PICK p \in Runs, k \in Nat : e = <<p, k>> /\ Has(cut, p, k, "delegation")
        BY EdgesAre
      <3> QED
        BY <2>1, <2>3, <3>1 DEF EdgesOk
    <2> QED
      BY <2>2, <2>3 DEF EdgesOk
  <1>2. (\A e \in Edges(cut) : Binding(cut, e) = "mutually_bound" /\ Completion(cut, e) = "result_bound")
        <=> EdgesDone(cut)
    <2>1. \A p \in Runs, k \in Nat : Has(cut, p, k, "delegation") =>
             (Binding(cut, <<p, k>>) = "mutually_bound" /\ Completion(cut, <<p, k>>) = "result_bound"
              <=> EdgeDone(cut, p, k))
      BY EdgeIs
    <2>2. ASSUME \A e \in Edges(cut) :
                    Binding(cut, e) = "mutually_bound" /\ Completion(cut, e) = "result_bound",
                 NEW p \in Runs, NEW k \in Nat, Has(cut, p, k, "delegation")
          PROVE  EdgeDone(cut, p, k)
      <3>1. <<p, k>> \in Edges(cut)
        BY <2>2, EdgesAre
      <3> QED
        BY <2>1, <2>2, <3>1
    <2>3. ASSUME EdgesDone(cut), NEW e \in Edges(cut)
          PROVE  Binding(cut, e) = "mutually_bound" /\ Completion(cut, e) = "result_bound"
      <3>1. PICK p \in Runs, k \in Nat : e = <<p, k>> /\ Has(cut, p, k, "delegation")
        BY EdgesAre
      <3> QED
        BY <2>1, <2>3, <3>1 DEF EdgesDone
    <2> QED
      BY <2>2, <2>3 DEF EdgesDone
  <1>3. (\A r \in Supplied(cut) : Closed(cut, r)) <=> \A r \in Supplied(cut) : Ends(cut, r)
    <2>1. \A r \in Supplied(cut) : r \in Runs
      BY DEF Supplied
    <2> QED
      BY <2>1, Reading
  <1>4. (\E e \in Edges(cut) :
             \/ Binding(cut, e) = "unbound" \/ Completion(cut, e) = "result_mismatch"
             \/ Withheld(cut, e)
             \/ Completion(cut, e) = "no_result" /\ ClosedAs(cut, e[1], "completed"))
        <=> ~EdgesOk(cut)
    BY <1>1, Zenon DEF EdgeSound
  <1>5. TreeVerdict(cut) =
           IF ~WithinLimits(cut) \/ ~Structured(cut) \/ Strays(cut) # {} \/ ~EdgesOk(cut)
           THEN "tree_invalid"
           ELSE IF /\ \A r \in Supplied(cut) : Closed(cut, r)
                   /\ EdgesDone(cut)
                THEN "tree_finalized"
                ELSE "tree_open"
    BY <1>2, <1>4, Zenon DEF TreeVerdict
  <1> QED
    BY <1>3, <1>5 DEF Accepted, Finished

\* In a cut, a child's run_start, its parent, and the delegation it binds.
LEMMA ChildIs ==
    ASSUME TreeInv, NEW cut, IsCut(cut), NEW c \in Children, cut[c] >= 2
    PROVE  \E k \in Nat : /\ c \in Runs /\ Parent(c) \in Runs /\ Parent(c) # c
                          /\ Binds(cut, c, Parent(c))
                          /\ StartedAt(c, Parent(c), k)
  <1>1. c \in Runs /\ IsChild(cut, c)
    BY ReadingStarts DEF Runs
  <1>2. PICK p \in Runs, k \in Nat : StartedAt(c, p, k)
    BY <1>1, ReadingStarts
  <1>3. Parent(c) = p /\ Is(p, k, "delegation") /\ chain[p][k].about = c
    BY <1>2 DEF StartedAt, Parent
  <1>4. p # c
    BY <1>3 DEF TreeInv, Delegated
  <1> QED
    BY <1>1, <1>2, <1>3, <1>4 DEF Binds

\* An edge that is in order shows who started the child.
LEMMA EdgeShows ==
    ASSUME TreeInv, NEW cut, IsCut(cut), EdgesOk(cut),
           NEW p \in Runs, NEW k \in Nat, Has(cut, p, k, "delegation"),
           NEW c \in Supplied(cut), chain[p][k].about = c
    PROVE  /\ c \in Children /\ cut[c] >= 2 /\ chain[c][2].ref = <<p, k>>
           /\ Parent(c) = p
  <1>1. c \in Children /\ c \in Runs
    BY DEF Has, TreeInv, Delegated, Runs
  <1>2. EdgeOk(cut, p, k)
    BY DEF EdgesOk
  <1>3. cut[c] > 0 /\ cut[c] \in Nat
    BY <1>1, Reading
  <1>4. cut[c] >= 2 /\ chain[c][2].ref = <<p, k>>
    BY <1>2, <1>3 DEF EdgeOk
  <1>5. PICK j \in Nat : StartedAt(c, Parent(c), j)
    BY <1>1, <1>4, ChildIs
  <1>6. <<Parent(c), j>> = <<p, k>>
    BY <1>4, <1>5 DEF StartedAt
  <1> QED
    BY <1>1, <1>4, <1>6

\* A run of whose artifacts one is in the cut is supplied.
LEMMA HasSupplied ==
    ASSUME TreeInv, NEW cut, IsCut(cut), NEW p \in Runs, NEW k \in Nat, NEW type, Has(cut, p, k, type)
    PROVE  p \in Supplied(cut)
  <1>1. k >= 1 /\ k <= cut[p] /\ cut[p] \in Nat
    BY Reading DEF Has, Is
  <1> QED
    BY <1>1, Reading

\* Neither delegations nor results of one run can be wrong by themselves.
LEMMA RunsWellDelegated ==
    ASSUME TreeInv, NEW cut, IsCut(cut), NEW r \in Runs
    PROVE  WellDelegated(cut, r)
  <1>1. ~Declares(cut, r, r)
    BY Reading DEF Has, TreeInv, Delegated
  <1>2. ~Binds(cut, r, r)
    <2> SUFFICES ASSUME Binds(cut, r, r)
                 PROVE  FALSE
      OBVIOUS
    <2>1. cut[r] >= 2 /\ r \in Children /\ Parent(r) = r
      BY ReadingStarts DEF Binds
    <2> QED
      BY <2>1, ChildIs
  <1>3. /\ \A k : k \in Delegations(cut, r) => k \in Nat /\ Has(cut, r, k, "delegation")
        /\ \A k : k \in Results(cut, r) <=> k \in Nat /\ Has(cut, r, k, "delegation_result")
        /\ \A k \in Nat : Has(cut, r, k, "delegation") => k \in Delegations(cut, r)
    BY Reading DEF Delegations, Results
  <1>4. \A j, k \in Delegations(cut, r) : chain[r][j].about = chain[r][k].about => j = k
    BY <1>3 DEF Has, TreeInv, Delegated
  <1>5. \A j, k \in Results(cut, r) : chain[r][j].about = chain[r][k].about => j = k
    BY <1>3 DEF Has, TreeInv, Answered
  <1>6. ASSUME NEW k \in Results(cut, r)
        PROVE  \E j \in Delegations(cut, r) : j < k /\ chain[r][j].about = chain[r][k].about
    <2>1. k \in Nat /\ Is(r, k, "delegation_result") /\ k <= cut[r]
      BY <1>3 DEF Has
    <2>2. PICK j \in Nat : j < k /\ Is(r, j, "delegation") /\ chain[r][j].about = chain[r][k].about
      BY <2>1 DEF TreeInv, Answered
    <2>3. cut[r] \in Nat
      BY Reading
    <2>4. j <= cut[r]
      BY <2>1, <2>2, <2>3
    <2> QED
      BY <1>3, <2>2, <2>4 DEF Has
  <1> QED
    BY <1>1, <1>2, <1>4, <1>5, <1>6 DEF WellDelegated

\* What is joined is accepted: every run but the root hangs on its parent, so
\* the levels reach it.
LEMMA JoinedIsAccepted ==
    ASSUME TreeInv, NEW cut, IsCut(cut), Joined(cut)
    PROVE  Accepted(cut)
  <1>1. PICK root \in Runs : Supplied(cut) \cap Roots = {root}
    BY DEF Joined, OneRoot
  <1>2. \A r \in Supplied(cut) : r \in Runs /\ cut[r] >= 2
    BY DEF Supplied, Joined, StartsThere
  <1>3. TreeRoots(cut) = {root}
    <2>1. ASSUME NEW r \in Supplied(cut)
          PROVE  HasStart(cut, r) /\ ~IsChild(cut, r) <=> r \in Roots
      BY <1>2, ReadingStarts DEF HasStart
    <2> QED
      BY <1>1, <2>1 DEF TreeRoots
  <1>4. ASSUME NEW c \in Supplied(cut), c \in Children
        PROVE  /\ Parent(c) \in Supplied(cut) /\ Binds(cut, c, Parent(c))
               /\ \E k \in Nat : /\ chain[c][2].ref = <<Parent(c), k>> /\ chain[Parent(c)][k].about = c
                                 /\ Has(cut, Parent(c), k, "delegation")
    <2>1. PICK k \in Nat : /\ Parent(c) \in Runs /\ Binds(cut, c, Parent(c))
                           /\ StartedAt(c, Parent(c), k)
      BY <1>2, <1>4, ChildIs
    <2>2. PICK p \in Runs, j \in Nat : chain[c][2].ref = <<p, j>> /\ Has(cut, p, j, "delegation")
      BY <1>4 DEF Joined, ParentsThere
    <2>3. p = Parent(c) /\ j = k
      <3>1. <<p, j>> = <<Parent(c), k>>
        BY <2>1, <2>2 DEF StartedAt
      <3> QED
        BY <3>1
    <2>4. Parent(c) \in Supplied(cut)
      BY <2>1, <2>2, <2>3, HasSupplied
    <2> QED
      BY <2>1, <2>2, <2>3, <2>4 DEF StartedAt
  <1>5. \A c \in Supplied(cut) : c # root =>
           c \in Children /\ Parent(c) \in Supplied(cut) /\ Binds(cut, c, Parent(c))
    <2>1. \A c \in Supplied(cut) : c # root => c \in Children
      BY <1>1, <1>2, ReadingStarts
    <2> QED
      BY <1>4, <2>1
  <1>6. Supplied(cut) \subseteq Reached(cut, root)[MaxDepth]
    <2> SUFFICES ASSUME NEW c \in Supplied(cut), c \notin Reached(cut, root)[MaxDepth]
                 PROVE  FALSE
      OBVIOUS
    <2>1. \E line : Line(cut, MaxDepth + 1, line)
      BY <1>5, BeyondLevels
    <2> QED
      BY <2>1 DEF Joined, NoLongLine
  <1>7. Reached(cut, root)[MaxDepth+1] = Reached(cut, root)[MaxDepth]
    <2>1. MaxDepth \in 0..MaxDepth
      BY TreeAssumption
    <2>2. Reached(cut, root)[MaxDepth+1] = Wider(cut, Reached(cut, root)[MaxDepth])
      BY <2>1, LevelsAre
    <2> QED
      BY <1>6, <2>2 DEF Wider
  <1>8. WithinLimits(cut)
    <2>1. Supplied(cut) # {}
      BY <1>1
    <2>2. \A r \in TreeRoots(cut) : Reached(cut, r)[MaxDepth+1] = Reached(cut, r)[MaxDepth]
      BY <1>3, <1>7
    <2> QED
      BY <2>1, <2>2, Zenon DEF WithinLimits, Joined, Small, EventsOf
  <1>9. Structured(cut)
    <2>1. Cardinality(TreeRoots(cut)) = 1
      BY <1>3, FS_Singleton
    <2>2. \A r \in Supplied(cut) : WellDelegated(cut, r)
      BY <1>2, RunsWellDelegated
    <2>3. ASSUME NEW p \in Supplied(cut), NEW q \in Supplied(cut), NEW c \in Runs,
                 Declares(cut, p, c), Declares(cut, q, c)
          PROVE  p = q
      <3>1. p \in Runs /\ q \in Runs
        BY <1>2
      <3>2. PICK j \in Nat : Has(cut, p, j, "delegation") /\ chain[p][j].about = c
        BY <2>3, <3>1, Reading
      <3>3. PICK k \in Nat : Has(cut, q, k, "delegation") /\ chain[q][k].about = c
        BY <2>3, <3>1, Reading
      <3> QED
        BY <3>1, <3>2, <3>3 DEF Joined, OneDelegation
    <2>4. \A r \in TreeRoots(cut) : Supplied(cut) \subseteq Reached(cut, r)[MaxDepth]
      BY <1>3, <1>6
    <2> QED
      BY <2>1, <2>2, <2>3, <2>4 DEF Structured
  <1>10. Strays(cut) = {}
    <2> SUFFICES ASSUME NEW c \in Supplied(cut), IsChild(cut, c)
                 PROVE  Declares(cut, Parent(c), c)
      BY DEF Strays
    <2>1. c \in Children
      BY <1>2, ReadingStarts
    <2>2. PICK k \in Nat : Has(cut, Parent(c), k, "delegation") /\ chain[Parent(c)][k].about = c
      BY <1>4, <2>1
    <2>3. Parent(c) \in Runs
      BY <1>2, <1>4, <2>1
    <2> QED
      BY <2>2, <2>3, Reading
  <1>11. ASSUME NEW p \in Runs, NEW k \in Nat, Has(cut, p, k, "delegation")
         PROVE  EdgeOk(cut, p, k)
    <2> DEFINE c == chain[p][k].about
    <2>1. c \in Children /\ c \in Runs
      BY <1>11 DEF Has, TreeInv, Delegated, Runs
    <2>2. ASSUME cut[c] # 0
          PROVE  cut[c] >= 2 /\ chain[c][2].ref = <<p, k>>
      <3>1. c \in Supplied(cut)
        BY <2>1, <2>2, Reading
      <3>2. PICK j \in Nat : /\ chain[c][2].ref = <<Parent(c), j>> /\ chain[Parent(c)][j].about = c
                             /\ Has(cut, Parent(c), j, "delegation")
        BY <1>4, <2>1, <3>1
      <3>3. Parent(c) \in Runs
        BY <1>2, <1>4, <2>1, <3>1
      <3>4. Parent(c) = p
        BY <1>11, <3>2, <3>3 DEF Joined, OneDelegation
      <3>5. j = k
        BY <1>11, <3>2, <3>4 DEF Has, TreeInv, Delegated
      <3> QED
        BY <1>2, <3>1, <3>2, <3>4, <3>5
    <2>3. \A i \in Nat : Has(cut, p, i, "delegation_result") /\ chain[p][i].about = c
                          => Told(cut, p, i, c)
      BY DEF Joined, EndsThere
    <2> QED
      BY <2>2, <2>3 DEF EdgeOk
  <1> QED
    BY <1>8, <1>9, <1>10, <1>11 DEF Accepted, EdgesOk

\* What is accepted is joined: the levels reach a run only along an edge or
\* a binding, and both are in order.
LEMMA AcceptedIsJoined ==
    ASSUME TreeInv, NEW cut, IsCut(cut), Accepted(cut)
    PROVE  Joined(cut)
  <1>1. PICK root \in TreeRoots(cut) : TreeRoots(cut) = {root}
    <2>1. TreeRoots(cut) \subseteq Supplied(cut)
      BY DEF TreeRoots
    <2>2. IsFiniteSet(TreeRoots(cut))
      BY <2>1, RunsFinite, FS_Subset
    <2> QED
      BY <2>2, ExactlyOne DEF Accepted, Structured
  <1>2. \A r \in Supplied(cut) : r \in Runs
    BY DEF Supplied
  <1>3. root \in Supplied(cut) /\ root \in Runs /\ cut[root] >= 2 /\ root \in Roots /\ root \notin Children
    <2>1. root \in Supplied(cut) /\ HasStart(cut, root) /\ ~IsChild(cut, root)
      BY DEF TreeRoots
    <2> QED
      BY <1>2, <2>1, ReadingStarts DEF HasStart
  <1>4. Supplied(cut) \subseteq Reached(cut, root)[MaxDepth]
    BY DEF Accepted, Structured
  <1>5. EdgesOk(cut)
    BY DEF Accepted
  <1>6. ASSUME NEW p \in Runs, NEW c \in Supplied(cut), Declares(cut, p, c) \/ Binds(cut, c, p)
        PROVE  c \in Children /\ cut[c] >= 2 /\ Parent(c) = p
    <2>1. CASE Declares(cut, p, c)
      <3>1. PICK k \in Nat : Has(cut, p, k, "delegation") /\ chain[p][k].about = c
        BY <2>1, Reading
      <3> QED
        BY <1>5, <3>1, EdgeShows
    <2>2. CASE Binds(cut, c, p)
      BY <1>2, <2>2, ReadingStarts DEF Binds
    <2> QED
      BY <1>6, <2>1, <2>2
  <1>7. ASSUME NEW c \in Supplied(cut), c # root
        PROVE  c \in Children /\ cut[c] >= 2
    <2>1. MaxDepth \in 0..MaxDepth+1 /\ c \in Reached(cut, root)[MaxDepth]
      BY <1>4, TreeAssumption
    <2>2. PICK m \in 0..(MaxDepth - 1) :
             \E p \in Reached(cut, root)[m] : Declares(cut, p, c) \/ Binds(cut, c, p)
      BY <1>3, <1>7, <2>1, Entered
    <2>3. m \in 0..MaxDepth+1
      BY TreeAssumption
    <2>4. Reached(cut, root)[m] \subseteq Runs
      BY <1>3, <2>3, LevelsAre
    <2> QED
      BY <1>6, <2>2, <2>4
  <1>8. StartsThere(cut)
    BY <1>3, <1>7 DEF StartsThere
  <1>9. OneRoot(cut)
    <2>1. ASSUME NEW r \in Supplied(cut) \cap Roots
          PROVE  r = root
      BY <1>2, <1>7, ReadingStarts
    <2>2. Supplied(cut) \cap Roots = {root}
      BY <1>3, <2>1
    <2> QED
      BY <1>3, <2>2 DEF OneRoot
  <1>10. OneDelegation(cut)
    <2> SUFFICES ASSUME NEW p \in Runs, NEW q \in Runs, NEW j \in Nat, NEW k \in Nat,
                        Has(cut, p, j, "delegation"), Has(cut, q, k, "delegation"),
                        chain[p][j].about = chain[q][k].about
                 PROVE  p = q
      BY DEF OneDelegation
    <2>1. PICK c : c = chain[p][j].about /\ c = chain[q][k].about
      OBVIOUS
    <2>2. c \in Runs
      BY <2>1 DEF Has, TreeInv, Delegated, Runs
    <2>3. Declares(cut, p, c) /\ Declares(cut, q, c)
      BY <2>1, Reading
    <2>4. p \in Supplied(cut) /\ q \in Supplied(cut)
      BY HasSupplied
    <2> QED
      BY <2>2, <2>3, <2>4 DEF Accepted, Structured
  <1>11. ParentsThere(cut)
    <2> SUFFICES ASSUME NEW c \in Supplied(cut), c \in Children
                 PROVE  \E p \in Runs, k \in Nat :
                           chain[c][2].ref = <<p, k>> /\ Has(cut, p, k, "delegation")
      BY DEF ParentsThere
    <2>1. c \in Runs /\ cut[c] >= 2 /\ IsChild(cut, c)
      BY <1>2, <1>8, ReadingStarts DEF StartsThere
    <2>2. Parent(c) \in Runs
      BY <2>1, ChildIs
    <2>3. Declares(cut, Parent(c), c)
      BY <2>1 DEF Accepted, Strays
    <2>4. PICK k \in Nat : Has(cut, Parent(c), k, "delegation") /\ chain[Parent(c)][k].about = c
      BY <2>2, <2>3, Reading
    <2>5. chain[c][2].ref = <<Parent(c), k>>
      BY <1>5, <2>2, <2>4, EdgeShows
    <2> QED
      BY <2>2, <2>4, <2>5
  <1>12. EndsThere(cut)
    <2> SUFFICES ASSUME NEW p \in Runs, NEW i \in Nat, Has(cut, p, i, "delegation_result")
                 PROVE  Told(cut, p, i, chain[p][i].about)
      BY DEF EndsThere
    <2>1. Is(p, i, "delegation_result") /\ i <= cut[p] /\ cut[p] \in Nat
      BY Reading DEF Has
    <2>2. PICK j \in Nat : j < i /\ Is(p, j, "delegation") /\ chain[p][j].about = chain[p][i].about
      BY <2>1 DEF TreeInv, Answered
    <2>3. Has(cut, p, j, "delegation")
      BY <2>1, <2>2 DEF Has
    <2>4. EdgeOk(cut, p, j)
      BY <1>5, <2>3 DEF EdgesOk
    <2> QED
      BY <2>2, <2>4 DEF EdgeOk
  <1>13. NoLongLine(cut)
    <2>1. \A c \in Supplied(cut) \cap Children, p \in Runs :
             Declares(cut, p, c) \/ Binds(cut, c, p) => p = Parent(c)
      BY <1>6
    <2> QED
      BY <1>3, <1>4, <2>1, LinesAreShort
  <1>14. Small(cut)
    BY DEF Accepted, WithinLimits, Small, EventsOf
  <1> QED
    BY <1>8, <1>9, <1>10, <1>11, <1>12, <1>13, <1>14 DEF Joined

\* Of what is accepted, the finished is the whole.
LEMMA FinishedIsWhole ==
    ASSUME TreeInv, NEW cut, IsCut(cut), Accepted(cut)
    PROVE  Finished(cut) <=> Whole(cut)
  <1>1. \A r \in Runs : Ended(r) <=> Is(r, Size(r), "run_end")
    BY DEF Ended, Places, Is, TreeInv, Ordered, Typed, Size
  <1>2. \A r \in Runs : r \in Supplied(cut) <=> cut[r] > 0
    BY DEF Supplied
  <1>3. Typed
    BY DEF TreeInv
  <1>4. ASSUME Finished(cut), NEW r \in Runs, cut[r] > 0
        PROVE  Ended(r) /\ cut[r] = Size(r) /\ Outstanding(r) = {}
    <2>1. Ends(cut, r)
      BY <1>2, <1>4 DEF Finished
    <2>2. cut[r] = Size(r) /\ Ended(r)
      BY <1>1, <2>1 DEF Ends
    <2>3. ASSUME NEW c \in Outstanding(r)
          PROVE  FALSE
      <3>1. /\ \E k \in Nat : Is(r, k, "delegation") /\ chain[r][k].about = c
            /\ \A k \in Nat : Is(r, k, "delegation_result") => chain[r][k].about # c
        BY <1>3, DeclaredIs
      <3>2. PICK k \in Nat : Is(r, k, "delegation") /\ chain[r][k].about = c
        BY <3>1
      <3>3. Has(cut, r, k, "delegation")
        BY <2>2, <3>2 DEF Has, Is
      <3>4. EdgeDone(cut, r, k)
        BY <1>4, <3>3 DEF Finished, EdgesDone
      <3> QED
        BY <3>1, <3>2, <3>4 DEF EdgeDone, Has
    <2> QED
      BY <2>2, <2>3
  <1>5. ASSUME Whole(cut)
        PROVE  Finished(cut)
    <2>1. \A r \in Supplied(cut) : r \in Runs /\ cut[r] > 0
      BY DEF Supplied
    <2>2. ASSUME NEW r \in Supplied(cut)
          PROVE  Ends(cut, r)
      BY <1>1, <1>5, <2>1 DEF Whole, Ends
    <2>3. ASSUME NEW p \in Runs, NEW k \in Nat, Has(cut, p, k, "delegation")
          PROVE  EdgeDone(cut, p, k)
      <3> DEFINE c == chain[p][k].about
      <3>1. p \in Supplied(cut)
        BY <2>3, HasSupplied
      <3>2. Outstanding(p) = {} /\ cut[p] = Size(p)
        BY <1>5, <2>1, <3>1 DEF Whole
      <3>3. c \in Declared(p)
        BY <1>3, <2>3, DeclaredIs DEF Has
      <3>4. ~ \A i \in Nat : Is(p, i, "delegation_result") => chain[p][i].about # c
        BY <1>3, <3>2, <3>3, DeclaredIs
      <3>5. PICK i \in Nat : Is(p, i, "delegation_result") /\ chain[p][i].about = c
        BY <3>4
      <3>6. Has(cut, p, i, "delegation_result")
        BY <3>2, <3>5 DEF Has, Is
      <3>7. EdgeOk(cut, p, k)
        BY <2>3 DEF Accepted, EdgesOk
      <3>8. Told(cut, p, i, c)
        BY <3>5, <3>6, <3>7 DEF EdgeOk
      <3>9. cut[c] # 0
        BY <3>8 DEF Told, Ends, Is
      <3> QED
        BY <3>5, <3>6, <3>7, <3>8, <3>9 DEF EdgeOk, EdgeDone
    <2> QED
      BY <2>2, <2>3 DEF Finished, EdgesDone
  <1> QED
    BY <1>4, <1>5 DEF Whole

\* The verdict on any cut.
LEMMA VerdictOnCut ==
    ASSUME TreeInv, NEW cut, IsCut(cut)
    PROVE  TreeVerdict(cut) = IF ~Consistent(cut) THEN "tree_invalid"
                              ELSE IF Whole(cut) THEN "tree_finalized" ELSE "tree_open"
  <1>1. Accepted(cut) <=> Consistent(cut)
    BY JoinedIsAccepted, AcceptedIsJoined, ConsistentIs
  <1>2. Accepted(cut) => (Finished(cut) <=> Whole(cut))
    BY FinishedIsWhole
  <1> QED
    BY <1>1, <1>2, VerdictIs

LEMMA CutsAre ==
    ASSUME TreeInv
    PROVE  \A cut \in Cuts : IsCut(cut)
  <1> DEFINE sizes == {Size(r) : r \in Runs}
             longest == CHOOSE n \in sizes : \A r \in Runs : Size(r) <= n
  <1>1. \A r \in Runs : longest \in Nat
    <2> SUFFICES ASSUME Runs # {}
                 PROVE  longest \in Nat
      OBVIOUS
    <2>1. sizes \in SUBSET Nat /\ sizes # {}
      <3>1. \A r \in Runs : Size(r) \in Nat
        BY DEF TreeInv, Typed, Size
      <3> QED
        BY <3>1
    <2>2. PICK b \in Nat : \A r \in Runs : Size(r) <= b
      BY SizesBounded
    <2>3. \A s \in sizes : s <= b
      BY <2>2
    <2>4. PICK n \in sizes : \A s \in sizes : s <= n
      BY <2>1, <2>3, GreatestOf
    <2>5. \A r \in Runs : Size(r) <= n
      BY <2>4
    <2>6. longest \in sizes
      BY <2>5
    <2> QED
      BY <2>1, <2>6
  <1>2. Cuts = {cut \in [Runs -> 0..longest] : \A r \in Runs : cut[r] <= Size(r)}
    BY Zenon DEF Cuts
  <1> HIDE DEF longest
  <1>3. ASSUME NEW cut \in [Runs -> 0..longest]
        PROVE  cut \in [Runs -> Nat]
    <2>1. \A r \in Runs : cut[r] \in 0..longest /\ longest \in Nat
      BY <1>1
    <2>2. \A r \in Runs : cut[r] \in Nat
      BY <2>1
    <2> QED
      BY <2>2
  <1> QED
    BY <1>2, <1>3 DEF IsCut

\* CutVerdict, for every number of runs and every limit: of any selection of
\* prefixes the verdict is tree_invalid exactly when something it refers to is
\* missing, and tree_finalized exactly when it is whole.
THEOREM VerdictTellsCuts == Spec => []CutVerdict
  <1>1. TreeInv => CutVerdict
    BY VerdictOnCut, CutsAre DEF CutVerdict
  <1> QED
    BY <1>1, TreeInvariant, PTL

-----------------------------------------------------------------------------
(* A finalized tree.                                                         *)

LEMMA PersistedIsCut ==
    ASSUME TreeInv
    PROVE  IsCut(persisted)
  BY DEF TreeInv, Typed, IsCut

\* Nothing is left to do for a tree of one root that is finalized: its runs have
\* ended and been delivered, and no run of it is only in the making.
LEMMA FinalizedIsOver ==
    ASSUME TreeInv, \A q, r \in Roots : q = r, TreeVerdict(persisted) = "tree_finalized"
    PROVE  ~Next
  <1> SUFFICES ASSUME Next
               PROVE  FALSE
    OBVIOUS
  <1>1. Accepted(persisted) /\ Finished(persisted) /\ OneRoot(persisted)
    BY PersistedIsCut, VerdictIs, AcceptedIsJoined DEF Joined
  <1>2. \A r \in Runs : persisted[r] \in Nat /\ Size(r) \in Nat /\ persisted[r] <= Size(r)
    BY PersistedIsCut, Reading
  <1>3. ASSUME NEW r \in Runs, persisted[r] > 0
        PROVE  persisted[r] = Size(r) /\ ~Open(r)
    <2>1. Ends(persisted, r)
      BY <1>1, <1>3 DEF Finished, Supplied
    <2>2. Size(r) \in Nat /\ Typed
      BY <1>2 DEF TreeInv
    <2> QED
      BY <2>1, <2>2, OpenIs DEF Ends
  <1>4. ASSUME NEW p \in Runs, NEW k \in Nat, Is(p, k, "delegation"), k <= persisted[p]
        PROVE  persisted[chain[p][k].about] >= 2
    BY <1>1, <1>4 DEF Finished, EdgesDone, EdgeDone, Has
  <1>5. \A r \in Roots : persisted[r] > 0
    <2>1. PICK root \in Runs : Supplied(persisted) \cap Roots = {root}
      BY <1>1 DEF OneRoot
    <2> QED
      BY <2>1 DEF Supplied
  <1>6. ASSUME NEW r \in Runs, ~(persisted[r] > 0)
        PROVE  Size(r) = 0
    <2>1. r \in Children
      BY <1>5, <1>6 DEF Runs
    <2>2. ASSUME Size(r) >= 2
          PROVE  FALSE
      <3>1. PICK p \in Runs, k \in Nat : StartedAt(r, p, k)
        BY <2>1, <2>2 DEF TreeInv, Bound
      <3>2. persisted[r] >= 2
        BY <1>4, <3>1 DEF StartedAt
      <3> QED
        BY <1>2, <1>6, <3>2
    <2>3. Size(r) # 1 /\ Size(r) \in Nat
      BY <1>2 DEF TreeInv, Ordered
    <2> QED
      BY <2>2, <2>3
  <1>7. ASSUME NEW r \in Runs
        PROVE  ~Running(r) /\ ~Persist(r)
    <2>1. persisted[r] >= 2 => ~Open(r)
      BY <1>2, <1>3
    <2>2. persisted[r] = Size(r)
      BY <1>2, <1>3, <1>6
    <2> QED
      BY <1>2, <2>1, <2>2 DEF Running, Persist
  <1>8. ASSUME NEW r \in Runs, StartRoot(r)
        PROVE  FALSE
    <2>1. r \in Roots /\ Size(r) = 0
      BY <1>8 DEF StartRoot, Size
    <2> QED
      BY <1>2, <1>5, <2>1
  <1>9. ASSUME NEW c \in Children, NEW p \in Runs, StartChild(c, p)
        PROVE  FALSE
    <2>1. PICK k \in Places(p, Size(p), "delegation") : chain[p][k].about = c /\ Handed(p, k)
      BY <1>9 DEF StartChild
    <2>2. k \in Nat /\ Is(p, k, "delegation") /\ k <= persisted[p]
      <3>1. k \in 1..Size(p) /\ chain[p][k].type = "delegation"
        BY <2>1 DEF Places
      <3>2. k \in Nat /\ k <= persisted[p]
        BY <1>2, <2>1, <3>1 DEF Handed
      <3> QED
        BY <3>1, <3>2 DEF Is
    <2>3. persisted[c] >= 2
      BY <1>4, <2>1, <2>2
    <2>4. c \in Runs /\ Size(c) = 0
      BY <1>9 DEF StartChild, Size, Runs
    <2> QED
      BY <1>2, <2>3, <2>4
  <1>10. PICK r \in Runs : \/ Persist(r) \/ StartRoot(r)
                           \/ \E c \in Children :
                                 \/ StartChild(c, r) \/ Delegate(r, c) \/ CompleteDelegation(r, c)
                                 \/ \E v \in Values(c) : CompleteByValues(r, c, v[1], v[2])
                           \/ \E d \in Dispositions : Finish(r, d)
    BY Zenon DEF Next
  <1>11. ASSUME NEW c \in Children
         PROVE  /\ ~StartChild(c, r) /\ ~Delegate(r, c) /\ ~CompleteDelegation(r, c)
                /\ \A v : ~CompleteByValues(r, c, v[1], v[2])
    BY <1>7, <1>9 DEF Delegate, CompleteDelegation, CompleteByValues
  <1>12. CASE \E d \in Dispositions : Finish(r, d)
    BY <1>7, <1>12 DEF Finish
  <1> QED
    BY <1>7, <1>8, <1>10, <1>11, <1>12

\* FinalizedIsFinal, for every number of runs under one root: no step of any run
\* changes the verdict on a tree that is finalized.
THEOREM FinalizedTreesStay ==
    ASSUME \A q, r \in Roots : q = r
    PROVE  Spec => FinalizedIsFinal
  <1>1. TreeInv /\ Next /\ TreeVerdict(persisted) = "tree_finalized" => FALSE
    BY FinalizedIsOver
  <1>2. TreeInv /\ Next
        => (TreeVerdict(persisted) = "tree_finalized" => TreeVerdict(persisted)' = "tree_finalized")
    BY <1>1
  <1> QED
    BY <1>2, TreeInvariant, PTL DEF Spec, FinalizedIsFinal

-----------------------------------------------------------------------------
(* What the callbacks have been given of a tree, at every moment of a crash. *)

\* It is joined, but for half a start, a result that does not answer to what is
\* there of its child, and an id used twice.
LEMMA DeliveredIsJoined ==
    ASSUME TreeInv, \A q, r \in Roots : q = r,
           \E root \in Roots : persisted[root] > 0, ~TooLarge(persisted),
           StartsThere(persisted), EndsThere(persisted), OneDelegation(persisted)
    PROVE  Joined(persisted)
  <1>1. IsCut(persisted)
    BY PersistedIsCut
  <1>2. \A r \in Supplied(persisted) : r \in Runs /\ persisted[r] >= 2
    BY DEF Supplied, StartsThere
  <1>3. OneRoot(persisted)
    <2>1. PICK root \in Roots : persisted[root] > 0
      OBVIOUS
    <2>2. root \in Runs /\ Supplied(persisted) \cap Roots = {root}
      BY <2>1 DEF Supplied, Runs
    <2> QED
      BY <2>2 DEF OneRoot
  <1>4. ASSUME NEW c \in Supplied(persisted), c \in Children
        PROVE  \E p \in Runs, k \in Nat : chain[c][2].ref = <<p, k>> /\ Has(persisted, p, k, "delegation")
    <2>1. PICK k \in Nat : Parent(c) \in Runs /\ StartedAt(c, Parent(c), k)
      BY <1>1, <1>2, <1>4, ChildIs
    <2>2. Has(persisted, Parent(c), k, "delegation") /\ chain[c][2].ref = <<Parent(c), k>>
      BY <2>1 DEF StartedAt, Has
    <2> QED
      BY <2>1, <2>2
  <1>5. ParentsThere(persisted)
    BY <1>4 DEF ParentsThere
  <1>6. NoLongLine(persisted) /\ Small(persisted)
    BY <1>1, TooLargeIs
  <1> QED
    BY <1>3, <1>5, <1>6 DEF Joined

\* PersistedTreeVerifies, for every number of runs under one root and every
\* limit: whatever the moment of a crash, only half a start, a result that does
\* not answer to what was delivered of its child, and an id used for two
\* delegations keep what is there from verifying.
THEOREM PersistedTreesVerify ==
    ASSUME \A q, r \in Roots : q = r
    PROVE  Spec => []PersistedTreeVerifies
  <1>1. ASSUME TreeInv
        PROVE  PersistedTreeVerifies
    <2> DEFINE halfStarted == \E r \in Runs : persisted[r] = 1
               resultAhead == \E p \in Runs : \E k \in Places(p, persisted[p], "delegation_result") :
                                 ~Answers(persisted, p, k)
               idTwice == \E c \in Children : Cardinality(DelegationsTo(persisted, c)) > 1
    <2>1. IsCut(persisted)
      BY <1>1, PersistedIsCut
    <2>2. StartsThere(persisted) <=> ~halfStarted
      <3>1. \A r \in Runs : persisted[r] \in Nat
        BY <1>1, <2>1, Reading
      <3> QED
        BY <3>1 DEF StartsThere, Supplied
    <2>3. EndsThere(persisted) <=> ~resultAhead
      <3>1. ASSUME NEW p \in Runs, NEW k \in Nat, Has(persisted, p, k, "delegation_result")
            PROVE  Answers(persisted, p, k) <=> Told(persisted, p, k, chain[p][k].about)
        BY <1>1, <2>1, <3>1, ResultIs DEF Has
      <3>2. \A p \in Runs : \A k : k \in Places(p, persisted[p], "delegation_result")
                                   <=> k \in Nat /\ Has(persisted, p, k, "delegation_result")
        BY <1>1, <2>1, Reading
      <3> QED
        BY <3>1, <3>2 DEF EndsThere
    <2>4. OneDelegation(persisted) <=> ~idTwice
      <3>1. \A c \in Children : Cardinality(DelegationsTo(persisted, c)) \in Nat
        <4>1. \A c \in Children : IsFiniteSet(DelegationsTo(persisted, c))
          BY <1>1, <2>1, DelegationsAre
        <4> QED
          BY <4>1, FS_CardinalityType
      <3>2. \A n \in Nat : n <= 1 <=> ~(n > 1)
        OBVIOUS
      <3>3. (\A c \in Children : Cardinality(DelegationsTo(persisted, c)) <= 1) <=> OneDelegation(persisted)
        BY <1>1, <2>1, DelegatedOnce
      <3> QED
        BY <3>1, <3>2, <3>3, Zenon
    <2>5. (\E root \in Roots : persisted[root] > 0) /\ ~TooLarge(persisted) =>
             (Joined(persisted) <=> StartsThere(persisted) /\ EndsThere(persisted)
                                    /\ OneDelegation(persisted))
      BY <1>1, DeliveredIsJoined DEF Joined
    <2>6. TreeVerdict(persisted) = "tree_invalid" <=> ~Joined(persisted)
      BY <1>1, <2>1, JoinedIsAccepted, AcceptedIsJoined, VerdictIs
    <2>7. (\E root \in Roots : persisted[root] > 0) /\ ~TooLarge(persisted) =>
             (TreeVerdict(persisted) = "tree_invalid" <=> halfStarted \/ resultAhead \/ idTwice)
      BY <2>2, <2>3, <2>4, <2>5, <2>6, Zenon
    <2> QED
      BY <2>7, Zenon DEF PersistedTreeVerifies
  <1> QED
    BY <1>1, TreeInvariant, PTL

=================================================================================
