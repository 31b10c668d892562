-------------------------------- MODULE RunTree --------------------------------
(***************************************************************************)
(* A tree of runs: agents that delegate to other agents, each recording    *)
(* its own run (AgentRun with delegate, start_child, complete_delegation), *)
(* and the verdict of verify_agent_run_tree (_agent_tree.py) on what is    *)
(* supplied of them.                                                       *)
(*                                                                         *)
(* A run here is its sealed artifacts: the Control Artifact, run_start and *)
(* the events about delegations, in order; the others have no part in the  *)
(* tree.  Its n-th artifact is signed <<run, n>>.  Module AgentRun shows   *)
(* that threads and failures leave such a chain, module RunCopies that the *)
(* verdict on a prefix of one is run_open or, with run_end, run_finalized. *)
(* What a producer has kept of a run is what on_artifact_sealed has been   *)
(* called with: persisted[r] artifacts.  A crash is the state in which     *)
(* nothing more happens, so every state's persisted tree may be verified.  *)
(*                                                                         *)
(* Left out: agent ids (start_child compares them), evaluations, expected  *)
(* roots and signers, the fingerprint, payload limits.  An AgentDelegation *)
(* is used for one start_child: a second one would start a second run of   *)
(* the same correlation id, which the verdict calls duplicate_run.         *)
(***************************************************************************)
EXTENDS Integers, Sequences, FiniteSets

CONSTANTS Roots,      \* runs started by AgentRun.start
          Children,   \* correlation ids a run may delegate to
          MaxRuns,    \* MAX_RUNS of a tree
          MaxDepth,   \* MAX_DEPTH of a tree
          MaxTreeArtifacts,  \* MAX_ARTIFACTS of a tree
          MaxBehind,  \* bound: sealed artifacts the callbacks have not been given
          MaxSealed   \* bound: sealed artifacts of all runs

ASSUME TreeAssumption ==
    /\ Roots \cap Children = {}
    /\ IsFiniteSet(Roots) /\ IsFiniteSet(Children)
    /\ MaxRuns \in Nat /\ MaxDepth \in Nat /\ MaxTreeArtifacts \in Nat
    /\ MaxBehind \in Nat /\ MaxSealed \in Nat

Runs == Roots \cup Children

VARIABLES chain,      \* chain[r]: the artifacts sealed in r
          persisted   \* persisted[r]: how many of them the callback has been given

vars == <<chain, persisted>>
---------------------------------------------------------------------------------
\* "failed" is "aborted" too: a tree asks for "completed", and whether two agree.
Dispositions == {"completed", "failed"}
NoRun == "no run"
NoSig == <<>>

\* about: the child of a delegation or result, the parent of a child's run_start.
\* ref: the delegation a run_start binds, the run_end a result names.
Artifact(type, about, ref, disposition) ==
    [type |-> type, about |-> about, ref |-> ref, disposition |-> disposition]

Places(r, n, type) == {k \in 1..n : chain[r][k].type = type}

About(r, n, type) == {chain[r][k].about : k \in Places(r, n, type)}

Size(r)        == Len(chain[r])
Ended(r)       == Places(r, Size(r), "run_end") # {}
Declared(r)    == About(r, Size(r), "delegation")
Outstanding(r) == Declared(r) \ About(r, Size(r), "delegation_result")
RunEnd(r)      == <<r, Size(r)>>

\* Mutant: a run accepts calls after run_end.
Open_Always(r) == TRUE

Open(r) == ~Ended(r)

\* start has returned, so both its callbacks have run; and _ensure_open.
Running(r) == persisted[r] >= 2 /\ Open(r)
---------------------------------------------------------------------------------
Init == /\ chain = [r \in Runs |-> <<>>]
        /\ persisted = [r \in Runs |-> 0]

Seal(r, artifacts) ==
    /\ Cardinality(UNION {{q} \X (1..Size(q)) : q \in Runs}) + Len(artifacts) <= MaxSealed
    /\ Cardinality(UNION {{q} \X (persisted[q]+1..Size(q)) : q \in Runs}) + Len(artifacts) <= MaxBehind
    /\ chain' = [chain EXCEPT ![r] = @ \o artifacts]
    /\ UNCHANGED persisted

\* The callback is given the run's next artifact (_notify, in chain order).
Persist(r) ==
    /\ persisted[r] < Size(r)
    /\ persisted' = [persisted EXCEPT ![r] = @ + 1]
    /\ UNCHANGED chain

\* start seals the Control Artifact and run_start before any callback: no one
\* has seen either of them until both are there.
Started(parent, delegation) ==
    <<Artifact("control", NoRun, NoSig, "none"), Artifact("run_start", parent, delegation, "none")>>

StartRoot(r) ==
    /\ r \in Roots /\ chain[r] = <<>>
    /\ Seal(r, Started(NoRun, NoSig))

\* Mutant: the child starts although delegate has not returned yet.
Handed_WhileSealing(p, k) == TRUE

\* delegate returns the AgentDelegation after its callback.
Handed(p, k) == persisted[p] >= k

\* start_child with the AgentDelegation of the delegation at <<p, k>>.
StartChild(c, p) ==
    /\ chain[c] = <<>>
    /\ \E k \in Places(p, Size(p), "delegation") :
          /\ chain[p][k].about = c /\ Handed(p, k)
          /\ Seal(c, Started(p, <<p, k>>))

\* delegate: the child is neither this run nor one it delegated to already.  Its
\* id is generated or chosen by the caller, who may choose another run's.
Delegate(p, c) ==
    /\ Running(p)
    /\ c # p /\ c \notin Declared(p)
    /\ Seal(p, <<Artifact("delegation", c, NoSig, "none")>>)

\* complete_delegation with the values of a child that ran elsewhere: they are
\* sealed as the caller gives them.
CompleteByValues(p, c, runEnd, disposition) ==
    /\ Running(p)
    /\ c \in Outstanding(p)
    /\ Seal(p, <<Artifact("delegation_result", c, runEnd, disposition)>>)

\* complete_delegation with the child's AgentRun: is_finished is set with the
\* append of run_end, whether or not finish has called back and returned.
CompleteDelegation(p, c) ==
    /\ Ended(c)
    /\ CompleteByValues(p, c, RunEnd(c), chain[c][Size(c)].disposition)

\* What a caller may say of the end of a child: its run_end, with its disposition
\* or another; or something that is no run_end of its.
Values(c) == {<<NoSig, "completed">>} \cup
             {v \in {RunEnd(c)} \X Dispositions : Ended(c)}

\* finish: completed only when every delegation has its result.
Finish(r, disposition) ==
    /\ Running(r)
    /\ disposition = "completed" => Outstanding(r) = {}
    /\ Seal(r, <<Artifact("run_end", NoRun, NoSig, disposition)>>)

Next == \E r \in Runs : \/ Persist(r) \/ StartRoot(r)
                        \/ \E c \in Children : \/ StartChild(c, r) \/ Delegate(r, c)
                                               \/ CompleteDelegation(r, c)
                                               \/ \E v \in Values(c) :
                                                     CompleteByValues(r, c, v[1], v[2])
                        \/ \E d \in Dispositions : Finish(r, d)

Spec == Init /\ [][Next]_vars
---------------------------------------------------------------------------------
(* verify_agent_run_tree.  What is supplied is a cut: the first cut[r]       *)
(* artifacts of each run r, none of it when cut[r] is 0.                     *)

Supplied(cut) == {r \in Runs : cut[r] > 0}
HasStart(cut, r) == cut[r] >= 2
IsChild(cut, r)  == HasStart(cut, r) /\ chain[r][2].ref # NoSig
Parent(r)        == chain[r][2].about

Delegations(cut, r) == Places(r, cut[r], "delegation")
Results(cut, r)     == Places(r, cut[r], "delegation_result")
Closed(cut, r)      == Places(r, cut[r], "run_end") # {}
ClosedAs(cut, r, disposition) == Closed(cut, r) /\ chain[r][cut[r]].disposition = disposition

TreeRoots(cut) == {r \in Supplied(cut) : HasStart(cut, r) /\ ~IsChild(cut, r)}

Declares(cut, p, c) == c \in About(p, cut[p], "delegation")
Binds(cut, c, p)    == IsChild(cut, c) /\ Parent(c) = p

\* The runs within n levels of the root: declared children, and runs that bind
\* a reachable one as their parent.
Reached(cut, root) ==
    LET level[n \in 0..MaxDepth+1] ==
            IF n = 0 THEN {root}
            ELSE level[n-1] \cup
                 {c \in Supplied(cut) : \E p \in level[n-1] : Declares(cut, p, c) \/ Binds(cut, c, p)}
    IN  level

WithinLimits(cut) ==
    LET events == UNION {{r} \X (2..cut[r]) : r \in Runs}
    IN  /\ Supplied(cut) # {}
        /\ Cardinality(Supplied(cut)) <= MaxRuns
        /\ Cardinality(events) <= MaxTreeArtifacts
        /\ \A root \in TreeRoots(cut) :
              TreeRoots(cut) = {root} => Reached(cut, root)[MaxDepth+1] = Reached(cut, root)[MaxDepth]

\* Delegations and results of one run: each child once, results afterwards.
WellDelegated(cut, r) ==
    /\ ~Declares(cut, r, r) /\ ~Binds(cut, r, r)
    /\ \A j, k \in Delegations(cut, r) : chain[r][j].about = chain[r][k].about => j = k
    /\ \A j, k \in Results(cut, r) : chain[r][j].about = chain[r][k].about => j = k
    /\ \A k \in Results(cut, r) :
          \E j \in Delegations(cut, r) : j < k /\ chain[r][j].about = chain[r][k].about

\* No run has two parents, and parent bindings lead up to a root.
Structured(cut) ==
    /\ Cardinality(TreeRoots(cut)) = 1
    /\ \A r \in Supplied(cut) : WellDelegated(cut, r)
    /\ \A p, q \in Supplied(cut), c \in Runs : Declares(cut, p, c) /\ Declares(cut, q, c) => p = q
    /\ \A root \in TreeRoots(cut) : Supplied(cut) \subseteq Reached(cut, root)[MaxDepth]

\* The edges, each a delegation <<p, k>>.
Edges(cut) == UNION {{p} \X Delegations(cut, p) : p \in Supplied(cut)}

Child(e) == chain[e[1]][e[2]].about

Binding(cut, e) ==
    CASE cut[Child(e)] = 0                                        -> "child_missing"
      [] IsChild(cut, Child(e)) /\ chain[Child(e)][2].ref = e     -> "mutually_bound"
      [] OTHER                                                    -> "unbound"

ResultOf(cut, e) == {k \in Results(cut, e[1]) : k > e[2] /\ chain[e[1]][k].about = Child(e)}

Completion(cut, e) ==
    IF ResultOf(cut, e) = {} THEN "no_result"
    ELSE LET result == chain[e[1]][CHOOSE k \in ResultOf(cut, e) : \A j \in ResultOf(cut, e) : k <= j]
         IN  IF ~Closed(cut, Child(e)) THEN "result_unresolved"
             ELSE IF /\ result.ref = <<Child(e), cut[Child(e)]>>
                     /\ result.disposition = chain[Child(e)][cut[Child(e)]].disposition
                  THEN "result_bound" ELSE "result_mismatch"

\* A child whose parent, supplied or not, declares no such delegation.
Strays(cut) == {c \in Supplied(cut) : IsChild(cut, c) /\ ~Declares(cut, Parent(c), c)}

\* Mutant: a closed parent whose child was left out is only open.
Withheld_Ignored(cut, e) == Completion(cut, e) = "result_unresolved" /\ cut[Child(e)] > 0

Withheld(cut, e) ==
    \/ Completion(cut, e) = "result_unresolved"
    \/ ClosedAs(cut, e[1], "completed") /\ "child_missing" = Binding(cut, e)

TreeVerdict(cut) ==
    IF \/ ~WithinLimits(cut)
       \/ ~Structured(cut)
       \/ Strays(cut) # {}
       \/ \E e \in Edges(cut) :
             \/ Binding(cut, e) = "unbound" \/ Completion(cut, e) = "result_mismatch"
             \/ Withheld(cut, e)
             \/ Completion(cut, e) = "no_result" /\ ClosedAs(cut, e[1], "completed")
    THEN "tree_invalid"
    ELSE IF /\ \A r \in Supplied(cut) : Closed(cut, r)
            /\ \A e \in Edges(cut) : Binding(cut, e) = "mutually_bound" /\ Completion(cut, e) = "result_bound"
         THEN "tree_finalized"
         ELSE "tree_open"
---------------------------------------------------------------------------------
(* What a cut is, told without the verifier: by comparing it with the runs.  *)

Cuts == LET longest == CHOOSE n \in {Size(r) : r \in Runs} : \A r \in Runs : Size(r) <= n
        IN  {cut \in [Runs -> 0..longest] : \A r \in Runs : cut[r] <= Size(r)}

EventsOf(cut) == UNION {{r} \X (2..cut[r]) : r \in Runs}

DelegationsTo(cut, c) ==
    {e \in EventsOf(cut) : chain[e[1]][e[2]].type = "delegation" /\ chain[e[1]][e[2]].about = c}

\* Beyond the limits of a tree: runs, events, generations.
TooLarge(cut) ==
    LET supplied == {r \in Runs : cut[r] > 0}
    IN  \/ Cardinality(supplied) > MaxRuns
        \/ Cardinality(EventsOf(cut)) > MaxTreeArtifacts
        \/ \E line \in [1..MaxDepth+2 -> supplied] :
               \A i \in 1..MaxDepth+1 : line[i+1] \in Children /\ chain[line[i+1]][2].about = line[i]

\* The result at <<p, k>> tells how its child ended, and the end is there.
Answers(cut, p, k) ==
    LET result == chain[p][k]
        c == result.about
    IN  /\ cut[c] = Size(c) /\ Ended(c)
        /\ result.ref = RunEnd(c) /\ result.disposition = chain[c][Size(c)].disposition

\* One root and its descendants; no more than one delegation of any child; each
\* child with the delegation it was started for, each result with the run_end it
\* reports; within the limits.
Consistent(cut) ==
    LET supplied == {r \in Runs : cut[r] > 0}
    IN  /\ Cardinality(supplied \cap Roots) = 1
        /\ \A r \in supplied : cut[r] >= 2
        /\ \A c \in Children : Cardinality(DelegationsTo(cut, c)) <= 1
        /\ \A c \in supplied \cap Children : chain[c][2].ref \in DelegationsTo(cut, c)
        /\ \A p \in supplied : \A k \in Places(p, cut[p], "delegation_result") : Answers(cut, p, k)
        /\ ~TooLarge(cut)

\* Every run is there to its end, with every delegation's child and result.
Whole(cut) ==
    \A r \in Runs : cut[r] > 0 =>
       /\ Ended(r) /\ cut[r] = Size(r)
       /\ Outstanding(r) = {}

\* The types of the variables; nothing follows a run_end (_ensure_open).
TypeOK ==
    /\ \A r \in Runs : \A k \in 1..Size(r) :
          /\ chain[r][k].type \in {"control", "run_start", "delegation", "delegation_result", "run_end"}
          /\ chain[r][k].about \in Runs \cup {NoRun}
          /\ chain[r][k].disposition \in Dispositions \cup {"none"}
          /\ chain[r][k].type = "run_end" => k = Size(r)
    /\ persisted \in [Runs -> Nat]
    /\ \A r \in Runs : persisted[r] <= Size(r)

\* The verdict on every selection of prefixes: tree_invalid exactly for those
\* that lack what they refer to, tree_finalized exactly for those that are whole
\* (verify_agent_run_tree; the structural findings, edges and decision).  The
\* callbacks have no part in it, so it is enough to look when none is due.
CutVerdict ==
    persisted = [r \in Runs |-> Size(r)] =>
    \A cut \in Cuts :
       TreeVerdict(cut) = IF ~Consistent(cut) THEN "tree_invalid"
                          ELSE IF Whole(cut) THEN "tree_finalized" ELSE "tree_open"

\* What on_artifact_sealed has been given of a tree within the limits, once its
\* root has started, verifies at every moment of a crash, but for three: a run
\* (the root included) of which only the Control Artifact was delivered, a result
\* delivered before the run_end it reports or with other values than the child's
\* (start_child and complete_delegation look at the run, not at its callbacks),
\* and an id the caller chose for two delegations.
PersistedTreeVerifies ==
    LET halfStarted == \E r \in Runs : persisted[r] = 1
        resultAhead == \E p \in Runs : \E k \in Places(p, persisted[p], "delegation_result") :
                          ~Answers(persisted, p, k)
        idTwice == \E c \in Children : Cardinality(DelegationsTo(persisted, c)) > 1
    IN  (\E root \in Roots : persisted[root] > 0) /\ ~TooLarge(persisted) =>
           (TreeVerdict(persisted) = "tree_invalid" <=> halfStarted \/ resultAhead \/ idTwice)

\* A finalized tree stays one: no later callback of any of its runs changes the
\* verdict (finish, delegate and start_child refuse what would).
FinalizedIsFinal ==
    [][TreeVerdict(persisted) = "tree_finalized" => TreeVerdict(persisted)' = "tree_finalized"]_vars
================================================================================
