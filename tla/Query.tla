------------------------------- MODULE Query -------------------------------
(***************************************************************************)
(* `siso query digraph`, `commands`, `targets` and `rule`                 *)
(* (src/subcmd/query):                                                     *)
(* each loads build.ninja and walks the build graph depth-first from the  *)
(* requested targets (or the roots), printing as it goes, with a `seen`   *)
(* set so that no node is walked twice.                                   *)
(*                                                                         *)
(* The walks are sequential and deterministic: each is a RECURSIVE        *)
(* operator over the graph, threading the seen set and the printed lines  *)
(* as the Go code threads g.seen and stdout.  A run picks a graph and a   *)
(* command line and prints; the properties compare the output with a      *)
(* reference computed from the graph's reachability (Graphs).             *)
(*                                                                         *)
(* A graph has nodes 1..N and a node's inputs are larger nodes, so it is  *)
(* acyclic, as a loaded manifest's is.  Each node is built by at most one *)
(* edge: one with inputs, or an input-less edge (leafEdge); the others    *)
(* are source files.  An input is explicit ("in") or order-only ("oo").   *)
(***************************************************************************)
EXTENDS Integers, Sequences, SequencesExt, FiniteSets

LOCAL G == INSTANCE Graphs

CONSTANTS
    N,          \* nodes
    Commands,   \* the subcommands a run may be: "digraph", "commands", "targets", "rule"
    ArgChoices, \* command-line targets: sequences of nodes
    Depths,     \* values of targets -depth
    Labels      \* input kinds a graph may use: "in", "oo"

Nodes == 1..N
Pairs == {<<t, u>> \in Nodes \X Nodes : t < u}
Rules == {"cc", "link"}

VARIABLES
    lab,        \* <<t, u>> -> "none", or how u is an input of t's edge
    leafEdge,   \* nodes built by an edge without inputs
    ruleOf,     \* node -> its edge's rule name
    cmd,        \* the subcommand
    args,       \* its targets
    orderOnly,  \* digraph -order_only
    depth,      \* targets -depth
    all,        \* targets -all
    rule,       \* targets -rule: "none" (not given) or the rule name
    binding,    \* rule -binding is given
    rootOrder,  \* state.RootNodes(), in its order
    out,        \* the printed lines
    done        \* the run has printed

queryVars == <<lab, leafEdge, ruleOf, cmd, args, orderOnly, depth, all, rule, binding, rootOrder, out, done>>

\* edge.Inputs() and edge.TriggerInputs(), in manifest order.
Inputs(t) == SetToSortSeq({u \in Nodes : t < u /\ lab[<<t, u>>] # "none"}, <)
TriggerInputs(t) == SetToSortSeq({u \in Nodes : t < u /\ lab[<<t, u>>] = "in"}, <)

\* node.InEdge() exists.
HasEdge(t) == Inputs(t) # <<>> \/ t \in leafEdge

\* state.RootNodes(): nodes no edge uses as an input.
Roots == {t \in Nodes : \A s \in Nodes : s < t => lab[<<s, t>>] = "none"}

\* state.Targets(args): the named nodes, or the roots for none.
TargetNodes == IF args = <<>> THEN rootOrder ELSE args

----------------------------------------------------------------------------
(* digraph.Traverse (deps.go lines 363-394): a node is printed after its  *)
(* inputs, as "t in1 in2 ..." or, without an edge, "t".                   *)

\* Mutant: -order_only read the wrong way round.
DgInputsSwapped(t) == IF orderOnly THEN TriggerInputs(t) ELSE Inputs(t)

\* -order_only (default true): edge.Inputs(), else edge.TriggerInputs().
DgInputs(t) == IF orderOnly THEN Inputs(t) ELSE TriggerInputs(t)

RECURSIVE DgVisit(_, _), DgVisitAll(_, _)
DgVisit(t, st) ==
    IF t \in st.seen THEN st
    ELSE LET s1 == [st EXCEPT !.seen = @ \cup {t}]
             ins == DgInputs(t)
         IN IF ~HasEdge(t)
               THEN [s1 EXCEPT !.out = Append(@, <<t>>)]
               ELSE LET s2 == DgVisitAll(ins, s1)
                    IN [s2 EXCEPT !.out = Append(@, <<t>> \o ins)]
DgVisitAll(s, st) ==
    IF s = <<>> THEN st ELSE DgVisitAll(Tail(s), DgVisit(Head(s), st))

\* Mutant: a node is walked without consulting seen.
RECURSIVE CmVisitNoSeen(_, _), CmVisitAllNoSeen(_, _)
CmVisitNoSeen(t, st) ==
    IF ~HasEdge(t) THEN st
    ELSE LET s2 == CmVisitAllNoSeen(Inputs(t), st)
         IN [s2 EXCEPT !.out = Append(@, <<t>>)]
CmVisitAllNoSeen(s, st) ==
    IF s = <<>> THEN st ELSE CmVisitAllNoSeen(Tail(s), CmVisitNoSeen(Head(s), st))

(* commandsGraph.Traverse (commands.go lines 98-120): a node's command is *)
(* printed after its inputs'; a node without an edge prints nothing.      *)
RECURSIVE CmVisit(_, _), CmVisitAll(_, _)
CmVisit(t, st) ==
    IF t \in st.seen THEN st
    ELSE LET s1 == [st EXCEPT !.seen = @ \cup {t}]
         IN IF ~HasEdge(t) THEN s1
            ELSE LET s2 == CmVisitAll(Inputs(t), s1)
                 IN [s2 EXCEPT !.out = Append(@, <<t>>)]
CmVisitAll(s, st) ==
    IF s = <<>> THEN st ELSE CmVisitAll(Tail(s), CmVisit(Head(s), st))

(* targetsGraph.Traverse (targets.go lines 147-180): a line <<node,       *)
(* indent>>; with -rule the node is collected instead; inputs are walked  *)
(* unless the depth is reached (and -all is not given).                   *)

\* Mutant: -all does not lift the depth limit.
DepthStopsAll(d) == d = 1

DepthStops(d) == ~all /\ d = 1

RECURSIVE TgVisit(_, _, _, _), TgVisitAll(_, _, _, _)
TgVisit(n, d, ind, st) ==
    IF n \in st.seen THEN st
    ELSE LET s1 == [st EXCEPT !.seen = @ \cup {n}]
         IN IF ~HasEdge(n)
               THEN IF rule = "" THEN [s1 EXCEPT !.ruleTargets = @ \cup {n}] ELSE s1
               ELSE LET s2 == CASE rule # "none" ->
                                     IF rule = ruleOf[n]
                                        THEN [s1 EXCEPT !.ruleTargets = @ \cup {n}]
                                        ELSE s1
                                [] all -> [s1 EXCEPT !.out = Append(@, <<n, 0>>)]
                                [] OTHER -> [s1 EXCEPT !.out = Append(@, <<n, ind>>)]
                    IN IF DepthStops(d) THEN s2
                       ELSE TgVisitAll(Inputs(n), d - 1, ind + 1, s2)
TgVisitAll(s, d, ind, st) ==
    IF s = <<>> THEN st ELSE TgVisitAll(Tail(s), d, ind, TgVisit(Head(s), d, ind, st))

\* Sorted -rule targets, one line each (targets.go lines 126-135).
RuleLines(st) == [k \in 1..Cardinality(st.ruleTargets) |->
                    <<SetToSortSeq(st.ruleTargets, <)[k], 0>>]

Empty == [seen |-> {}, out |-> <<>>, ruleTargets |-> {}]

(* ruleCommand.run (rule.go lines 65-133): no walk, one entry per target, *)
(* repeats included: <<t, 0>> for "no rule to build t", <<t, 1>> for the  *)
(* -binding value, else <<t>> followed by the first output of each edge  *)
(* that uses t, which in these graphs is the node that edge builds.      *)
Users(t) == SetToSortSeq({s \in Nodes : s < t /\ lab[<<s, t>>] # "none"}, <)

RuleLine(t) == CASE ~HasEdge(t) -> <<t, 0>>
                 [] binding -> <<t, 1>>
                 [] OTHER -> <<t>> \o Users(t)

----------------------------------------------------------------------------
\* An input-less edge only where there are no inputs; order-only inputs
\* only matter to digraph, rule names only to targets -rule.
Init ==
    /\ cmd \in Commands
    /\ lab \in [Pairs -> {"none"} \cup (IF cmd = "digraph" THEN Labels ELSE Labels \cap {"in"})]
    /\ leafEdge \in SUBSET {t \in Nodes : \A u \in Nodes : t < u => lab[<<t, u>>] = "none"}
    /\ args \in IF cmd = "targets" THEN {<<>>} ELSE ArgChoices
    /\ orderOnly \in IF cmd = "digraph" THEN BOOLEAN ELSE {TRUE}
    /\ all \in IF cmd = "targets" THEN BOOLEAN ELSE {FALSE}
    /\ rule \in IF cmd = "targets" /\ ~all THEN {"none", "", "cc"} ELSE {"none"}
    /\ binding \in IF cmd = "rule" THEN BOOLEAN ELSE {FALSE}
    /\ ruleOf \in IF rule # "none" THEN [Nodes -> Rules] ELSE {[t \in Nodes |-> "cc"]}
    \* -rule sets depth to 0 (targets.go lines 96-98)
    /\ depth \in IF cmd = "targets" /\ rule = "none" THEN Depths ELSE {0}
    /\ rootOrder \in IF cmd = "targets" \/ args = <<>> THEN SetToSeqs(Roots) ELSE {<<>>}
    /\ out = <<>>
    /\ done = FALSE

\* The subcommand's run: walk every target in order, then print the
\* collected -rule targets.
Run ==
    /\ ~done
    /\ out' = CASE cmd = "digraph" -> DgVisitAll(TargetNodes, Empty).out
                [] cmd = "commands" -> CmVisitAll(TargetNodes, Empty).out
                [] cmd = "targets" ->
                      LET st == TgVisitAll(rootOrder, depth, 0, Empty)
                      IN IF rule # "none" THEN RuleLines(st) ELSE st.out
                [] cmd = "rule" -> [k \in DOMAIN TargetNodes |-> RuleLine(TargetNodes[k])]
    /\ done' = TRUE
    /\ UNCHANGED <<lab, leafEdge, ruleOf, cmd, args, orderOnly, depth, all, rule, binding, rootOrder>>

Printed ==
    /\ done
    /\ UNCHANGED queryVars

Next == Run \/ Printed

Spec == Init /\ [][Next]_queryVars

----------------------------------------------------------------------------
(* References.                                                            *)

\* The build graph's input relation, as the walk follows it.
Walked(t, u) == t < u /\ lab[<<t, u>>] \in IF cmd = "digraph" /\ ~orderOnly THEN {"in"}
                                           ELSE {"in", "oo"}
Graph == [node |-> Nodes, edge |-> {<<t, u>> \in Pairs : Walked(t, u)}]

\* Nodes reachable from S.
Reach(S) == LET C == G!ConnectionsIn(Graph)
            IN S \cup {u \in Nodes : \E s \in S : C[s, u]}

\* Nodes at most k edges below a root.
RECURSIVE WithinDepth(_)
WithinDepth(k) ==
    IF k <= 1 THEN Roots
    ELSE LET W == WithinDepth(k - 1)
         IN W \cup {u \in Nodes : \E t \in W : Walked(t, u)}

Heads == {out[k][1] : k \in DOMAIN out}
Once == \A j, k \in DOMAIN out : out[j][1] = out[k][1] => j = k
Line(t) == CHOOSE k \in DOMAIN out : out[k][1] = t

TypeOK ==
    /\ lab \in [Pairs -> {"none", "in", "oo"}]
    /\ leafEdge \subseteq Nodes
    /\ ruleOf \in [Nodes -> Rules]
    /\ cmd \in Commands /\ args \in ArgChoices \cup {<<>>}
    /\ orderOnly \in BOOLEAN /\ all \in BOOLEAN /\ done \in BOOLEAN /\ binding \in BOOLEAN
    /\ depth \in Depths \cup {0} /\ rule \in {"none", "", "cc"}
    /\ out \in Seq(Seq(Nodes) \cup (Nodes \X Nat))

\* `siso query digraph` prints one line for every node reachable from the
\* targets, no node twice, and each line lists exactly the node's inputs
\* (trigger inputs without -order_only), whatever diamonds the graph has.
DigraphComplete ==
    done /\ cmd = "digraph" =>
        /\ Heads = Reach(ToSet(TargetNodes)) /\ Once
        /\ \A k \in DOMAIN out :
              LET t == out[k][1]
              IN out[k] = IF HasEdge(t)
                             THEN <<t>> \o (IF orderOnly THEN Inputs(t) ELSE TriggerInputs(t))
                             ELSE <<t>>

\* `siso query commands` lists "all commands required to rebuild given
\* targets" (its usage) once each, in an order they can be run: every
\* command comes after the commands of its inputs.
CommandsInBuildOrder ==
    done /\ cmd = "commands" =>
        /\ Heads = {t \in Reach(ToSet(TargetNodes)) : HasEdge(t)} /\ Once
        /\ \A k \in DOMAIN out : \A u \in ToSet(Inputs(out[k][1])) :
              HasEdge(u) => Line(u) < k

\* `siso query targets -all` (whatever -depth says) and `-depth 0` list
\* every target with a rule once, and `-rule r` exactly the targets built
\* by r (with `-rule ""`, the source files), sorted.
TargetsListed ==
    done /\ cmd = "targets" /\ (all \/ depth = 0) =>
        /\ Once
        /\ rule = "none" => Heads = {t \in Nodes : HasEdge(t)}
        /\ rule # "none" =>
              Heads = {t \in Nodes : IF HasEdge(t) THEN ruleOf[t] = rule ELSE rule = ""}

\* The -depth flag: "max depth of the targets"; the usage: "prints
\* targets ... in <depth>".  Every target with a rule within -depth of a
\* root is printed.
TargetsWithinDepth ==
    done /\ cmd = "targets" /\ ~all /\ rule = "none" /\ depth > 0 =>
        Heads = {t \in WithinDepth(depth) : HasEdge(t)}

====
