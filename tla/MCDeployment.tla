---------------------------- MODULE MCDeployment ----------------------------
(* A small instance of Deployment for TLC.                                  *)
EXTENDS Deployment, TLC

CONSTANTS p1, p2, t1, t2

MCCreates == [l1 |-> {"users"}, l2 |-> {"rankings"}, base |-> {"users", "rankings"},
              column |-> {"column"}, fill |-> {}, check |-> {"check"},
              again |-> {"column"}, orphan |-> {"index of prizes"}]
MCNeeds == [l1 |-> {}, l2 |-> {"users"}, base |-> {}, column |-> {"rankings"},
            fill |-> {"column"}, check |-> {"column"},
            again |-> {"rankings"}, orphan |-> {"prizes"}]
MCAlters == [l1 |-> {}, l2 |-> {"users"}, base |-> {}, column |-> {"rankings"},
             fill |-> {}, check |-> {"rankings"}, again |-> {"rankings"},
             orphan |-> {"prizes"}]

(* Production before the baseline; a release with one migration and one     *)
(* with three. Of those that no database takes the audit sees the one whose *)
(* table nobody creates, but not a column that is never added or added      *)
(* twice.                                                                   *)
MCDirectory == [old |-> <<"l1", "l2">>, r1 |-> <<"base", "column">>,
                r2 |-> <<"base", "column", "fill", "check">>,
                orphan |-> <<"base", "orphan">>, hole |-> <<"base", "check">>,
                twice |-> <<"base", "column", "again">>]
MCCatalogue == <<t1, t2>>
MCAccepted == {{}, {"index"}}
MCUnknown == {{"stray"}}

(* Two pipelines; of a release that no database takes one at most, and with *)
(* no build under way. Or a dump and one pipeline, or a bootstrap by itself. *)
Piping == {p \in Pipes : ~At(p, "idle")}
Archived == dump.file # None
Untaken == {"hole", "twice"}
OneScene ==
    /\ Cardinality({p \in Pipes : job[p].rel \in Untaken}) <= 1
    /\ codeDir \in Untaken => ~Archived /\ ~queued /\ image = None
    /\ boot.runs > 0 => Piping = {} /\ ~Archived /\ ~queued /\ image = None
                        /\ db.live = Empty
    /\ Archived => Cardinality(Piping) <= 1 /\ ~queued /\ image = None
    /\ \A t \in Range(Catalogue) : teams[t].home + teams[t].away > 0 => boot.runs > 0

Interchangeable == Permutations(Pipes)
=============================================================================
