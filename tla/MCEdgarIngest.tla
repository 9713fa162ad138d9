--------------------------- MODULE MCEdgarIngest ---------------------------
(* Small instances of EdgarIngest for TLC: company 11 has the classes 1 and 2, *)
(* company 12 the class 3, company 13 (a foreign filer, no 10-K) the class 4,   *)
(* company 14 the class 5.                                                     *)
EXTENDS EdgarIngest

MCCikOf == 1 :> 11 @@ 2 :> 11 @@ 3 :> 12 @@ 4 :> 13 @@ 5 :> 14

\* Dictionary 2 no longer reads the concept "old" and starts reading "new".
MCProduces == <<{"kept", "old"}, {"kept", "new"}>>
RunOf(fresh, dict, companies) ==
    [fresh |-> fresh, dict |-> dict, staged |-> FALSE, companies |-> companies]
StagedRun(fresh, dict) ==
    [fresh |-> fresh, dict |-> dict, staged |-> TRUE, companies |-> <<>>]

\* A collector, the edgar stage of a force refresh, and a re-ingest of the staged
\* universe with the next dictionary: one after the other and at the same time.
Mixed == "collect" :> RunOf(FALSE, 1, <<13, 11>>)
      @@ "force" :> RunOf(TRUE, 1, <<3, 5, 1>>)
      @@ "reingest" :> StagedRun(TRUE, 2)

\* The same company twice.
Again == "collect" :> RunOf(FALSE, 1, <<12>>) @@ "reingest" :> RunOf(TRUE, 2, <<12>>)
=============================================================================
