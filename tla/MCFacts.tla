------------------------------- MODULE MCFacts -------------------------------
(* Finite instances of Facts.                                              *)
EXTENDS Facts, TLC

MCPeople == {"ann", "bot"}
MCBots == {"bot"}

\* A source file, and a manifest listed after it.
MCFiles == {1, 2}
MCManifests == {2}
MCChanges ==
    {(1 :> "shown"), (1 :> "shown") @@ (2 :> "shown"), (2 :> "withheld")}

\* The second entry takes the manifest away from the first.
MCRules ==
    <<[files |-> {1, 2}, teams |-> {"core"}, people |-> {"ann"}],
      [files |-> {2}, teams |-> {"supply"}, people |-> {"bot"}]>>
=============================================================================
