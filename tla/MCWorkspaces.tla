----------------------------- MODULE MCWorkspaces -----------------------------
(* Two Decks on two hosts that share a project directory. *)
EXTENDS Workspaces, TLC

CONSTANTS d1, d2, w1, w2, t1, t2

MCTwoHosts == (d1 :> "h1" @@ d2 :> "h2")

MCFile == w1 :> [tiles |-> {t1}, pinned |-> FALSE, old |-> TRUE]
MCLeft == {MCFile}
MCLeftOrNew == {MCFile, <<>>}

\* Only whether two Decks have one host matters, so they can be exchanged.
MCSymmetry == Permutations({d1, d2})

=============================================================================
