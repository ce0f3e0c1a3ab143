--------------------------- MODULE MCLoginToToken ---------------------------
(* States, attestation keys and symmetry for TLC's run of LoginToToken. *)
EXTENDS LoginToToken, TLC

CONSTANTS k1

\* Each login has a state of its own, named like it.
MCStateOf == [l \in Logins |-> l]

MCCnfKeys == [cl \in Clients |-> {k1}]

\* What a callback may still do to the stores: nothing once it is past them.
CallView(k) ==
    <<call[k].login,
      IF call[k].stage \in {"idle", "verify", "pop", "store", "create"}
      THEN call[k].stage ELSE "past the stores">>

\* States that differ only in how a callback ends after its last store call, or in
\* the history of saved requests, have the same steps of everything else: neither
\* the token endpoint nor a property of this run looks at that.
View == <<parCache, pusher, stateCache, login, correlations, walletTx,
          [k \in Calls |-> CallView(k)],
          issued, authCodeCache, preAuthCache, refreshTokenCache, sessions, pc, req>>

\* The clients have the same attestation key and the same obligations.
Symmetry == Permutations(Clients) \cup Permutations(Calls) \cup Permutations(Reqs)
=============================================================================
