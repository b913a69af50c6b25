----------------------------- MODULE MCPgStore ------------------------------
(* Small instances of PgStore for TLC. *)
EXTENDS PgStore, TLC

CONSTANTS admin

OneGuard == {{admin}}

\* SetUserDisabled, or a disable or an enable under cover, of any account.
DisableCalls(privileged) ==
    {[op |-> "disable", id |-> id, from |-> RoleName, role |-> NoRole,
      disabled |-> disabled, privileged |-> privileged] : id \in Account, disabled \in BOOLEAN}

Unguarded == DisableCalls({})

UnderCover == DisableCalls({admin})

Either == Unguarded \cup UnderCover

Symmetric == Permutations(Tx) \cup Permutations(Hash)
=============================================================================
