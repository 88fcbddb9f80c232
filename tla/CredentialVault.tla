--------------------------- MODULE CredentialVault ---------------------------
(***************************************************************************)
(* What the hosted connection store promises about credentials, without    *)
(* requests, statements or Google: a vault per connection.  A vault is     *)
(* opened once, belongs to the one account its own consent named, holds    *)
(* credentials of that account only, and once closed is empty for good.    *)
(***************************************************************************)
CONSTANTS Vaults, Owners, None

VARIABLES
  opened,   \* vaults ever opened
  open,     \* vaults open now
  owner,    \* the account a vault belongs to, None before it is named
  held      \* whose credential the vault holds, None when it is empty

vaultVars == <<opened, open, owner, held>>

VaultInit ==
  /\ opened = {}
  /\ open = {}
  /\ owner = [v \in Vaults |-> None]
  /\ held = [v \in Vaults |-> None]

Open(v) ==
  /\ v \notin opened
  /\ opened' = opened \cup {v}
  /\ open' = open \cup {v}
  /\ UNCHANGED <<owner, held>>

(* The consent may come back after the vault was closed: it still belongs  *)
(* to nobody else.                                                         *)
Name(v, o) ==
  /\ v \in opened
  /\ owner[v] = None
  /\ owner' = [owner EXCEPT ![v] = o]
  /\ UNCHANGED <<opened, open, held>>

Put(v) ==
  /\ v \in open
  /\ owner[v] # None
  /\ held' = [held EXCEPT ![v] = owner[v]]
  /\ UNCHANGED <<opened, open, owner>>

Drop(v) ==
  /\ held' = [held EXCEPT ![v] = None]
  /\ UNCHANGED <<opened, open, owner>>

Close(v) ==
  /\ open' = open \ {v}
  /\ held' = [held EXCEPT ![v] = None]
  /\ UNCHANGED <<opened, owner>>

VaultNext == \E v \in Vaults :
  \/ Open(v) \/ Put(v) \/ Drop(v) \/ Close(v)
  \/ \E o \in Owners : Name(v, o)

VaultSpec == VaultInit /\ [][VaultNext]_vaultVars

=============================================================================
