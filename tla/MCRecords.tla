------------------------------ MODULE MCRecords ------------------------------
(* Accounts, Passkeys and Content keep different tables and share only the    *)
(* pool of requests: each is explored while the others rest.                  *)
EXTENDS Accounts, Passkeys, Content, TLC

VARIABLE part   \* the component this behaviour is about

RecordsInit ==
    /\ HandlersInit /\ AccountsInit /\ PasskeysInit /\ ContentInit
    /\ \/ part = "Accounts" /\ ~counting /\ ids = 0 /\ table = "blogs"
       \/ part = "Passkeys" /\ ids = 0 /\ table = "blogs"
       \/ part = "Content" /\ ~counting

RecordsNext ==
    /\ UNCHANGED part
    /\ \/ part = "Accounts" /\ AccountsNext /\ UNCHANGED <<passkeysVars, contentVars>>
       \/ part = "Passkeys" /\ PasskeysNext /\ UNCHANGED <<accountsVars, contentVars>>
       \/ part = "Content" /\ ContentNext /\ UNCHANGED <<accountsVars, passkeysVars>>

RecordsSpec == RecordsInit /\ [][RecordsNext]_<<req, part, accountsVars, passkeysVars, contentVars>>

(* Types, of whichever component is moving.                                  *)
TypesOK ==
    /\ part = "Accounts" => AccountsTypeOK
    /\ part = "Passkeys" => PasskeysTypeOK
    /\ part = "Content" => ContentTypeOK

Symmetry == Permutations(Reqs)
=============================================================================
