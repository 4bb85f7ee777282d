--------------------------- MODULE CredentialVault ---------------------------
(***************************************************************************)
(* The secrets of the services: the credential store of the system          *)
(* (credential/windows.rs), the references to it in the file of the        *)
(* settings, and the three operations that change both                      *)
(* (controller.rs: persist_credential, remove_credential,                  *)
(* persist_llm_credential; llm_credentials.rs: save_connection).            *)
(*                                                                          *)
(* One of them runs at a time and alone (SettingsPipeline).  Every call of  *)
(* the store and every write of the file may fail and then changes nothing. *)
(***************************************************************************)
EXTENDS Naturals, Sequences, FiniteSets

CONSTANTS
    Headers,            \* credentials of request headers
    MaxVaultOperations  \* bound: operations; their numbers are the secrets they write

VARIABLES
    vault,          \* the credential store: id -> secret, 0 when there is none
    referenced,     \* the ids the file names
    asked,          \* the secrets the accepted operations leave, as the user sees them
    operation,      \* the operation at work
    made,           \* bound: operations so far
    disturbed       \* a restoring call failed: nothing is promised any more

vaultVars == <<vault, referenced, asked, operation, made, disturbed>>

Deepl   == "deepl"
Primary == "primary"
Ids     == Headers \cup {Deepl, Primary}
Nothing == 0
Resting == [at |-> "idle"]

\* What the updates of an operation make of the secrets; a secret of Nothing removes.
After(updates, secrets) ==
    [id \in Ids |-> IF \E i \in DOMAIN updates : updates[i].id = id
                    THEN updates[CHOOSE i \in DOMAIN updates : updates[i].id = id].secret
                    ELSE secrets[id]]

----------------------------------------
Begin(updates) ==
    /\ operation = Resting /\ made < MaxVaultOperations
    /\ made' = made + 1
    /\ operation' = [at |-> "secrets", updates |-> updates, left |-> updates, previous |-> <<>>]
    /\ UNCHANGED <<vault, referenced, asked, disturbed>>

Update(id, keep) == [id |-> id, secret |-> IF keep THEN made + 1 ELSE Nothing]

\* Saving and removing the key of DeepL; removing one that is not there is not asked of the store.
ChangeDeepl(keep) == Begin(<<Update(Deepl, keep)>>)

\* The key of a model service.
ChangePrimary(keep) == Begin(<<Update(Primary, keep)>>)

\* A connection with the headers of its draft, each of them once.
SaveConnection(headers, kept) ==
    \E order \in [1..Cardinality(headers) -> headers] :
        /\ \A i, j \in DOMAIN order : i # j => order[i] # order[j]
        /\ Begin([i \in DOMAIN order |-> Update(order[i], order[i] \in kept)])

----------------------------------------
Current == Head(operation.left)

\* The store refuses to delete what it does not have; the DeepL operation does not ask.
CanWrite == Current.secret # Nothing \/ vault[Current.id] # Nothing \/ Current.id = Deepl

\* get, then set or delete; the old secret is noted before the write.
WriteSecret ==
    /\ operation.at = "secrets" /\ operation.left # <<>> /\ CanWrite
    /\ vault' = [vault EXCEPT ![Current.id] = Current.secret]
    /\ operation' = [operation EXCEPT
                        !.left = Tail(@),
                        !.previous = Append(@, [id |-> Current.id, secret |-> vault[Current.id]])]
    /\ UNCHANGED <<referenced, asked, made, disturbed>>

\* Mutant: what was written before the secret that failed stays.
AbandonSecret ==
    /\ operation.at = "secrets" /\ operation.left # <<>>
    /\ operation' = [operation EXCEPT !.at = "restore", !.previous = <<>>]
    /\ UNCHANGED <<vault, referenced, asked, made, disturbed>>

SecretFails ==
    /\ operation.at = "secrets" /\ operation.left # <<>>
    /\ operation' = [operation EXCEPT !.at = "restore"]
    /\ UNCHANGED <<vault, referenced, asked, made, disturbed>>

SaveFile ==
    /\ operation.at = "secrets" /\ operation.left = <<>>
    /\ \/ /\ referenced' = {id \in Ids : After(operation.updates, [i \in Ids |->
                                IF i \in referenced THEN 1 ELSE Nothing])[id] # Nothing}
          /\ asked' = After(operation.updates, asked)
          /\ operation' = Resting
       \/ /\ operation' = [operation EXCEPT !.at = "restore"]
          /\ UNCHANGED <<referenced, asked>>
    /\ UNCHANGED <<vault, made, disturbed>>

\* The secrets are put back, the last one first; errors are ignored.
Restore ==
    /\ operation.at = "restore" /\ operation.previous # <<>>
    /\ LET n == Len(operation.previous)  old == operation.previous[n] IN
       /\ \/ vault' = [vault EXCEPT ![old.id] = old.secret] /\ UNCHANGED disturbed
          \/ UNCHANGED vault /\ disturbed' = TRUE
       /\ operation' = [operation EXCEPT !.previous = SubSeq(@, 1, n - 1)]
    /\ UNCHANGED <<referenced, asked, made>>

GiveUp ==
    /\ operation.at = "restore" /\ operation.previous = <<>>
    /\ operation' = Resting
    /\ UNCHANGED <<vault, referenced, asked, made, disturbed>>

----------------------------------------
VaultInit ==
    /\ vault = [id \in Ids |-> Nothing] /\ referenced = {} /\ asked = vault
    /\ operation = Resting /\ made = 0 /\ disturbed = FALSE

VaultNext ==
    \/ \E keep \in BOOLEAN : ChangeDeepl(keep) \/ ChangePrimary(keep)
    \/ \E headers \in SUBSET Headers, kept \in SUBSET Headers : SaveConnection(headers, kept)
    \/ WriteSecret \/ SecretFails \/ SaveFile \/ Restore \/ GiveUp

VaultSpec == VaultInit /\ [][VaultNext]_vaultVars

----------------------------------------
(* Properties.                                                               *)

\* Secrets and references change together or not at all: between operations the store holds
\* exactly what the accepted ones left and the file names exactly what the store holds,
\* whichever call of an operation failed, as long as the restoring calls work.
SecretsFollowSettings ==
    operation = Resting /\ ~disturbed =>
        vault = asked /\ referenced = {id \in Ids : vault[id] # Nothing}
========================================
