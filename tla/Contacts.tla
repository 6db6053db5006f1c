------------------------------- MODULE Contacts -------------------------------
(***************************************************************************)
(* The contacts of src/src/service/contacts.js: a process reads the file   *)
(* when getContacts is first called and writes all it holds at each change *)
(* (src/src/utils/json-file.js, readJson and writeJson).  Every method is  *)
(* synchronous, and the file is replaced by one rename.                    *)
(***************************************************************************)
EXTENDS FiniteSets, Functions

CONSTANTS
  Holders,      \* processes that use contacts
  Aliases,
  BadAliases,   \* aliases of other characters
  Details       \* what add is given

ASSUME ContactsAssumption == BadAliases \subseteq Aliases

VARIABLES
  holding,      \* processes that have loaded the contacts
  contacts,     \* what each of them holds
  contactsFile, \* CONTACTS_FILE
  unsaved,      \* history: aliases whose last change by a process was not written
  stale         \* history: processes since whose last read or write another wrote

coVars == <<holding, contacts, contactsFile, unsaved, stale>>

Contact == [details : Details, used : BOOLEAN]
Books == UNION {[S -> Contact] : S \in SUBSET (Aliases \ BadAliases)}
NoContacts == [a \in {} |-> 0]

CoTypeOK ==
  /\ holding \subseteq Holders /\ stale \subseteq holding
  /\ contacts \in [Holders -> Books] /\ contactsFile \in Books
  /\ unsaved \in [Holders -> SUBSET Aliases]

CoInit ==
  /\ holding = {} /\ stale = {} /\ contacts = [h \in Holders |-> NoContacts]
  /\ contactsFile = NoContacts /\ unsaved = [h \in Holders |-> {}]

\* book, but for the aliases that are as in other.
Except(book, aliases, other) ==
  [a \in (DOMAIN book \ aliases) \cup (DOMAIN other \cap aliases) |->
     IF a \in aliases THEN other[a] ELSE book[a]]

\* Mutant: what the file holds is not read.
LoadNothing == NoContacts

\* _loadContacts
LoadContacts == contactsFile

\* getContacts, for the first time.
GetContacts(h) ==
  /\ h \notin holding /\ holding' = holding \cup {h}
  /\ contacts' = [contacts EXCEPT ![h] = LoadContacts]
  /\ UNCHANGED <<contactsFile, unsaved, stale>>

\* _saveContacts after the change of each alias: it throws for those not in done,
\* and is as it was left by the last that succeeds.
SaveContacts(h, book, aliases) ==
  \E done \in SUBSET aliases :
    /\ contacts' = [contacts EXCEPT ![h] = book]
    /\ IF done = {}
       THEN /\ unsaved' = [unsaved EXCEPT ![h] = @ \cup aliases]
            /\ UNCHANGED <<contactsFile, stale>>
       ELSE \E late \in SUBSET (aliases \ done) :
              /\ contactsFile' = Except(book, late, contacts[h])
              /\ unsaved' = [unsaved EXCEPT ![h] = late]
              /\ stale' = holding \ {h}
    /\ UNCHANGED holding

\* add: lastUsed is reset.
Added(book, data) ==
  Except(book, DOMAIN data, [a \in DOMAIN data |-> [details |-> data[a], used |-> FALSE]])

\* import: one add after the other; an alias of other characters is refused.  An entry that
\* is null ends the call with an exception, which is an import of the entries before it.
Import(h, data) ==
  LET accepted == DOMAIN data \ BadAliases IN
  /\ h \in holding /\ accepted # {}
  /\ SaveContacts(h, Added(contacts[h], Restrict(data, accepted)), accepted)

Add(h, alias, details) == Import(h, [a \in {alias} |-> details])

Remove(h, alias) ==
  /\ h \in holding /\ alias \in DOMAIN contacts[h]
  /\ SaveContacts(h, Except(contacts[h], {alias}, NoContacts), {alias})

Touch(h, alias) ==
  /\ h \in holding /\ alias \in DOMAIN contacts[h]
  /\ SaveContacts(h, [contacts[h] EXCEPT ![alias].used = TRUE], {alias})

EndHolder(h) ==
  /\ h \in holding /\ holding' = holding \ {h} /\ stale' = stale \ {h}
  /\ contacts' = [contacts EXCEPT ![h] = NoContacts] /\ unsaved' = [unsaved EXCEPT ![h] = {}]
  /\ UNCHANGED contactsFile

CoStep(h) ==
  \/ GetContacts(h) \/ EndHolder(h)
  \/ \E alias \in Aliases : \/ \E d \in Details : Add(h, alias, d)
                            \/ Remove(h, alias) \/ Touch(h, alias)
  \/ \E S \in SUBSET Aliases : \E data \in [S -> Details] : Import(h, data)

CoNext == \E h \in Holders : CoStep(h)
CoSpec == CoInit /\ [][CoNext]_coVars

----------------------------------------------------------------------------
(* Properties. *)

\* A process writes all it holds, so that what it holds must be what is stored:
\* unless another process has written since, the two differ only in aliases whose
\* last change could not be written, however many adds of an import failed.
HeldIsStored ==
  \A h \in holding \ stale :
    Except(contacts[h], unsaved[h], NoContacts) = Except(contactsFile, unsaved[h], NoContacts)
=============================================================================
