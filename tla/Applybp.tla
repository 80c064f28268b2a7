-------------------------------- MODULE Applybp --------------------------------
(***************************************************************************)
(* flon.applybp: applications of block producers.  An owner applies and    *)
(* updates its profile, the administrator writes profiles for others and   *)
(* sets their status.                                                      *)
(***************************************************************************)
EXTENDS Tables

CONSTANTS
  Names,      \* account names
  Nobody,     \* the empty name
  Admins,     \* arguments of init
  Infos       \* what a profile may say

VARIABLES
  accounts,   \* the accounts that exist on the chain
  admin,      \* of the global singleton
  producers   \* table producers, by owner

vars == <<accounts, admin, producers>>

Status == {"enable", "disable"}

ProducerRow == [status : Status, info : Infos]

TypeOK == admin \in Names \cup {Nobody} /\ IsTable(producers, Names, ProducerRow)

\* `init`
SetAdmin(new_admin) ==
  /\ new_admin \in accounts
  /\ admin' = new_admin
  /\ UNCHANGED <<accounts, producers>>

HasAdmin == admin \in accounts

\* A mistake: a profile that is written is an application, and starts disabled.
NewRow_Reset(owner, info) == [status |-> "disable", info |-> info]

\* A profile that is there keeps its status.
NewRow(owner, info) ==
  [status |-> IF owner \in DOMAIN producers THEN producers[owner].status ELSE "disable",
   info   |-> info]

_set_producer(owner, info) ==
  /\ owner \in accounts
  /\ producers' = Put(producers, owner, NewRow(owner, info))
  /\ UNCHANGED <<accounts, admin>>

ApplyBp(owner, info)     == owner \notin DOMAIN producers /\ _set_producer(owner, info)
UpdateBp(owner, info)    == owner \in DOMAIN producers /\ _set_producer(owner, info)
AddProducer(owner, info) == HasAdmin /\ _set_producer(owner, info)

SetStatus(owner, status) ==
  /\ HasAdmin
  /\ owner \in DOMAIN producers
  /\ producers[owner].status # status
  /\ status \in Status
  /\ producers' = [producers EXCEPT ![owner].status = status]
  /\ UNCHANGED <<accounts, admin>>

Next ==
  \/ \E a \in Admins : SetAdmin(a)
  \/ \E a \in Names, i \in Infos : ApplyBp(a, i) \/ UpdateBp(a, i) \/ AddProducer(a, i)
  \/ \E a \in Names, s \in Status : SetStatus(a, s)

===============================================================================
