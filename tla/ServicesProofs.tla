----------------------------- MODULE ServicesProofs -----------------------------
(***************************************************************************)
(* Proofs about the four contracts of Services, for every value of its     *)
(* constants: the types, one grant a day, gas for every account, and that  *)
(* profiles of block producers are kept.                                   *)
(***************************************************************************)
EXTENDS Services, Sequences, TLAPS

\* From any of these times to the n-th after it, n days go by in whole seconds.
DaysApart(times) ==
  \A i, j \in 1 .. Len(times) :
    i <= j => F!Sec(times[j]) - F!Sec(times[i]) >= DaySeconds * (j - i)

\* The grants of an account are days apart, and its row in the table has the time of the
\* last one.
GrantsAreDated ==
  \A a \in Names :
    /\ Len(granted[a]) > 0 =>
         a \in DOMAIN rows /\ rows[a] = granted[a][Len(granted[a])]
    /\ DaysApart(granted[a])

\* Only accounts have profiles.
ProfilesHaveOwners == DOMAIN producers \subseteq accounts

\* The inductive invariant.
Inv == TypeOK /\ GrantsAreDated /\ EveryAccountHasGas /\ ProfilesHaveOwners

\* The constants, one fact each, for the provers.
LEMMA ConstTypes ==
  /\ FaucetName \in Names /\ Genesis \subseteq Names /\ Admins \subseteq Names
  /\ Grant \in Nat \ {0} /\ Gas \in Nat \ {0} /\ DaySeconds \in Nat \ {0}
  /\ GasQuants \subseteq Int /\ Budget \in Nat
BY ServicesAssumption

-------------------------------------------------------------------------------
(* Clock and gas. *)

\* What is dropped of a time is no second and at most a half, of which there are two.
LEMMA Seconds ==
  \A t \in Nat : F!Sec(t) \in Nat /\ 2 * F!Sec(t) <= t /\ t <= 2 * F!Sec(t) + 1
BY DEF F!Sec

\* A day more, and the days of a number of grants.
LEMMA Days ==
  ASSUME NEW d \in Nat, NEW n \in Nat
  PROVE  d * n \in Nat /\ d * (n + 1) = d * n + d /\ (2 * d) * n = 2 * (d * n)
<1>1. d * n \in Nat
  BY SMT
<1>2. d * (n + 1) = d * n + d
  BY SMT
<1>3. (2 * d) * n = 2 * (d * n)
  BY SMT
<1> QED BY <1>1, <1>2, <1>3

\* A grant a day after the last one, in whole seconds, is as many days after each of the
\* others as it comes after it.
LEMMA NextGrant ==
  ASSUME NEW times \in Seq(Nat), DaysApart(times), NEW t \in Nat,
         Len(times) > 0 => F!Sec(t) - F!Sec(times[Len(times)]) >= DaySeconds
  PROVE  /\ Append(times, t) \in Seq(Nat) /\ DaysApart(Append(times, t))
         /\ Len(Append(times, t)) > 0 /\ Append(times, t)[Len(Append(times, t))] = t
<1> DEFINE n == Len(times)
           u == Append(times, t)
<1>1. /\ n \in Nat /\ u \in Seq(Nat) /\ Len(u) = n + 1 /\ u[n + 1] = t
      /\ \A i \in 1 .. n : u[i] = times[i] /\ times[i] \in Nat
  OBVIOUS
<1>2. ASSUME NEW i \in 1 .. n + 1, NEW j \in 1 .. n + 1, i <= j
      PROVE  F!Sec(u[j]) - F!Sec(u[i]) >= DaySeconds * (j - i)
  <2>1. CASE j # n + 1
    BY <1>1, <1>2, <2>1 DEF DaysApart
  <2>2. CASE i = n + 1
    <3>1. j = i /\ u[i] = t
      BY <1>1, <1>2, <2>2
    <3>2. DaySeconds * 0 = 0 /\ j - i = 0
      BY <3>1, ConstTypes
    <3> QED BY <3>1, <3>2, Seconds
  <2>3. CASE j = n + 1 /\ i # n + 1
    <3>1. i \in 1 .. n /\ n \in 1 .. n /\ i <= n
      BY <1>1, <2>3
    <3>2. F!Sec(times[n]) - F!Sec(times[i]) >= DaySeconds * (n - i)
      BY <3>1 DEF DaysApart
    <3>3. F!Sec(t) - F!Sec(times[n]) >= DaySeconds
      BY <3>1
    <3>4. /\ DaySeconds * (n - i) \in Nat /\ n - i \in Nat /\ DaySeconds \in Nat
          /\ DaySeconds * ((n - i) + 1) = DaySeconds * (n - i) + DaySeconds
      <4>1. n - i \in Nat /\ DaySeconds \in Nat
        BY <1>1, <3>1, ConstTypes
      <4> QED BY <4>1, Days
    <3>5. j - i = (n - i) + 1
      BY <1>1, <2>3
    <3>6. u[j] = t /\ u[i] = times[i]
      BY <1>1, <2>3, <3>1
    <3>7. F!Sec(t) \in Nat /\ F!Sec(times[n]) \in Nat /\ F!Sec(times[i]) \in Nat
      BY <1>1, <3>1, Seconds
    <3> HIDE DEF n, u
    <3> QED BY <3>2, <3>3, <3>4, <3>5, <3>6, <3>7
  <2> QED BY <2>1, <2>2, <2>3
<1>3. DaysApart(u)
  BY <1>1, <1>2 DEF DaysApart
<1> QED BY <1>1, <1>3

\* An account that is created gets its gas, and no other loses any.
LEMMA GasFor ==
  ASSUME gas \in [DOMAIN gas -> Nat], EveryAccountHasGas, NEW n \in Names, NEW q \in Nat, q > 0,
         accounts' = accounts \cup {n}, gas' = F!GasBought(gas, n, q)
  PROVE  gas' \in [DOMAIN gas' -> Nat] /\ EveryAccountHasGas'
<1>1. /\ DOMAIN gas' = DOMAIN gas \cup {n}
      /\ \A k \in DOMAIN gas' :
           gas'[k] = IF k = n THEN q + (IF k \in DOMAIN gas THEN gas[k] ELSE 0) ELSE gas[k]
      /\ gas' = [k \in DOMAIN gas' |-> gas'[k]]
  BY DEF F!GasBought
<1>2. \A k \in DOMAIN gas' : gas'[k] \in Nat
  BY <1>1
<1>3. EveryAccountHasGas'
  BY <1>1 DEF EveryAccountHasGas
<1> QED BY <1>1, <1>2, <1>3

-------------------------------------------------------------------------------
(* The steps. *)

\* What flon.creator, flon.faucet, flon.applybp and tokensummary keep.
Types ==
  /\ accounts \subseteq Names /\ now \in Nat
  /\ gas \in [DOMAIN gas -> Nat]
  /\ cgstate \in [admin : Names, gas_quant : Int] /\ cbalance \in Nat
  /\ rows \in [DOMAIN rows -> Nat] /\ DOMAIN rows \subseteq Names
  /\ granted \in [Names -> Seq(Nat)] /\ fbalance \in Nat
  /\ badmin \in Names \cup {Nobody}
  /\ producers \in [DOMAIN producers -> B!ProducerRow] /\ DOMAIN producers \subseteq Names
  /\ tadmin \in Names
  /\ tokencfg \in [DOMAIN tokencfg -> T!TokenRow] /\ DOMAIN tokencfg \subseteq Codes

LEMMA TypesAreTypeOK == TypeOK <=> Types
BY DEF TypeOK, Types, C!TypeOK, C!GlobalRow, F!TypeOK, F!IsTable, B!TypeOK, B!IsTable,
       T!TypeOK, T!IsTable

\* The invariant, for the steps.
Parts == Types /\ GrantsAreDated /\ EveryAccountHasGas /\ ProfilesHaveOwners

\* flon.creator: init, setgasquant, newaccount.
LEMMA CreatorKeeps ==
  ASSUME Parts, CreatorStep
  PROVE  Parts'
<1>0. /\ UNCHANGED <<now, rows, granted, fbalance, badmin, producers, tadmin, tokencfg>>
      /\ C!Next
  BY DEF CreatorStep, fvars, bvars, tvars
<1>1. /\ accounts' \subseteq Names /\ accounts \subseteq accounts'
      /\ gas' \in [DOMAIN gas' -> Nat] /\ EveryAccountHasGas'
      /\ cgstate' \in [admin : Names, gas_quant : Int] /\ cbalance' \in Nat
  <2>1. ASSUME NEW a \in Admins, C!SetGlobal(a) PROVE <1>1!:
    BY <2>1, ConstTypes DEF C!SetGlobal, Parts, Types, EveryAccountHasGas
  <2>2. ASSUME NEW q \in GasQuants, C!SetGasQuant(q) PROVE <1>1!:
    BY <2>2, ConstTypes DEF C!SetGasQuant, Parts, Types, EveryAccountHasGas
  <2>3. ASSUME NEW a \in Names, C!NewAccount(a) PROVE <1>1!:
    <3> DEFINE q == cgstate.gas_quant
    <3>1. /\ accounts' = accounts \cup {a} /\ gas' = C!GasBought(gas, a, q)
          /\ cbalance' = cbalance - q /\ cgstate' = cgstate
          /\ q > 0 /\ q <= cbalance /\ q \in Int /\ cbalance \in Nat
      BY <2>3 DEF C!NewAccount, C!CanCreate, Parts, Types
    <3>2. q \in Nat /\ cbalance - q \in Nat
      BY <3>1
    <3>3. gas' = F!GasBought(gas, a, q)
      BY <3>1 DEF C!GasBought, F!GasBought
    <3> HIDE DEF q
    <3>4. gas' \in [DOMAIN gas' -> Nat] /\ EveryAccountHasGas'
      BY <3>1, <3>2, <3>3, GasFor DEF Parts, Types
    <3> QED BY <3>1, <3>2, <3>4 DEF Parts, Types
  <2> QED BY <1>0, <2>1, <2>2, <2>3 DEF C!Next
<1>2. Types'
  BY <1>0, <1>1 DEF Parts, Types
<1>3. GrantsAreDated'
  BY <1>0 DEF Parts, GrantsAreDated
<1>4. ProfilesHaveOwners'
  BY <1>0, <1>1 DEF Parts, ProfilesHaveOwners
<1> QED BY <1>1, <1>2, <1>3, <1>4 DEF Parts

\* A grant is dated by the clock of the step.
LEMMA GrantKeepsDates ==
  ASSUME Types, GrantsAreDated, NEW a \in Names, F!MayUpdate(a), F!_update_account(a),
         F!Granted(a), now' = now
  PROVE  /\ GrantsAreDated' /\ granted' \in [Names -> Seq(Nat)]
         /\ rows' \in [DOMAIN rows' -> Nat] /\ DOMAIN rows' \subseteq Names
<1>1. /\ DOMAIN rows' = DOMAIN rows \cup {a}
      /\ \A k \in DOMAIN rows' : rows'[k] = IF k = a THEN now ELSE rows[k]
      /\ rows' = [k \in DOMAIN rows' |-> rows'[k]]
  BY DEF F!_update_account, F!Put
<1>2. /\ granted' = [granted EXCEPT ![a] = Append(granted[a], now)]
      /\ granted \in [Names -> Seq(Nat)] /\ granted[a] \in Seq(Nat) /\ now \in Nat
  BY DEF F!Granted, Types
<1>3. rows' \in [DOMAIN rows' -> Nat] /\ DOMAIN rows' \subseteq Names
  BY <1>1, <1>2 DEF Types
<1>4. /\ granted'[a] = Append(granted[a], now)
      /\ \A k \in Names \ {a} : granted'[k] = granted[k]
  BY <1>2
<1>5. /\ granted'[a] \in Seq(Nat) /\ DaysApart(granted'[a])
      /\ Len(granted'[a]) > 0 /\ granted'[a][Len(granted'[a])] = now
  <2>1. Len(granted[a]) > 0 =>
          F!Sec(now) - F!Sec(granted[a][Len(granted[a])]) >= DaySeconds
    BY DEF GrantsAreDated, F!MayUpdate
  <2> QED BY <1>2, <1>4, <2>1, NextGrant DEF GrantsAreDated
<1>6. ASSUME NEW k \in Names
      PROVE  /\ Len(granted'[k]) > 0 =>
                  k \in DOMAIN rows' /\ rows'[k] = granted'[k][Len(granted'[k])]
             /\ DaysApart(granted'[k])
  <2>1. CASE k = a
    BY <1>1, <1>5, <2>1
  <2>2. CASE k # a
    BY <1>1, <1>4, <2>2 DEF GrantsAreDated
  <2> QED BY <2>1, <2>2
<1>7. GrantsAreDated'
  BY <1>6 DEF GrantsAreDated, DaysApart, F!Sec
<1>8. granted' \in [Names -> Seq(Nat)]
  BY <1>2, <1>4, <1>5
<1> QED BY <1>3, <1>7, <1>8

\* flon.faucet: active, claim.
LEMMA FaucetKeeps ==
  ASSUME Parts, FaucetStep
  PROVE  Parts'
<1>0. /\ UNCHANGED <<cgstate, cbalance, badmin, producers, tadmin, tokencfg>> /\ F!Next
  BY DEF FaucetStep, cvars, bvars, tvars
<1>1. PICK a \in Names : F!Active(a) \/ F!Claim(a)
  BY <1>0 DEF F!Next
<1>2. /\ F!MayUpdate(a) /\ F!_update_account(a) /\ F!Granted(a) /\ now' = now
  BY <1>1 DEF F!Active, F!Claim
<1>3. /\ GrantsAreDated' /\ granted' \in [Names -> Seq(Nat)]
      /\ rows' \in [DOMAIN rows' -> Nat] /\ DOMAIN rows' \subseteq Names
  BY <1>2, GrantKeepsDates DEF Parts
<1>4. /\ accounts' \subseteq Names /\ accounts \subseteq accounts'
      /\ gas' \in [DOMAIN gas' -> Nat] /\ EveryAccountHasGas'
      /\ fbalance' \in Nat
  <2>0. fbalance \in Nat /\ Gas \in Nat \ {0} /\ Grant \in Nat
    BY ConstTypes DEF Parts, Types
  <2>1. CASE F!Active(a)
    <3>1. /\ accounts' = accounts \cup {a} /\ gas' = F!GasBought(gas, a, Gas)
          /\ fbalance' = fbalance - (Gas + Grant) /\ Grant <= fbalance - Gas
      BY <2>1 DEF F!Active, F!MayOpen
    <3>2. gas' \in [DOMAIN gas' -> Nat] /\ EveryAccountHasGas'
      BY <2>0, <3>1, GasFor DEF Parts, Types
    <3> QED BY <2>0, <3>1, <3>2 DEF Parts, Types
  <2>2. CASE F!Claim(a)
    BY <2>0, <2>2 DEF F!Claim, Parts, Types, EveryAccountHasGas
  <2> QED BY <1>1, <2>1, <2>2
<1>5. Types'
  BY <1>0, <1>2, <1>3, <1>4 DEF Parts, Types
<1>6. ProfilesHaveOwners'
  BY <1>0, <1>4 DEF Parts, ProfilesHaveOwners
<1> QED BY <1>3, <1>4, <1>5, <1>6 DEF Parts

\* flon.applybp: a profile is written for an account that exists, and keeps its status, or
\* its status is set by an administrator that exists.
ProfileWritten(o, row) ==
  /\ o \in accounts /\ row \in B!ProducerRow
  /\ producers' = B!Put(producers, o, row)
  /\ o \in DOMAIN producers =>
       \/ row.status = producers[o].status
       \/ row.info = producers[o].info /\ badmin \in accounts

LEMMA ApplyEffects ==
  ASSUME Parts, ApplyStep
  PROVE  /\ accounts' = accounts /\ badmin' \in Names \cup {Nobody}
         /\ \/ producers' = producers
            \/ \E o \in Names, row \in B!ProducerRow : ProfileWritten(o, row)
<1> DEFINE Goal == /\ accounts' = accounts /\ badmin' \in Names \cup {Nobody}
                   /\ \/ producers' = producers
                      \/ \E o \in Names, row \in B!ProducerRow : ProfileWritten(o, row)
<1>0. B!Next /\ badmin \in Names \cup {Nobody} /\ accounts \subseteq Names
  BY DEF ApplyStep, Parts, Types
<1>1. ASSUME NEW a \in Admins, B!SetAdmin(a) PROVE Goal
  BY <1>0, <1>1, ConstTypes DEF B!SetAdmin
<1>2. ASSUME NEW o \in Names, NEW i \in Infos, B!_set_producer(o, i) PROVE Goal
  <2> DEFINE row == B!NewRow(o, i)
  <2>1. o \in DOMAIN producers => producers[o] \in B!ProducerRow
    BY DEF Parts, Types
  <2>2. row \in B!ProducerRow /\ (o \in DOMAIN producers => row.status = producers[o].status)
    BY <2>1 DEF B!NewRow, B!ProducerRow, B!Status
  <2>3. /\ o \in accounts /\ producers' = B!Put(producers, o, row)
        /\ UNCHANGED <<accounts, badmin>>
    BY <1>2 DEF B!_set_producer
  <2> HIDE DEF row
  <2>4. ProfileWritten(o, row)
    BY <2>2, <2>3 DEF ProfileWritten
  <2> QED BY <1>0, <2>2, <2>3, <2>4
<1>3. ASSUME NEW o \in Names, NEW st \in B!Status, B!SetStatus(o, st) PROVE Goal
  <2> DEFINE row == [producers[o] EXCEPT !.status = st]
  <2>1. /\ badmin \in accounts /\ o \in DOMAIN producers
        /\ producers' = [producers EXCEPT ![o].status = st]
        /\ UNCHANGED <<accounts, badmin>>
    BY <1>3 DEF B!SetStatus, B!HasAdmin
  <2>2. producers[o] \in B!ProducerRow /\ o \in accounts
    BY <2>1 DEF Parts, Types, ProfilesHaveOwners
  <2>3. row \in B!ProducerRow /\ row.info = producers[o].info
    BY <2>2 DEF B!ProducerRow
  <2>4. DOMAIN producers \cup {o} = DOMAIN producers
    BY <2>1
  <2>5. producers' = [k \in DOMAIN producers |-> IF k = o THEN row ELSE producers[k]]
    BY <2>1 DEF Parts, Types
  <2> HIDE DEF row
  <2>6. producers' = B!Put(producers, o, row)
    BY <2>4, <2>5 DEF B!Put
  <2>7. ProfileWritten(o, row)
    BY <2>1, <2>2, <2>3, <2>6 DEF ProfileWritten
  <2> QED BY <1>0, <2>1, <2>3, <2>7
<1> QED BY <1>0, <1>1, <1>2, <1>3 DEF B!Next, B!ApplyBp, B!UpdateBp, B!AddProducer

LEMMA ApplyKeeps ==
  ASSUME Parts, ApplyStep
  PROVE  Parts'
<1>0. UNCHANGED <<gas, now, cgstate, cbalance, rows, granted, fbalance, tadmin, tokencfg>>
  BY DEF ApplyStep, cvars, fvars, tvars
<1>1. /\ accounts' = accounts /\ badmin' \in Names \cup {Nobody}
      /\ \/ producers' = producers
         \/ \E o \in Names, row \in B!ProducerRow : ProfileWritten(o, row)
  BY ApplyEffects
<1>2. /\ producers' \in [DOMAIN producers' -> B!ProducerRow]
      /\ DOMAIN producers' \subseteq accounts /\ accounts \subseteq Names
  <2>1. /\ producers \in [DOMAIN producers -> B!ProducerRow]
        /\ DOMAIN producers \subseteq accounts /\ accounts \subseteq Names
    BY DEF Parts, Types, ProfilesHaveOwners
  <2>2. ASSUME NEW o \in Names, NEW row \in B!ProducerRow, ProfileWritten(o, row) PROVE <1>2!:
    BY <2>1, <2>2 DEF ProfileWritten, B!Put
  <2> QED BY <1>1, <2>1, <2>2
<1>3. Types'
  BY <1>0, <1>1, <1>2 DEF Parts, Types
<1>4. GrantsAreDated' /\ EveryAccountHasGas'
  BY <1>0, <1>1 DEF Parts, GrantsAreDated, EveryAccountHasGas
<1>5. ProfilesHaveOwners'
  BY <1>1, <1>2 DEF ProfilesHaveOwners
<1> QED BY <1>3, <1>4, <1>5 DEF Parts

\* tokensummary: init, addtoken, deltoken.
LEMMA SummaryKeeps ==
  ASSUME Parts, SummaryStep
  PROVE  Parts'
<1>0. /\ UNCHANGED <<gas, now, cgstate, cbalance, rows, granted, fbalance, badmin, producers>>
      /\ T!Next
  BY DEF SummaryStep, cvars, fvars, bvars
<1>1. /\ accounts' = accounts /\ tadmin' \in Names
      /\ tokencfg' \in [DOMAIN tokencfg' -> T!TokenRow] /\ DOMAIN tokencfg' \subseteq Codes
  <2>0. /\ tadmin \in Names
        /\ tokencfg \in [DOMAIN tokencfg -> T!TokenRow] /\ DOMAIN tokencfg \subseteq Codes
    BY DEF Parts, Types
  <2>1. ASSUME NEW a \in Admins, T!SetAdmin(a) PROVE <1>1!:
    BY <2>0, <2>1, ConstTypes DEF T!SetAdmin
  <2>2. ASSUME NEW b \in Names, NEW c \in Codes, T!AddToken(b, c) PROVE <1>1!:
    <3> DEFINE row == [bank |-> b, code |-> c]
    <3>1. row \in T!TokenRow /\ T!Key(b, c) = c
      BY DEF T!TokenRow, T!Key, T!Low64, T!make_tokencfg_pk
    <3>2. tokencfg' = T!Put(tokencfg, c, row) /\ UNCHANGED <<accounts, tadmin>>
      BY <2>2, <3>1 DEF T!AddToken
    <3> HIDE DEF row
    <3> QED BY <2>0, <3>1, <3>2 DEF T!Put
  <2>3. ASSUME NEW b \in Names, NEW c \in Codes, T!DelToken(b, c) PROVE <1>1!:
    BY <2>0, <2>3 DEF T!DelToken, T!Drop
  <2> QED BY <1>0, <2>1, <2>2, <2>3 DEF T!Next
<1>2. Types'
  BY <1>0, <1>1 DEF Parts, Types
<1> QED BY <1>0, <1>1, <1>2 DEF Parts, GrantsAreDated, EveryAccountHasGas, ProfilesHaveOwners

\* Time passes.
LEMMA TickKeeps ==
  ASSUME Parts, Tick
  PROVE  Parts'
<1>1. /\ UNCHANGED <<accounts, gas, cgstate, cbalance, rows, granted, fbalance, badmin,
                     producers, tadmin, tokencfg>>
      /\ now' = now + 1
  BY DEF Tick, cvars, fvars, bvars, tvars
<1>2. Types'
  BY <1>1 DEF Parts, Types
<1>3. GrantsAreDated'
  BY <1>1 DEF Parts, GrantsAreDated, DaysApart, F!Sec
<1>4. EveryAccountHasGas' /\ ProfilesHaveOwners'
  BY <1>1 DEF Parts, EveryAccountHasGas, ProfilesHaveOwners
<1> QED BY <1>2, <1>3, <1>4 DEF Parts

LEMMA InvStep == Inv /\ [Next]_vars => Inv'
<1> SUFFICES ASSUME Parts, [Next]_vars PROVE Parts'
  <2>1. (Inv <=> Parts) /\ (Inv <=> Parts)'
    <3>1. Inv <=> Parts
      BY TypesAreTypeOK DEF Inv, Parts
    <3> QED BY <3>1, PTL
  <2> QED BY <2>1
<1>1. CASE UNCHANGED vars
  BY <1>1 DEF vars, cvars, fvars, bvars, tvars, Parts, Types, GrantsAreDated,
              EveryAccountHasGas, ProfilesHaveOwners
<1> QED BY <1>1, CreatorKeeps, FaucetKeeps, ApplyKeeps, SummaryKeeps, TickKeeps DEF Next

LEMMA InvInit == Init => Inv
<1> SUFFICES ASSUME Init PROVE Parts
  BY TypesAreTypeOK DEF Inv, Parts
<1>1. B!Empty = [k \in {} |-> k]
  BY DEF B!Empty
<1>2. \A a \in Names : granted[a] \in Seq(Nat) /\ Len(granted[a]) = 0
  <2>1. <<>> \in Seq(Nat) /\ Len(<<>>) = 0
    OBVIOUS
  <2> QED BY <2>1 DEF Init
<1>3. Types
  <2>1. granted \in [Names -> Seq(Nat)]
    BY <1>2 DEF Init
  <2> QED BY <1>1, <2>1, ConstTypes DEF Init, Types
<1>4. GrantsAreDated
  BY <1>2 DEF GrantsAreDated, DaysApart
<1>5. EveryAccountHasGas /\ ProfilesHaveOwners
  BY <1>1, ConstTypes DEF Init, EveryAccountHasGas, ProfilesHaveOwners
<1> QED BY <1>3, <1>4, <1>5 DEF Parts

\* The invariant holds always.
LEMMA InvHolds == Spec => []Inv
BY InvInit, InvStep, PTL DEF Spec

-------------------------------------------------------------------------------
(* The theorems. *)

\* Every row of every table keeps its type; in particular no contract overdraws its tokens.
THEOREM ServicesTypeCorrect == Spec => []TypeOK
BY InvHolds, PTL DEF Inv

\* Any n + 1 grants of an account are n days apart, less half a second at most, for any
\* day length and any number of grants: what is gained by cutting off to seconds does not
\* add up, and no idle time is made up for.
THEOREM FaucetOneGrantADay == Spec => []OneGrantADay
<1>1. Inv => OneGrantADay
  <2> SUFFICES ASSUME Types, GrantsAreDated, NEW a \in Names,
                      NEW i \in DOMAIN granted[a], NEW j \in DOMAIN granted[a], i < j
               PROVE  granted[a][j] - granted[a][i] >= 2 * DaySeconds * (j - i) - 1
    BY TypesAreTypeOK DEF Inv, OneGrantADay, F!OneGrantADay
  <2> DEFINE g == granted[a]
  <2>1. /\ g \in Seq(Nat) /\ i \in 1 .. Len(g) /\ j \in 1 .. Len(g)
        /\ g[i] \in Nat /\ g[j] \in Nat /\ j - i \in Nat
    BY DEF Types
  <2>2. F!Sec(g[j]) - F!Sec(g[i]) >= DaySeconds * (j - i)
    BY <2>1 DEF GrantsAreDated, DaysApart
  <2>3. /\ DaySeconds * (j - i) \in Nat
        /\ 2 * DaySeconds * (j - i) = 2 * (DaySeconds * (j - i))
    <3>1. DaySeconds \in Nat
      BY ConstTypes
    <3> QED BY <2>1, <3>1, Days
  <2>4. /\ F!Sec(g[j]) \in Nat /\ 2 * F!Sec(g[j]) <= g[j]
        /\ F!Sec(g[i]) \in Nat /\ g[i] <= 2 * F!Sec(g[i]) + 1
    BY <2>1, Seconds
  <2>5. g[j] - g[i] >= 2 * (DaySeconds * (j - i)) - 1
    <3> DEFINE si == F!Sec(g[i])
               sj == F!Sec(g[j])
               ti == g[i]
               tj == g[j]
               d  == DaySeconds * (j - i)
    <3>1. /\ si \in Nat /\ sj \in Nat /\ ti \in Nat /\ tj \in Nat /\ d \in Nat
          /\ sj - si >= d /\ 2 * sj <= tj /\ ti <= 2 * si + 1
      BY <2>1, <2>2, <2>3, <2>4
    <3> HIDE DEF si, sj, ti, tj, d
    <3>2. tj - ti >= 2 * d - 1
      BY <3>1
    <3> QED BY <3>2 DEF ti, tj, d
  <2> QED BY <2>3, <2>5
<1> QED BY <1>1, InvHolds, PTL

\* No account is left without gas, whichever contract creates it.
THEOREM ServicesEveryAccountHasGas == Spec => []EveryAccountHasGas
BY InvHolds, PTL DEF Inv

\* A profile is never lost, and an owner cannot change its status.
THEOREM ApplybpProfilesAreKept == Spec => ProfilesAreKept
<1>1. Inv /\ [Next]_vars =>
        [\A o \in DOMAIN producers :
           /\ o \in DOMAIN producers' /\ o \in accounts
           /\ \/ producers'[o].status = producers[o].status
              \/ producers'[o].info = producers[o].info /\ badmin \in accounts]_vars
  <2> SUFFICES ASSUME Parts, [Next]_vars, NEW o \in DOMAIN producers
               PROVE  /\ o \in DOMAIN producers' /\ o \in accounts
                      /\ \/ producers'[o].status = producers[o].status
                         \/ producers'[o].info = producers[o].info /\ badmin \in accounts
    BY TypesAreTypeOK DEF Inv, Parts
  <2>1. o \in accounts
    BY DEF Parts, ProfilesHaveOwners
  <2>2. CASE ApplyStep
    BY <2>1, <2>2, ApplyEffects DEF ProfileWritten, B!Put
  <2>3. CASE ~ ApplyStep
    <3>1. producers' = producers
      BY <2>3 DEF Next, CreatorStep, FaucetStep, SummaryStep, Tick, bvars, vars
    <3> QED BY <2>1, <3>1
  <2> QED BY <2>2, <2>3
<1> QED BY <1>1, InvHolds, PTL DEF Spec, ProfilesAreKept

===============================================================================
