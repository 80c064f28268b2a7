--------------------------------- MODULE Redpack ---------------------------------
(***************************************************************************)
(* flon.redpack: a creator deposits tokens as a red packet of total_count  *)
(* shares; the claim administrator hands one share to each claimer, equal  *)
(* shares or random ones; when the packet has expired anybody may cancel   *)
(* it, and what is left goes back to the creator.                          *)
(*                                                                         *)
(* As in Vest, an action of the contract is one step, guarded by all its   *)
(* checks.  The hash of the password is a value the claim has to repeat:   *)
(* only claims that do are steps.  The clock counts hours.                 *)
(***************************************************************************)
EXTENDS Tables, Sums, FiniteSets

CONSTANTS
  Accounts,    \* the accounts that exist on the chain
  Self,        \* flon.redpack
  Assets,      \* token contract and symbol, of the five contracts listened to
  DidAssets,   \* FLON, USDT, USDC, TYCHE
  MinUnit,     \* for each asset, what _rand counts in: see UnitAssumption
  Counts,      \* numbers of shares asked for, at most 10000
  Hours,       \* redpack_expiry_hours an administrator may set
  Quantities,  \* amounts deposited
  IdInputs,    \* arguments of setglobalidx
  NumCodes,    \* bound on the codes used; a code is 1..NumCodes
  MaxPacks,    \* bound on the packets created
  MaxClaims,   \* bound on the claim ids used
  MaxTime      \* bound on the clock

ASSUME RedpackAssumption ==
  /\ Self \in Accounts
  /\ DidAssets \subseteq Assets
  /\ Counts \subseteq 1 .. 10000
  /\ Hours \subseteq Nat \ {0}
  /\ Quantities \subseteq Nat \ {0}
  /\ IdInputs \subseteq Nat
  /\ NumCodes \in Nat /\ MaxPacks \in Nat /\ MaxClaims \in Nat /\ MaxTime \in Nat

\* 10^p \div 10^(p-2) is 100 for a symbol of precision p > 2; for p = 0, 1, 2 the
\* unit is 10^p.
ASSUME UnitAssumption == MinUnit \in [Assets -> {1, 10, 100}]

VARIABLES
  gstate,     \* the global singleton; 0 hours before the first init
  globalidx,  \* the globalidx singleton
  tokenlist,  \* table tokenlist, as the set of its assets
  redpacks,   \* table redpacks, by code
  claims,     \* table claims, by id
  now,        \* current_time_point
  held        \* what the token contracts say the contract owns, by asset

vars == <<gstate, globalidx, tokenlist, redpacks, claims, now, held>>

Codes == 1 .. NumCodes
Types == {"random", "mean"}

GlobalRow    == [redpack_expiry_hours : Nat, dids : SUBSET Nat]
GlobalIdxRow == [last_redpack_id : Nat, last_claim_id : Nat]

RedpackRow ==
  [redpack_id : Nat, assign_type : Types, creator : Accounts, did_required : BOOLEAN,
   asset : Assets, total_quant : Nat, total_count : Nat \ {0},
   remaining_quant : Nat, remaining_count : Nat,
   status : {"servicing", "finished"}, created_at : Nat]

ClaimRow == [redpack_id : Nat, redpack_code : Codes, claimer : Accounts, quantity : Nat]

Init ==
  /\ gstate = [redpack_expiry_hours |-> 0, dids |-> {}]
  /\ globalidx = [last_redpack_id |-> 0, last_claim_id |-> 0]
  /\ tokenlist = {} /\ redpacks = Empty /\ claims = Empty
  /\ now = 0
  /\ held = [a \in Assets |-> 0]

-------------------------------------------------------------------------------
(* Administration. *)

\* `init`.  Its parameters did_supported and did_id are not used, so the set of
\* dids stays as it is.
SetGlobal(hours) ==
  /\ hours > 0
  /\ gstate' = [gstate EXCEPT !.redpack_expiry_hours = hours]
  /\ UNCHANGED <<globalidx, tokenlist, redpacks, claims, now, held>>

\* Before the first init there is no administrator who could sign.
HasAdmin == gstate.redpack_expiry_hours > 0

ListToken(asset) ==
  /\ HasAdmin
  /\ tokenlist' = tokenlist \cup {asset}
  /\ UNCHANGED <<gstate, globalidx, redpacks, claims, now, held>>

DelistToken(asset) ==
  /\ HasAdmin /\ asset \in tokenlist
  /\ tokenlist' = tokenlist \ {asset}
  /\ UNCHANGED <<gstate, globalidx, redpacks, claims, now, held>>

\* A zero leaves the counter as it is.
SetGlobalIdx(redpack_id, claim_id) ==
  /\ globalidx' =
       [last_redpack_id |-> IF redpack_id > 0 THEN redpack_id ELSE globalidx.last_redpack_id,
        last_claim_id   |-> IF claim_id > 0 THEN claim_id ELSE globalidx.last_claim_id]
  /\ UNCHANGED <<gstate, tokenlist, redpacks, claims, now, held>>

-------------------------------------------------------------------------------
(* Packets. *)

\* What is deposited per share, at least.
MinShare == 100

\* A mistake: the minimum is asked of the whole packet.
EnoughPerShare_Whole(quantity, count) == quantity >= MinShare

EnoughPerShare(quantity, count) == quantity \div count >= MinShare

NewRedpack(id, type, creator, did_required, asset, quantity, count) ==
  [redpack_id |-> id, assign_type |-> type, creator |-> creator,
   did_required |-> did_required, asset |-> asset,
   total_quant |-> quantity, total_count |-> count,
   remaining_quant |-> quantity, remaining_count |-> count,
   status |-> "servicing", created_at |-> now]

\* A transfer with the memo "awrap:...".  "uwrap" always aborts, and "fee" too, as
\* unwrap_fee_required is never set; the status is "servicing" from the start.
Deposit(from, code, type, did_required, asset, quantity, count) ==
  /\ from # Self
  /\ asset \in tokenlist
  /\ code \notin DOMAIN redpacks
  /\ EnoughPerShare(quantity, count)
  /\ did_required => asset \in DidAssets
  /\ globalidx.last_redpack_id < MaxPacks
  /\ LET id == globalidx.last_redpack_id + 1
     IN /\ globalidx' = [globalidx EXCEPT !.last_redpack_id = id]
        /\ redpacks' = Put(redpacks, code,
             NewRedpack(id, type, from, did_required, asset, quantity, count))
  /\ held' = [held EXCEPT ![asset] = @ + quantity]
  /\ UNCHANGED <<gstate, tokenlist, claims, now>>

\* The largest number of units _rand can draw.
MaxUnits(pack) ==
  ((pack.remaining_quant \div pack.remaining_count) * 2) \div MinUnit[pack.asset]

\* Mistakes: twice the average of the whole packet, not of what is left; and no
\* special case for the last share.
Shares_OfTotal(pack) ==
  IF pack.remaining_count = 1
    THEN {pack.remaining_quant}
    ELSE IF pack.assign_type = "mean"
      THEN {pack.total_quant \div pack.total_count}
      ELSE {u * MinUnit[pack.asset] :
              u \in 1 .. ((pack.total_quant \div pack.total_count) * 2)
                           \div MinUnit[pack.asset]}
Shares_NoLast(pack) ==
  IF pack.assign_type = "mean"
    THEN {pack.total_quant \div pack.total_count}
    ELSE {u * MinUnit[pack.asset] : u \in 1 .. MaxUnits(pack)}

\* What the next claimer may get.  The last one gets the rest; the seed of the
\* draw is a hash of the block, so any number of units may come up.
Shares(pack) ==
  IF pack.remaining_count = 1
    THEN {pack.remaining_quant}
    ELSE IF pack.assign_type = "mean"
      THEN {pack.total_quant \div pack.total_count}
      ELSE {u * MinUnit[pack.asset] : u \in 1 .. MaxUnits(pack)}

AlreadyClaimed(claimer, code) ==
  \E i \in DOMAIN claims : claims[i].claimer = claimer /\ claims[i].redpack_code = code

\* The transfer action an action sends.
CanTransferOut(to, asset, quantity) ==
  /\ to # Self
  /\ quantity > 0
  /\ quantity <= held[asset]

\* A mistake: the share is taken off twice.
Opened_Twice(pack, share) ==
  [pack EXCEPT !.remaining_quant = @ - 2 * share,
               !.remaining_count = @ - 1,
               !.status = IF pack.remaining_count = 1 THEN "finished" ELSE @]

\* The packet after a share was taken.
Opened(pack, share) ==
  [pack EXCEPT !.remaining_quant = @ - share,
               !.remaining_count = @ - 1,
               !.status = IF pack.remaining_count = 1 THEN "finished" ELSE @]

\* Which dids an account owns is external; as gstate.dids is empty it is moot.
ClaimRedpack(claimer, code) ==
  /\ code \in DOMAIN redpacks
  /\ ~ AlreadyClaimed(claimer, code)
  /\ redpacks[code].status = "servicing"
  /\ redpacks[code].did_required => gstate.dids # {}
  /\ redpacks[code].remaining_count > 0 /\ redpacks[code].remaining_quant > 0
  /\ LET pack == redpacks[code]
         id   == globalidx.last_claim_id + 1
     IN /\ id <= MaxClaims /\ id \notin DOMAIN claims
        /\ \E share \in Shares(pack) :
             /\ share <= pack.remaining_quant
             /\ CanTransferOut(claimer, pack.asset, share)
             /\ held' = [held EXCEPT ![pack.asset] = @ - share]
             /\ redpacks' = Put(redpacks, code, Opened(pack, share))
             /\ claims' = Put(claims, id,
                  [redpack_id |-> pack.redpack_id, redpack_code |-> code,
                   claimer |-> claimer, quantity |-> share])
        /\ globalidx' = [globalidx EXCEPT !.last_claim_id = id]
  /\ UNCHANGED <<gstate, tokenlist, now>>

Expired(code) ==
  /\ code \in DOMAIN redpacks
  /\ now > redpacks[code].created_at + gstate.redpack_expiry_hours

\* Mistakes: the rest is sent back whatever it is; or only if nobody claimed.
RefundDue_Always(pack) == pack.status = "servicing"
RefundDue_Untouched(pack) ==
  pack.status = "servicing" /\ pack.remaining_quant = pack.total_quant

RefundDue(pack) == pack.status = "servicing" /\ pack.remaining_quant > 0

\* Anybody may cancel; the claim rows of the packet stay.
Cancel(code) ==
  /\ Expired(code)
  /\ LET pack == redpacks[code]
     IN IF RefundDue(pack)
          THEN /\ CanTransferOut(pack.creator, pack.asset, pack.remaining_quant)
               /\ held' = [held EXCEPT ![pack.asset] = @ - pack.remaining_quant]
          ELSE UNCHANGED held
  /\ redpacks' = Drop(redpacks, {code})
  /\ UNCHANGED <<gstate, globalidx, tokenlist, claims, now>>

\* A mistake: the rows of finished packets go too.
Orphan_Finished(i) ==
  \/ claims[i].redpack_code \notin DOMAIN redpacks
  \/ redpacks[claims[i].redpack_code].status = "finished"

Orphan(i) == claims[i].redpack_code \notin DOMAIN redpacks

\* The first max_rows rows, in the order of their ids, whose packet is gone.
DelClaims(max_rows) ==
  LET orphans == {i \in DOMAIN claims : Orphan(i)}
      deleted == {i \in orphans : Cardinality({j \in orphans : j < i}) < max_rows}
  IN  /\ deleted # {}
      /\ claims' = Drop(claims, deleted)
      /\ UNCHANGED <<gstate, globalidx, tokenlist, redpacks, now, held>>

Tick ==
  /\ now < MaxTime
  /\ now' = now + 1
  /\ UNCHANGED <<gstate, globalidx, tokenlist, redpacks, claims, held>>

Next ==
  \/ \E h \in Hours : SetGlobal(h)
  \/ \E a \in Assets : ListToken(a)
  \/ \E a \in Assets : DelistToken(a)
  \/ \E r, c \in IdInputs : SetGlobalIdx(r, c)
  \/ \E f \in Accounts, c \in Codes, t \in Types, d \in BOOLEAN, a \in Assets,
        q \in Quantities, n \in Counts : Deposit(f, c, t, d, a, q, n)
  \/ \E a \in Accounts, c \in Codes : ClaimRedpack(a, c)
  \/ \E c \in Codes : Cancel(c)
  \/ \E n \in 1 .. MaxClaims : DelClaims(n)
  \/ Tick

Spec == Init /\ [][Next]_vars

\* Time passes, and the creator of an expired packet has every reason to cancel it.
Fairness == WF_vars(Tick) /\ \A c \in Codes : WF_vars(Cancel(c))

FairSpec == Spec /\ Fairness

-------------------------------------------------------------------------------
(* Properties. *)

\* The rows hold what the C++ types and the checks promise.
TypeOK ==
  /\ gstate \in GlobalRow
  /\ globalidx \in GlobalIdxRow
  /\ tokenlist \subseteq Assets
  /\ IsTable(redpacks, Codes, RedpackRow)
  /\ IsTable(claims, 1 .. MaxClaims, ClaimRow)
  /\ now \in Nat
  /\ held \in [Assets -> Int]

LeftOf(a) ==
  [c \in Codes |-> IF c \in DOMAIN redpacks /\ redpacks[c].asset = a
                     THEN redpacks[c].remaining_quant ELSE 0]

\* The contract owns of each asset exactly what the packets of that asset have
\* left: no draw, however large, and no refund spends what another packet holds.
Solvent == \A a \in Assets : held[a] = SumTo(LeftOf(a), NumCodes)

\* What is owed to each packet.
Owed ==
  [c \in Codes |-> [a \in Assets |->
     IF c \in DOMAIN redpacks /\ redpacks[c].asset = a
       THEN redpacks[c].remaining_quant ELSE 0]]

Custodian == INSTANCE Custody WITH NumClaims <- NumCodes, Assignable <- FALSE, owed <- Owed

\* flon.redpack is a custodian whose claims do not pass on: a packet is never paid out of
\* another one, nor one with a used code put in the place of what is left.
ImplementsCustody == Custodian!Spec

\* Two units of a symbol without decimals, one unit of any other.
Floor(a) == IF MinUnit[a] = 1 THEN 2 ELSE MinUnit[a]

\* What is left suffices for equal shares for all the claimers to come, or for one
\* floor amount for each of them but the last.
KeepsFloor(pack) ==
  IF pack.assign_type = "mean"
    THEN pack.remaining_quant >= (pack.total_quant \div pack.total_count) * pack.remaining_count
    ELSE pack.remaining_quant >= Floor(pack.asset) * (pack.remaining_count - 1)

\* However large the shares drawn so far, every packet keeps its floor: _rand draws
\* up to twice the average of what is left and rounds to units, and still leaves
\* something for everyone but perhaps the last claimer.
ShareFloor == \A c \in DOMAIN redpacks : KeepsFloor(redpacks[c])

\* Whatever was drawn before, while two or more shares are left the next draw is
\* possible: _rand never takes a remainder by zero units, no share is empty and
\* none exceeds what is left.
NextShareExists ==
  \A c \in DOMAIN redpacks :
    LET pack == redpacks[c]
    IN pack.remaining_count > 1 =>
         /\ Shares(pack) # {}
         /\ \A share \in Shares(pack) : 0 < share /\ share <= pack.remaining_quant

\* A packet is finished exactly when its last share was taken, and then nothing
\* of the deposit stays in it, so that cancelling it owes the creator nothing.
FinishedIsEmpty ==
  \A c \in DOMAIN redpacks :
    /\ redpacks[c].status = "finished" <=> redpacks[c].remaining_count = 0
    /\ redpacks[c].remaining_count = 0 => redpacks[c].remaining_quant = 0

\* The claim rows of the packet that has this code now.
RowsOf(c) ==
  {i \in DOMAIN claims : /\ claims[i].redpack_code = c
                         /\ claims[i].redpack_id = redpacks[c].redpack_id}

ClaimedOf(c) ==
  [i \in 1 .. MaxClaims |-> IF i \in RowsOf(c) THEN claims[i].quantity ELSE 0]

\* For every packet the claim rows account for what left it: their amounts add up
\* to it, and as many different claimers as shares are gone have one row each,
\* although delclaims erases rows and codes are used again.
ClaimsAccounted ==
  \A c \in DOMAIN redpacks :
    /\ redpacks[c].total_quant - redpacks[c].remaining_quant = SumTo(ClaimedOf(c), MaxClaims)
    /\ LET taken == redpacks[c].total_count - redpacks[c].remaining_count
       IN /\ Cardinality(RowsOf(c)) = taken
          /\ Cardinality({claims[i].claimer : i \in RowsOf(c)}) = taken

\* Every expired packet is cancelled in the end (or the expiry is put off): one
\* whose last share was drawn empty is not stuck on a refund of nothing.
ExpiredIsCancelled == \A c \in Codes : Expired(c) ~> ~ Expired(c)

\* After init with a supported did, a packet that asks for one can be claimed.
DidPacketClaimable ==
  \A c \in DOMAIN redpacks : redpacks[c].did_required => gstate.dids # {}

\* Who is refused with "already claimed" has claimed from this packet.
RefusedOnlyIfClaimed ==
  \A c \in DOMAIN redpacks, a \in Accounts :
    AlreadyClaimed(a, c) => \E i \in RowsOf(c) : claims[i].claimer = a

\* A packet with a share left has something to give for it.
EveryShareIsPaid ==
  \A c \in DOMAIN redpacks :
    redpacks[c].remaining_count > 0 => redpacks[c].remaining_quant > 0

===============================================================================
