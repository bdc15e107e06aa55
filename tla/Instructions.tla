--------------------------- MODULE Instructions ---------------------------
(***************************************************************************)
(* The four-opcode instruction set, translated twice: once from the host   *)
(* executor (crates/execution-engine) and once from the SP1 guest program  *)
(* (crates/sp1-program).  The repository keeps two copies of this code and *)
(* the proof of a batch exists only where the two agree, so the two        *)
(* translations share nothing but the map operations.                      *)
(*                                                                         *)
(* A state is a BTreeMap<String, u64>: a function whose domain is the set  *)
(* of keys present.  Account names are members of Keys; "account_{i}" and  *)
(* "data_{i}" names are AccountKeys and DataKeys, and a sender may be any  *)
(* key, those included, because the RPC accepts any sender string.         *)
(***************************************************************************)
EXTENDS Integers, Sequences

CONSTANTS Keys,         \* names that can occur in the state map
          AccountKeys,  \* the names format!("account_{}", _) can yield
          DataKeys,     \* the names format!("data_{}", _) can yield
          MaxU64,       \* largest value of the 64-bit words
          MaxCuPerTx    \* FullExecutor::new(max_cu_per_tx)

U64 == 0..MaxU64

\* Every construction site passes max_cu_per_tx = 200_000, above the cost of
\* any opcode.
ASSUME InstructionAssumptions ==
  /\ AccountKeys \subseteq Keys
  /\ DataKeys \subseteq Keys
  /\ AccountKeys \cap DataKeys = {}
  /\ MaxU64 \in Nat
  /\ MaxCuPerTx \in Nat /\ MaxCuPerTx >= 5000

Opcodes == {"Transfer", "SetData", "Increment", "Noop", "Invalid"}

(***************************************************************************)
(* instruction_data.  `empty' is the empty byte string, `full' says that   *)
(* the 16 operand bytes are there; key and val are the two decoded words,  *)
(* the key already formatted into its name.                                *)
(***************************************************************************)
Instruction == [empty : BOOLEAN, op : Opcodes, full : BOOLEAN,
                key : AccountKeys \cup DataKeys, val : U64]

State == UNION {[K -> U64] : K \in SUBSET Keys}

Get(state, k) == IF k \in DOMAIN state THEN state[k] ELSE 0

Put(state, k, v) ==
  [x \in DOMAIN state \cup {k} |-> IF x = k THEN v ELSE state[x]]

\* += on u64 in a release build wraps.
WrappingAdd(a, b) == (a + b) % (MaxU64 + 1)

SaturatingAdd(a, b) == IF a + b > MaxU64 THEN MaxU64 ELSE a + b

Outcome == [state : State, reads : Seq(Keys), writes : Seq(Keys),
            cu : Nat, success : BOOLEAN]

-----------------------------------------------------------------------------
(* The host: DeterministicExecutor with fail_on_invalid, as FullExecutor   *)
(* calls it.  An Err becomes an entry with no reads, no writes and no      *)
(* compute; an Ok has its compute clamped to the per-transaction maximum.  *)

HostErr(state) ==
  [state |-> state, reads |-> <<>>, writes |-> <<>>, cu |-> 0, success |-> FALSE]

HostOk(state, reads, writes, cu) ==
  [state |-> state, reads |-> reads, writes |-> writes,
   cu |-> IF cu < MaxCuPerTx THEN cu ELSE MaxCuPerTx, success |-> TRUE]

\* Mutant: the debit happens before the balance is checked.
DebitFirst(state, sender, data) ==
  LET short == Get(state, sender) < data.val
      debited == Put(state, sender, IF short THEN 0 ELSE Get(state, sender) - data.val)
  IN  IF ~data.full THEN HostErr(state)
      ELSE IF short THEN HostErr(debited)
      ELSE HostOk(Put(debited, data.key,
                      WrappingAdd(Get(debited, data.key), data.val)),
                  <<sender, data.key>>, <<sender, data.key>>, 5000)

\* Mutant: both balances are read before either is written.
BalancesReadFirst(state, sender, data) ==
  IF ~data.full \/ Get(state, sender) < data.val
  THEN HostErr(state)
  ELSE HostOk(Put(Put(state, sender, Get(state, sender) - data.val), data.key,
                  WrappingAdd(Get(state, data.key), data.val)),
              <<sender, data.key>>, <<sender, data.key>>, 5000)

execute_transfer(state, sender, data) ==
  LET debited == Put(state, sender, Get(state, sender) - data.val)
  IN  IF ~data.full \/ Get(state, sender) < data.val
      THEN HostErr(state)
      ELSE HostOk(Put(debited, data.key,
                      WrappingAdd(Get(debited, data.key), data.val)),
                  <<sender, data.key>>, <<sender, data.key>>, 5000)

execute_set_data(state, data) ==
  IF ~data.full
  THEN HostErr(state)
  ELSE HostOk(Put(state, data.key, data.val), <<>>, <<data.key>>, 3000)

execute_increment(state, data) ==
  IF ~data.full
  THEN HostErr(state)
  ELSE HostOk(Put(state, data.key, SaturatingAdd(Get(state, data.key), data.val)),
              <<data.key>>, <<data.key>>, 2000)

HostExecute(state, sender, data) ==
  CASE data.empty -> HostErr(state)
    [] ~data.empty /\ data.op = "Transfer"  -> execute_transfer(state, sender, data)
    [] ~data.empty /\ data.op = "SetData"   -> execute_set_data(state, data)
    [] ~data.empty /\ data.op = "Increment" -> execute_increment(state, data)
    [] ~data.empty /\ data.op = "Noop"      -> HostOk(state, <<>>, <<>>, 1000)
    [] ~data.empty /\ data.op = "Invalid"   -> HostErr(state)

-----------------------------------------------------------------------------
(* The guest: execute_instruction inside the zkVM.                         *)

GuestResult(state, reads, writes, cu, success) ==
  [state |-> state, reads |-> reads, writes |-> writes, cu |-> cu,
   success |-> success]

GuestTransfer(state, sender, data) ==
  IF ~data.full
  THEN GuestResult(state, <<>>, <<>>, 0, FALSE)
  ELSE IF Get(state, sender) < data.val
  THEN GuestResult(state, <<sender>>, <<>>, 5000, FALSE)
  ELSE LET debited == Put(state, sender, Get(state, sender) - data.val)
           credited == Put(debited, data.key,
                           WrappingAdd(Get(debited, data.key), data.val))
       IN  GuestResult(credited, <<sender, data.key>>, <<sender, data.key>>,
                       5000, TRUE)

GuestSetData(state, data) ==
  IF ~data.full
  THEN GuestResult(state, <<>>, <<>>, 0, FALSE)
  ELSE GuestResult(Put(state, data.key, data.val), <<>>, <<data.key>>, 3000, TRUE)

\* Mutant: the guest's copy wraps where the host's saturates.
GuestIncrementWraps(state, data) ==
  IF ~data.full
  THEN GuestResult(state, <<>>, <<>>, 0, FALSE)
  ELSE GuestResult(Put(state, data.key, WrappingAdd(Get(state, data.key), data.val)),
                   <<data.key>>, <<data.key>>, 2000, TRUE)

GuestIncrement(state, data) ==
  IF ~data.full
  THEN GuestResult(state, <<>>, <<>>, 0, FALSE)
  ELSE LET new_value == SaturatingAdd(Get(state, data.key), data.val)
       IN  GuestResult(Put(state, data.key, new_value), <<data.key>>,
                       <<data.key>>, 2000, TRUE)

GuestExecute(state, sender, data) ==
  CASE data.empty -> GuestResult(state, <<>>, <<>>, 0, FALSE)
    [] ~data.empty /\ data.op = "Transfer"  -> GuestTransfer(state, sender, data)
    [] ~data.empty /\ data.op = "SetData"   -> GuestSetData(state, data)
    [] ~data.empty /\ data.op = "Increment" -> GuestIncrement(state, data)
    [] ~data.empty /\ data.op = "Noop"      -> GuestResult(state, <<>>, <<>>, 1000, TRUE)
    [] ~data.empty /\ data.op = "Invalid"   -> GuestResult(state, <<>>, <<>>, 500, FALSE)

(***************************************************************************)
(* The failures the two copies report differently: an unknown opcode and a *)
(* transfer the sender cannot pay.  The host charges nothing for either,   *)
(* the guest charges 500 and 5000 and lists the sender as read.            *)
(***************************************************************************)
ReportedDifferently(state, sender, data) ==
  /\ ~data.empty
  /\ \/ data.op = "Invalid"
     \/ data.op = "Transfer" /\ data.full /\ Get(state, sender) < data.val
=============================================================================
