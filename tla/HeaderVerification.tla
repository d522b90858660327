------------------------- MODULE HeaderVerification -------------------------
(***************************************************************************)
(* Verification of L1 headers: HeaderVerificationState and the ring buffer *)
(* of timestamps it takes medians from.  One L1 chain is explored, so a    *)
(* block hash is the height of its block on that chain.  A compact target  *)
(* is the number it encodes; whether the hash of a header meets it is the  *)
(* field met of the header.                                                *)
(***************************************************************************)
EXTENDS Lists, TLC

CONSTANTS
    TIMESTAMPS_FOR_MEDIAN,          \* timestamps kept for the median
    difficulty_adjustment_interval, \* blocks between two retargets
    pow_target_timespan,            \* the time one interval should take
    max_attainable_target,          \* the easiest target of the network
    Anchor          \* L1Anchor: network, height, next_target, epoch_start_timestamp

(* The networks an encoded state can name. *)
network_to_id == [bitcoin |-> 0, testnet |-> 1, signet |-> 2, regtest |-> 3]
network_from_id(id) == CHOOSE network \in DOMAIN network_to_id : network_to_id[network] = id

\* A median needs an odd window; the anchor carries a target of the network.
ASSUME HeaderAssumption ==
    /\ TIMESTAMPS_FOR_MEDIAN \in Nat /\ TIMESTAMPS_FOR_MEDIAN % 2 = 1
    /\ difficulty_adjustment_interval \in Nat \ {0}
    /\ pow_target_timespan \in Nat \ {0}
    /\ max_attainable_target \in Nat
    /\ Anchor.network \in DOMAIN network_to_id
    /\ Anchor.height \in Nat
    /\ Anchor.next_target \in 1 .. max_attainable_target
    /\ Anchor.epoch_start_timestamp \in Nat

(***************************************************************************)
(* TimestampStore.                                                         *)
(***************************************************************************)
EmptyTimestamps == [buffer |-> [i \in 1 .. TIMESTAMPS_FOR_MEDIAN |-> 0], head |-> 0]

insert_timestamp(store, timestamp) ==
    [buffer |-> [store.buffer EXCEPT ![store.head + 1] = timestamp],
     head |-> (store.head + 1) % TIMESTAMPS_FOR_MEDIAN]

MEDIAN_TIMESTAMP_INDEX == TIMESTAMPS_FOR_MEDIAN \div 2
median(store) == SortSeq(store.buffer, LAMBDA a, b : a < b)[MEDIAN_TIMESTAMP_INDEX + 1]

(***************************************************************************)
(* HeaderVerificationState.                                                *)
(***************************************************************************)
HeaderVerificationState(network, height, target, epoch_start, history, pow) ==
    [network |-> network, last_verified_block |-> height, next_block_target |-> target,
     epoch_start_timestamp |-> epoch_start, block_timestamp_history |-> history,
     total_accumulated_pow |-> pow]

(* init: no timestamps and no work before the anchor. *)
init(anchor) ==
    HeaderVerificationState(anchor.network, anchor.height, anchor.next_target,
                            anchor.epoch_start_timestamp, EmptyTimestamps, 0)

StartsInterval(height) == height % difficulty_adjustment_interval = 0
saturating_sub(a, b) == IF a >= b THEN a - b ELSE 0

(* bitcoin::CompactTarget::from_next_work_required: the timespan is clamped to a factor of four. *)
from_next_work_required(bits, timespan) ==
    LET least == pow_target_timespan \div 4
        most == pow_target_timespan * 4
        actual == IF timespan < least THEN least ELSE IF timespan > most THEN most ELSE timespan
        retarget == (bits * actual) \div pow_target_timespan
    IN  IF retarget > max_attainable_target THEN max_attainable_target ELSE retarget

\* Mutant: a plain subtraction of unsigned integers, which wraps.
next_target_wrapping(state, header) ==
    IF ~StartsInterval(state.last_verified_block + 1) THEN state.next_block_target
    ELSE from_next_work_required(header.bits,
                                 (header.time - state.epoch_start_timestamp) % 65536)

(* next_target: state already holds the height of header. *)
next_target(state, header) ==
    IF ~StartsInterval(state.last_verified_block + 1) THEN state.next_block_target
    ELSE from_next_work_required(header.bits,
                                 saturating_sub(header.time, state.epoch_start_timestamp))

update_timestamps(state, timestamp) ==
    [state EXCEPT !.block_timestamp_history = insert_timestamp(@, timestamp),
                  !.epoch_start_timestamp =
                      IF StartsInterval(state.last_verified_block) THEN timestamp ELSE @]

(* bitcoin::Header::work: the easier the target, the less work. *)
work(bits) == (16 * max_attainable_target) \div (bits + 1)

(* The four checks of check_and_update, in its order. *)
Continues(state, header) == header.prev_blockhash = state.last_verified_block
OnTarget(state, header) == header.bits = state.next_block_target
AfterMedian(state, header) == header.time > median(state.block_timestamp_history)
HeaderValid(state, header) ==
    Continues(state, header) /\ OnTarget(state, header) /\ AfterMedian(state, header) /\ header.met

(* check_and_update, once the checks pass. *)
check_and_update(state, header) ==
    LET verified == [state EXCEPT !.last_verified_block = @ + 1]
        timed == update_timestamps(verified, header.time)
    IN  [timed EXCEPT !.next_block_target = next_target(timed, header),
                      !.total_accumulated_pow = @ + work(header.bits)]

(***************************************************************************)
(* The stored form names the network by its id; decoding rejects an id no  *)
(* network has and a head outside the buffer.                              *)
(***************************************************************************)
into_delegate(state) == [state EXCEPT !.network = network_to_id[@]]
Decodes(delegate) ==
    /\ \E network \in DOMAIN network_to_id : network_to_id[network] = delegate.network
    /\ delegate.block_timestamp_history.head < TIMESTAMPS_FOR_MEDIAN
from_delegate(delegate) == [delegate EXCEPT !.network = network_from_id(@)]

(***************************************************************************)
(* What the headers verified since the anchor say: the time of the block   *)
(* at a height, the first height of its interval, when that interval       *)
(* began, the work, and the last block of the last full interval.          *)
(***************************************************************************)
TimeAt(headers, h) == IF h > Anchor.height THEN headers[h - Anchor.height].time ELSE 0
FirstOfInterval(h) == h - (h % difficulty_adjustment_interval)
BeganAt(headers, h) ==
    IF FirstOfInterval(h) > Anchor.height THEN TimeAt(headers, FirstOfInterval(h))
    ELSE Anchor.epoch_start_timestamp
WorkOf(headers) == [i \in DOMAIN headers |-> work(headers[i].bits)]
LastRetarget(h) == FirstOfInterval(h + 1) - 1

(* The ring holds the last timestamps, the latest one behind its head; the interval start is    *)
(* the time of the interval's first block; the work is the sum; and the next target is that of  *)
(* Bitcoin Core, which subtracts with a sign, from the first and the last block of the last     *)
(* full interval.                                                                               *)
FromChain(state, headers) ==
    LET height == state.last_verified_block
        ring == state.block_timestamp_history
        last == LastRetarget(height)
    IN  /\ state.epoch_start_timestamp = BeganAt(headers, height)
        /\ \A i \in 1 .. TIMESTAMPS_FOR_MEDIAN :
               ring.buffer[((ring.head - i) % TIMESTAMPS_FOR_MEDIAN) + 1] = TimeAt(headers, height + 1 - i)
        /\ state.total_accumulated_pow = Total(WorkOf(headers))
        /\ state.next_block_target =
               IF last <= Anchor.height THEN Anchor.next_target
               ELSE from_next_work_required(headers[last - Anchor.height].bits,
                                            TimeAt(headers, last) - BeganAt(headers, last))
=============================================================================
