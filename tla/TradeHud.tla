------------------------------- MODULE TradeHud -------------------------------
(***************************************************************************)
(* One TradeHUD event stream: the SSE generator of                         *)
(* services/api/routes/tradehud_sse.py over the Redis Streams adapter and  *)
(* the health tracker of packages/tradehud_contracts.                      *)
(*                                                                         *)
(* A Redis stream is the sequence of entries its producer appended.  An    *)
(* entry is its event time and what the parsers make of it: a record       *)
(* ("good", "untimed" without ts_event_ns), nothing ("dropped"), or a      *)
(* value outside a Literal of the model, which raises ("rejected").        *)
(* Redis goes down and comes back with its streams.  Every await of the    *)
(* generator ends a step; intervals of the loop elapse at any moment.      *)
(***************************************************************************)
EXTENDS Integers, Sequences, SequencesExt, FiniteSets, Ordering

CONSTANTS MaxEntries,  \* bound: entries appended to all streams together
          MaxTrades,   \* bound: entries of the trade stream alone
          MaxNow,      \* bound: ticks of the clock
          StaleAge,    \* stream_stale_ms in ticks
          ReadCount,   \* redis_count: entries of one stream per XREAD
          BufferCap    \* trades kept, 500 in the code

ASSUME StreamAssumption ==
  /\ {MaxEntries, MaxTrades, MaxNow, StaleAge} \subseteq Nat
  /\ {ReadCount, BufferCap} \subseteq Nat \ {0}

VARIABLES production, \* BUILDER_ENV is staging or production
          enabled,    \* TRADEHUD_FEED_SOURCE=redis with a URL
          redis,      \* "up" or "down"
          log,        \* the Redis streams
          now,        \* clock
          pc, inLoop, useRedis, \* the generator; inLoop: inside its try block
          adapter,    \* redis_adapter
          fresh,      \* the adapter _try_redis_adapter is connecting
          seedAt,     \* stream being seeded
          from,       \* where a blocked XREAD started
          open,       \* Redis clients not closed
          out         \* provenance of the last event sent
streamVars == <<production, enabled, redis, log, now, pc, inLoop, useRedis, adapter,
               fresh, seedAt, from, open, out>>

-----------------------------------------------------------------------------
\* The part of the nd.* stream map that matters: trades are buffered, account
\* and positions are read from the same stream.
StreamMap == <<[name |-> "trades", key |-> "trade_tick"],
               [name |-> "account", key |-> "state_bundle"],
               [name |-> "positions", key |-> "state_bundle"]>>
StreamNames == {StreamMap[i].name : i \in DOMAIN StreamMap}
StreamKeys == {StreamMap[i].key : i \in DOMAIN StreamMap}
KeyOf(n) == (CHOOSE e \in ToSet(StreamMap) : e.name = n).key

\* _build_reverse_map: the last name of a key wins
ReverseName(k) ==
  LET places == {i \in DOMAIN StreamMap : StreamMap[i].key = k}
  IN  StreamMap[CHOOSE i \in places : \A j \in places : j <= i].name

Kinds(k) == IF k = "trade_tick" THEN {"good", "dropped"}
            ELSE {"good", "untimed", "rejected"}
Latest == -1   \* the id "$" of XREAD
Statuses == {"live", "stale", "missing", "unavailable", "unknown"}
NoAdapter == [up |-> FALSE, lastId |-> [k \in StreamKeys |-> Latest],
              cached |-> [n \in StreamNames |-> 0], trades |-> <<>>,
              connected |-> FALSE, status |-> [n \in StreamNames |-> "unknown"]]

\* What the parser of name makes of entry number i of its stream
Parsed(n, i) ==
  LET kind == log[KeyOf(n)][i].kind
  IN  CASE n = "trades" -> "none"    \* only the buffer holds trades
        [] n = "account" -> "record"
        [] n = "positions" -> IF kind = "rejected" THEN "raises" ELSE "record"
EventTime(n, i) == log[KeyOf(n)][i].ts   \* -1 without ts_event_ns

-----------------------------------------------------------------------------
\* StreamHealthTracker
MarkConnected(a, c) ==
  [a EXCEPT !.connected = c,
            !.status = [n \in StreamNames |-> IF ~c /\ a.status[n] # "unknown"
                                        THEN "unavailable" ELSE a.status[n]]]

\* Faulty: a stream without an entry is seeded as synthetic
SeedStatusSynthetic(n, i) == IF i = 0 THEN "synthetic" ELSE "live"
SeedStatus(n, i) ==
  CASE i = 0 -> "missing"
    [] i > 0 /\ EventTime(n, i) < 0 -> "unknown"
    [] OTHER -> IF now - EventTime(n, i) > StaleAge THEN "stale" ELSE "live"

\* record_event
AfterEvent(a, n) == IF a.connected THEN "live" ELSE a.status[n]

\* evaluate: what a stream_health event reports and stores; streams without
\* an entry were last touched together, so stream_missing_ms is over for all
\* of them or for none
HealthEvaluated(a, overdue) ==
  [a EXCEPT !.status = [n \in StreamNames |->
    CASE a.status[n] = "unavailable" -> "unavailable"
      [] a.status[n] # "unavailable" /\ a.cached[n] = 0 ->
           IF overdue THEN "missing" ELSE a.status[n]
      [] OTHER ->
           IF EventTime(n, a.cached[n]) < 0 THEN a.status[n]
           ELSE IF now - EventTime(n, a.cached[n]) > StaleAge THEN "stale"
           ELSE IF a.connected THEN "live" ELSE a.status[n]]]

-----------------------------------------------------------------------------
\* Faulty: the last entry consumed is read again
AvailableAgain(start, k) ==
  {i \in DOMAIN log[k] : i >= start[k] /\ i <= start[k] + ReadCount}
\* One XREAD over all streams: the entries after each start, ReadCount at most
Available(start, k) ==
  {i \in DOMAIN log[k] : i > start[k] /\ i <= start[k] + ReadCount}
Start(a) == [k \in StreamKeys |-> IF a.lastId[k] = Latest THEN Len(log[k]) ELSE a.lastId[k]]

\* The trades of the entries read, in the order of the stream, and the buffer
\* that keeps the newest of them
NewTrades(start) == Ascending({i \in Available(start, "trade_tick") : log["trade_tick"][i].kind = "good"})
Newest(s) == SubSeq(s, IF Len(s) > BufferCap THEN Len(s) - BufferCap + 1 ELSE 1, Len(s))

\* The loop of _multi_stream_xread over the entries read
Consumed(a, start) ==
  LET last(k) == Max(Available(start, k))
      hit(n) == Available(start, KeyOf(n)) # {} /\ ReverseName(KeyOf(n)) = n
  IN  [a EXCEPT
        !.lastId = [k \in StreamKeys |-> IF Available(start, k) # {} THEN last(k) ELSE a.lastId[k]],
        !.cached = [n \in StreamNames |-> IF hit(n) THEN last(KeyOf(n)) ELSE a.cached[n]],
        !.status = [n \in StreamNames |-> IF hit(n) THEN AfterEvent(a, n) ELSE a.status[n]],
        !.trades = Newest(a.trades \o NewTrades(start))]

\* get_snapshot after the read: "raises", "redis" or "none"
Snapshot(a) ==
  LET parsed == {Parsed(n, a.cached[n]) : n \in {m \in StreamNames : a.cached[m] # 0}}
  IN  CASE "raises" \in parsed -> "raises"
        [] "raises" \notin parsed /\ ("record" \in parsed \/ a.trades # <<>>) -> "redis"
        [] OTHER -> "none"

\* A failed XREAD returns {} and the snapshot is built from the cache
AfterFailure(a) == MarkConnected(a, FALSE)

-----------------------------------------------------------------------------
StreamInit ==
  /\ production \in BOOLEAN /\ enabled \in BOOLEAN
  /\ redis \in {"up", "down"}
  /\ log = [k \in StreamKeys |-> <<>>]
  /\ now = 0
  /\ pc = "connect" /\ inLoop = FALSE /\ useRedis = FALSE
  /\ adapter = NoAdapter /\ fresh = NoAdapter /\ seedAt = 1
  /\ from = [k \in StreamKeys |-> 0]
  /\ open = 0 /\ out = "none"

env == <<production, enabled>>
world == <<production, enabled, redis, log, now>>

Ended == {"stopped", "crashed", "cancelled", "cancelled_early"}

\* Producers, Redis and the clock, as long as the stream runs
Publish(k) ==
  /\ \/ Len(log["trade_tick"]) + Len(log["state_bundle"]) < MaxEntries
     \/ k = "trade_tick" /\ log["state_bundle"] = <<>> /\ Len(log[k]) < MaxTrades
  /\ \E kind \in Kinds(k) :
       log' = [log EXCEPT ![k] = Append(@, [kind |-> kind,
                 ts |-> IF kind = "untimed" THEN -1 ELSE now])]
  /\ redis = "up" /\ pc \notin Ended
  /\ UNCHANGED <<env, redis, now, pc, inLoop, useRedis, adapter, fresh, seedAt, from, open, out>>

RedisFlips ==
  /\ pc \notin Ended
  /\ redis' = IF redis = "up" THEN "down" ELSE "up"
  /\ UNCHANGED <<env, log, now, pc, inLoop, useRedis, adapter, fresh, seedAt, from, open, out>>

Tick ==
  /\ now < MaxNow /\ pc \notin Ended /\ now' = now + 1
  /\ UNCHANGED <<env, redis, log, pc, inLoop, useRedis, adapter, fresh, seedAt, from, open, out>>

\* Faulty: every environment falls back to mock data
ConnectFailsFallsBack ==
  /\ pc = "connect"
  /\ ~enabled \/ redis = "down"
  /\ pc' = "loop" /\ inLoop' = TRUE
  /\ out' = IF inLoop THEN out ELSE "mock"
  /\ UNCHANGED <<world, useRedis, adapter, fresh, seedAt, from, open>>

\* _try_redis_adapter: from_url and PING; a failure before the first
\* snapshot stops a production stream, a failed reconnect changes nothing
Connect ==
  /\ pc = "connect"
  /\ enabled /\ redis = "up"
  /\ pc' = "seed" /\ seedAt' = 1 /\ open' = open + 1
  /\ fresh' = MarkConnected([NoAdapter EXCEPT !.up = TRUE], TRUE)
  /\ UNCHANGED <<world, inLoop, useRedis, adapter, from, out>>

ConnectFails ==
  /\ pc = "connect"
  /\ ~enabled \/ redis = "down"
  /\ IF inLoop THEN pc' = "loop" /\ UNCHANGED out
     ELSE IF enabled /\ production
          THEN pc' = "stopped" /\ out' = "stream_error"
          ELSE pc' = "loop" /\ out' = "mock"
  /\ inLoop' = (inLoop \/ pc' = "loop")
  /\ UNCHANGED <<world, useRedis, adapter, fresh, seedAt, from, open>>

\* One XREVRANGE of _seed_initial_state; its failure is only recorded
Seed ==
  /\ pc = "seed" /\ seedAt <= Len(StreamMap)
  /\ LET n == StreamMap[seedAt].name
         k == StreamMap[seedAt].key
         i == Len(log[k])
     IN  fresh' = IF redis = "down" THEN fresh
                  ELSE [fresh EXCEPT !.cached[n] = i,
                                     !.lastId[k] = IF i > 0 THEN i ELSE @,
                                     !.status[n] = SeedStatus(n, i)]
  /\ seedAt' = seedAt + 1
  /\ UNCHANGED <<world, pc, inLoop, useRedis, adapter, from, open, out>>

\* connect returned: the first adapter is asked for a snapshot, a
\* reconnected one takes the place of the old, which is closed
Adopt ==
  /\ pc = "seed" /\ seedAt > Len(StreamMap)
  /\ adapter' = fresh /\ useRedis' = TRUE
  /\ open' = IF adapter.up THEN open - 1 ELSE open
  /\ pc' = IF inLoop THEN "loop" ELSE "read"
  /\ fresh' = NoAdapter /\ seedAt' = 1
  /\ UNCHANGED <<world, inLoop, from, out>>
\* What follows get_snapshot: the first snapshot without data turns Redis
\* off until the next reconnect, a later one falls back to mock data only
\* for this event
Deliver(a) ==
  /\ adapter' = IF Snapshot(a) = "raises" THEN NoAdapter ELSE a
  /\ CASE Snapshot(a) = "raises" -> pc' = "crashed" /\ UNCHANGED <<out, useRedis, inLoop>>
       [] Snapshot(a) = "redis" ->
            /\ out' = "redis"
            /\ pc' = "loop" /\ inLoop' = TRUE /\ UNCHANGED useRedis
       [] OTHER ->
            /\ out' = "mock"
            /\ pc' = "loop" /\ inLoop' = TRUE /\ useRedis' = (useRedis /\ inLoop)

ReadEvent ==   \* the event interval of the loop elapsed
  /\ pc = "loop" /\ useRedis
  /\ pc' = "read"
  /\ UNCHANGED <<world, inLoop, useRedis, adapter, fresh, seedAt, from, open, out>>

MockEvent ==
  /\ pc = "loop" /\ ~useRedis
  /\ out' = "mock"
  /\ UNCHANGED <<world, pc, inLoop, useRedis, adapter, fresh, seedAt, from, open>>

ReadNow ==
  /\ pc = "read" /\ redis = "up"
  /\ \E k \in StreamKeys : Available(Start(adapter), k) # {}
  /\ Deliver(Consumed(adapter, Start(adapter)))
  /\ UNCHANGED <<world, fresh, seedAt, from, open>>

ReadBlocks ==
  /\ pc = "read" /\ redis = "up"
  /\ \A k \in StreamKeys : Available(Start(adapter), k) = {}
  /\ pc' = "blocked" /\ from' = Start(adapter)
  /\ UNCHANGED <<world, inLoop, useRedis, adapter, fresh, seedAt, open, out>>

\* entries arrived while XREAD blocked, or redis_block_ms elapsed
ReadReturns ==
  /\ pc = "blocked" /\ redis = "up"
  /\ Deliver(Consumed(adapter, from))
  /\ from' = [k \in StreamKeys |-> 0]
  /\ UNCHANGED <<world, fresh, seedAt, open>>

ReadFails ==
  /\ pc \in {"read", "blocked"} /\ redis = "down"
  /\ Deliver(AfterFailure(adapter))
  /\ from' = [k \in StreamKeys |-> 0]
  /\ UNCHANGED <<world, fresh, seedAt, open>>

HealthEvent ==
  /\ pc = "loop" /\ useRedis
  /\ \E overdue \in BOOLEAN : adapter' = HealthEvaluated(adapter, overdue)
  /\ UNCHANGED <<world, pc, inLoop, useRedis, fresh, seedAt, from, open, out>>

\* Faulty: a stream that ever had an adapter does not look for Redis again
ReconnectOnlyFirst ==
  /\ pc = "loop" /\ ~useRedis /\ enabled /\ ~adapter.up
  /\ pc' = "connect"
  /\ UNCHANGED <<world, inLoop, useRedis, adapter, fresh, seedAt, from, open, out>>

Reconnect ==
  /\ pc = "loop" /\ ~useRedis /\ enabled
  /\ pc' = "connect"
  /\ UNCHANGED <<world, inLoop, useRedis, adapter, fresh, seedAt, from, open, out>>

\* The client goes away: the handler of the loop disconnects redis_adapter,
\* an adapter still being connected or used before the loop is left open
Cancel ==
  /\ pc \in {"connect", "seed", "read", "blocked", "loop"}
  /\ pc' = IF inLoop /\ pc # "seed" THEN "cancelled" ELSE "cancelled_early"
  /\ open' = IF inLoop /\ adapter.up THEN open - 1 ELSE open
  /\ adapter' = NoAdapter /\ fresh' = NoAdapter /\ seedAt' = 1   \* the frame is gone
  /\ from' = [k \in StreamKeys |-> 0]
  /\ UNCHANGED <<world, inLoop, useRedis, out>>

StreamOver ==
  /\ pc \in Ended
  /\ UNCHANGED streamVars

\* what moves the generator on: its awaits return and its intervals elapse
Progress == \/ Connect \/ ConnectFails \/ Seed \/ Adopt
            \/ ReadEvent \/ ReadNow \/ ReadBlocks \/ ReadReturns \/ ReadFails \/ Reconnect
StreamNext == \/ Progress \/ MockEvent \/ HealthEvent \/ Cancel \/ RedisFlips \/ Tick \/ StreamOver
        \/ \E k \in StreamKeys : Publish(k)

StreamFairness == WF_streamVars(Progress)
StreamSpec == StreamInit /\ [][StreamNext]_streamVars /\ StreamFairness

-----------------------------------------------------------------------------
MaxId == IF MaxTrades > MaxEntries THEN MaxTrades ELSE MaxEntries
Adapters == [up : BOOLEAN, lastId : [StreamKeys -> Latest..MaxId],
             cached : [StreamNames -> 0..MaxId], trades : Seq(1..MaxId),
             connected : BOOLEAN, status : [StreamNames -> Statuses]]

\* The variables keep their types and an adapter never caches an entry that
\* is not in its stream (RedisStreamAdapter.__init__, StreamHealthEntry).
StreamTypeOK ==
  /\ production \in BOOLEAN /\ enabled \in BOOLEAN /\ redis \in {"up", "down"}
  /\ now \in 0..MaxNow
  /\ pc \in {"connect", "seed", "read", "blocked", "loop", "stopped", "crashed",
             "cancelled", "cancelled_early"}
  /\ inLoop \in BOOLEAN /\ useRedis \in BOOLEAN /\ open \in 0..2
  /\ adapter \in Adapters /\ fresh \in Adapters
  /\ out \in {"none", "mock", "redis", "stream_error"}
  /\ \A n \in StreamNames : adapter.cached[n] <= Len(log[KeyOf(n)])

\* In staging and production a stream whose Redis feed is configured shows
\* synthetic data only while it holds an adapter with nothing to show, never
\* because Redis could not be reached or stopped answering
\* (tradehud_sse.py:222 keeps serving the cache after a failed XREAD).
SyntheticOnlyWithoutData ==
  [][(production /\ enabled /\ out' = "mock" /\ out' # out) =>
       adapter'.up /\ Snapshot(adapter)' = "none"]_streamVars

\* The trades shown are the parsable ones, each once and in order, without a
\* gap up to the last one read, whatever the reads returned and however often
\* the connection failed (_multi_stream_xread and the cap of the buffer).
TradesWithoutGap ==
  adapter.trades # <<>> =>
    /\ Ascends(adapter.trades)
    /\ ToSet(adapter.trades) = {i \in adapter.trades[1]..adapter.lastId["trade_tick"] :
                                  log["trade_tick"][i].kind = "good"}

\* A stream is reported live only on a connection that never failed and with
\* an entry behind it: after one failed XREAD the tracker of this adapter
\* reports no stream live again (mark_connected, record_event, evaluate).
LiveIsBacked ==
  \A n \in StreamNames : adapter.status[n] = "live" => adapter.connected /\ adapter.cached[n] # 0

\* A stream ended by its client inside the loop leaves no Redis client open,
\* although a reconnect swaps adapters (tradehud_event_stream's handler).
CancelledClosesRedis == pc = "cancelled" => open = 0

Healthy == /\ enabled /\ redis = "up" /\ log["state_bundle"] # <<>>
           /\ \A i \in DOMAIN log["state_bundle"] : log["state_bundle"][i].kind # "rejected"
\* a reconnect whose XREVRANGE calls failed: nothing cached and "$" kept
Unseeded == useRedis /\ adapter.cached["account"] = 0 /\ adapter.cached["positions"] = 0

\* Once Redis stays up with a readable state bundle, a stream that is not
\* ended shows Redis data again (the reconnect interval, the cached client and
\* the fallback per event lead back from mock data), unless it reconnected
\* while the seeding reads failed: connect() then answers True all the same.
ReturnsToRedis ==
  <>[]Healthy => <>[]\/ pc \in {"stopped", "cancelled", "cancelled_early"}
                     \/ out = "redis" \/ Unseeded

\* Whatever fails and whenever the client leaves: the trades shown have no gap,
\* what is called live is, and no Redis client is left open
\* (tradehud_event_stream over RedisStreamAdapter and StreamHealthTracker).
StreamShowsRedis == TradesWithoutGap /\ LiveIsBacked /\ CancelledClosesRedis
===============================================================================
