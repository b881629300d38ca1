----------------------------- MODULE MarketData -----------------------------
(***************************************************************************)
(* MarketDataCache (bot_v2/execution/market_data_cache.py) between the     *)
(* tasks of the bot and the exchange: prices and candles in one ordered    *)
(* dictionary with a time to live per kind, candles also in a file per     *)
(* symbol with a table of when each was fetched, and the ATR that the bot  *)
(* keeps per bar.  A piece of data is the time at which the exchange had   *)
(* it, so that how old an answer is can be told.                           *)
(***************************************************************************)
EXTENDS Integers, FiniteSets, SequencesExt

CONSTANTS
    Tasks,       \* tasks that ask at the same time
    Names,       \* the symbols in strategy_configs
    MaxSize,     \* max_size
    PriceTtl,    \* PRICE_TTL_SECONDS
    OhlcvTtl,    \* OHLCV_TTL_SECONDS
    BarLen,      \* seconds of a timeframe
    MaxAge,      \* BarLen * OHLCV_STALENESS_MULTIPLIER
    Timeout,     \* how long a request may take before it is given up
    MaxTime,     \* bound on the clock
    MaxFaults,   \* bound on failed writes
    MaxRestarts  \* bound on restarts

(* A price; the candles of a grid tick, which start-up loads too; the      *)
(* candles of the ATR, which are another number of bars.                   *)
Kinds == {"price", "grid", "atr"}
Keys == [kind : Kinds, name : Names]

ASSUME MarketDataAssumption ==
    /\ MaxSize \in Nat \ {0}
    /\ {PriceTtl, OhlcvTtl, BarLen, MaxAge, Timeout, MaxTime, MaxFaults, MaxRestarts} \subseteq Nat
    /\ BarLen > 0
    /\ PriceTtl > 0 /\ OhlcvTtl > 0
    /\ BarLen + OhlcvTtl <= MaxAge

VARIABLES
    now,       \* time.time()
    cache,     \* _cache, the least recently used entry first
    meta,      \* _metadata: when the candles of a key were fetched, or Never
    metaFile,  \* ohlcv_metadata.json
    parquet,   \* the candles in each file, or Never, or Torn
    atrCache,  \* _atr_cache: the candles each ATR was computed from, or Never
    fetch,     \* the request each task waits for, or Idle
    preload,   \* the request of _preload_symbol_data for each symbol, or Idle
    told,      \* the kind and age of the answer that this step gives, if any
    faults,
    restarts

disk == <<meta, metaFile, parquet>>
vars == <<now, cache, disk, atrCache, fetch, preload, told, faults, restarts>>

Never == -1
Torn == -2

Key(kind, name) == [kind |-> kind, name |-> name]
CandleKeys == {k \in Keys : k.kind # "price"}

Ttl(k) == IF k.kind = "price" THEN PriceTtl ELSE OhlcvTtl

Idle == [key |-> Key("price", "none"), asked |-> Never]
Ask(k) == [key |-> k, asked |-> now]

(* the bot takes no other work before preload_symbols() has returned *)
Ready == \A n \in Names : preload[n] = Idle

Fault == faults < MaxFaults /\ faults' = faults + 1

-----------------------------------------------------------------------------
(* The dictionary *)

Place(k) == {i \in DOMAIN cache : cache[i].key = k}
PlaceOf(k) == CHOOSE i \in Place(k) : TRUE
Entry(k) == cache[PlaceOf(k)]
Without(k) == IF Place(k) = {} THEN cache ELSE RemoveAt(cache, PlaceOf(k))

(* _is_expired() *)
IsExpired(e) == now >= e.stored + Ttl(e.key)

Hit(k) == Place(k) # {} /\ ~IsExpired(Entry(k))

(* move_to_end() *)
MovedToEnd(k) == Append(Without(k), Entry(k))

(* _evict_lru() with >= replaced by >, as a mutation *)
EvictLru_Late == IF Len(cache) <= MaxSize THEN cache ELSE Tail(cache)

(* _evict_lru(): it makes room even for a key that has its place already *)
EvictLru == IF Len(cache) < MaxSize THEN cache ELSE Tail(cache)

(* set_price(), set_ohlcv(): a key that is there keeps its place *)
SetEntry(k, data) ==
    LET e == [key |-> k, data |-> data, stored |-> now]
        room == EvictLru
        place == {i \in DOMAIN room : room[i].key = k}
    IN  cache' = IF place = {} THEN Append(room, e)
                 ELSE [i \in DOMAIN room |-> IF i \in place THEN e ELSE room[i]]

-----------------------------------------------------------------------------
(* The files *)

(* _is_disk_cache_fresh() *)
IsDiskCacheFresh(k) == meta[k] # Never /\ now - meta[k] < MaxAge

(* load_ohlcv_from_disk(): a file that is missing or unreadable is a miss *)
OnDisk(k) == IsDiskCacheFresh(k) /\ parquet[k] \notin {Never, Torn}

NoMeta == [k \in CandleKeys |-> Never]

(* save_ohlcv_to_disk(), _save_metadata(): the candles are written in      *)
(* place, then the table; a write that fails is only logged, and the table *)
(* in memory is then ahead of its file, or the file is cut short.          *)
SaveToDisk(k, data) ==
    \/ /\ parquet' = [parquet EXCEPT ![k] = data]
       /\ meta' = [meta EXCEPT ![k] = now]
       /\ \/ metaFile' = meta' /\ UNCHANGED faults
          \/ metaFile' \in {metaFile, NoMeta} /\ Fault
    \/ /\ parquet' \in {parquet, [parquet EXCEPT ![k] = Torn]}
       /\ Fault
       /\ UNCHANGED <<meta, metaFile>>

(* the table written before the candles, as a mutation *)
HalfSaved_MetaFirst(k, data) ==
    /\ metaFile' = [meta EXCEPT ![k] = now]
    /\ parquet' \in {parquet, [parquet EXCEPT ![k] = data]}

(* what the death of the process may leave of save_ohlcv_to_disk() *)
HalfSaved(k, data) ==
    \/ parquet' = [parquet EXCEPT ![k] = Torn] /\ UNCHANGED metaFile
    \/ /\ parquet' = [parquet EXCEPT ![k] = data]
       /\ metaFile' \in {metaFile, NoMeta}

-----------------------------------------------------------------------------
(* Answers *)

Bar(data) == data \div BarLen

(* _get_current_atr() reuses what it has, as a mutation *)
ReusesAtr_Always(n, data) == atrCache[n] # Never

(* _get_current_atr(): the last bar is the one the ATR was computed for *)
ReusesAtr(n, data) == atrCache[n] # Never /\ Bar(atrCache[n]) = Bar(data)

Told(kind, data) == told' = {[kind |-> kind, age |-> now - data]}
NothingTold == told' = {}

(* the caller has its price or its candles *)
Give(k, data) ==
    IF k.kind = "atr" /\ ReusesAtr(k.name, data)
    THEN Told("atr", atrCache[k.name]) /\ UNCHANGED atrCache
    ELSE /\ Told(k.kind, data)
         /\ atrCache' = IF k.kind = "atr" THEN [atrCache EXCEPT ![k.name] = data]
                        ELSE atrCache

(* get_market_price(), fetch_ohlcv(): the cache has it *)
FromMemory(k) ==
    /\ Ready
    /\ Hit(k)
    /\ cache' = MovedToEnd(k)
    /\ Give(k, Entry(k).data)
    /\ UNCHANGED <<now, disk, fetch, preload, faults, restarts>>

(* get_ohlcv(): the expired entry goes and the file answers, which is not  *)
(* put back into memory; candles read from a file have their times as the  *)
(* index and no "timestamp" column, so no ATR is reused or kept for them.  *)
FromDisk(k) ==
    /\ Ready
    /\ k \in CandleKeys
    /\ ~Hit(k)
    /\ OnDisk(k)
    /\ cache' = Without(k)
    /\ Told(k.kind, parquet[k])
    /\ UNCHANGED <<now, disk, atrCache, fetch, preload, faults, restarts>>

(* neither has it: the exchange is asked, and the task waits *)
Miss(t, k) ==
    /\ Ready
    /\ fetch[t] = Idle
    /\ ~Hit(k)
    /\ k \in CandleKeys => ~OnDisk(k)
    /\ cache' = Without(k)
    /\ fetch' = [fetch EXCEPT ![t] = Ask(k)]
    /\ NothingTold
    /\ UNCHANGED <<now, disk, atrCache, preload, faults, restarts>>

(* The answer of the exchange, true at some time since the request was     *)
(* made; another task may have asked later and been answered before.       *)
PriceArrives(t) ==
    /\ fetch[t] # Idle /\ fetch[t].key.kind = "price"
    /\ \E data \in fetch[t].asked..now :
        SetEntry(fetch[t].key, data) /\ Told("price", data)
    /\ fetch' = [fetch EXCEPT ![t] = Idle]
    /\ UNCHANGED <<now, disk, atrCache, preload, faults, restarts>>

CandlesArrive(t) ==
    /\ fetch[t].key \in CandleKeys
    /\ \E data \in fetch[t].asked..now :
        /\ SetEntry(fetch[t].key, data)
        /\ SaveToDisk(fetch[t].key, data)
        /\ Give(fetch[t].key, data)
    /\ fetch' = [fetch EXCEPT ![t] = Idle]
    /\ UNCHANGED <<now, preload, restarts>>

(* an error, an empty answer or a timeout *)
FetchFails(t) ==
    /\ fetch[t] # Idle
    /\ fetch' = [fetch EXCEPT ![t] = Idle]
    /\ NothingTold
    /\ UNCHANGED <<now, cache, disk, atrCache, preload, faults, restarts>>

-----------------------------------------------------------------------------
(* preload_symbols(): all symbols at once, the price and then the candles *)

PreloadPrice(n) ==
    /\ preload[n] # Idle /\ preload[n].key.kind = "price"
    /\ \/ \E data \in preload[n].asked..now : SetEntry(preload[n].key, data)
       \/ UNCHANGED cache   \* the ticker has no last price
    /\ preload' = [preload EXCEPT ![n] = Ask(Key("grid", n))]
    /\ NothingTold
    /\ UNCHANGED <<now, disk, atrCache, fetch, faults, restarts>>

PreloadCandles(n) ==
    /\ preload[n].key.kind = "grid"
    /\ \E data \in preload[n].asked..now :
        SetEntry(preload[n].key, data) /\ SaveToDisk(preload[n].key, data)
    /\ preload' = [preload EXCEPT ![n] = Idle]
    /\ NothingTold
    /\ UNCHANGED <<now, atrCache, fetch, restarts>>

PreloadFails(n) ==
    /\ preload[n] # Idle
    /\ preload' = [preload EXCEPT ![n] = Idle]
    /\ NothingTold
    /\ UNCHANGED <<now, cache, disk, atrCache, fetch, faults, restarts>>

-----------------------------------------------------------------------------
(* _load_metadata() of the next process, and its preload_symbols() *)
Reboots ==
    /\ cache' = <<>>
    /\ meta' = metaFile'
    /\ atrCache' = [n \in Names |-> Never]
    /\ fetch' = [t \in Tasks |-> Idle]
    /\ preload' = [n \in Names |-> Ask(Key("price", n))]
    /\ restarts < MaxRestarts /\ restarts' = restarts + 1
    /\ NothingTold
    /\ UNCHANGED <<now, faults>>

Restart == UNCHANGED <<metaFile, parquet>> /\ Reboots

(* the process dies while it writes the candles that have arrived *)
DiesInSave ==
    /\ \E r \in {fetch[t] : t \in Tasks} \cup {preload[n] : n \in Names} :
        /\ r.key \in CandleKeys
        /\ \E data \in r.asked..now : HalfSaved(r.key, data)
    /\ Reboots

(* Time passes, but no request waits longer than its timeout *)
Pass ==
    /\ now < MaxTime
    /\ \A t \in Tasks : fetch[t] # Idle => now < fetch[t].asked + Timeout
    /\ \A n \in Names : preload[n] # Idle => now < preload[n].asked + Timeout
    /\ now' = now + 1
    /\ NothingTold
    /\ UNCHANGED <<cache, disk, atrCache, fetch, preload, faults, restarts>>

Init ==
    /\ now = 0
    /\ cache = <<>>
    /\ meta = NoMeta
    /\ metaFile = NoMeta
    /\ parquet = [k \in CandleKeys |-> Never]
    /\ atrCache = [n \in Names |-> Never]
    /\ fetch = [t \in Tasks |-> Idle]
    /\ preload = [n \in Names |-> Ask(Key("price", n))]
    /\ told = {}
    /\ faults = 0
    /\ restarts = 0

Next ==
    \/ \E k \in Keys :
        FromMemory(k) \/ FromDisk(k) \/ \E t \in Tasks : Miss(t, k)
    \/ \E t \in Tasks :
        PriceArrives(t) \/ CandlesArrive(t) \/ FetchFails(t)
    \/ \E n \in Names : PreloadPrice(n) \/ PreloadCandles(n) \/ PreloadFails(n)
    \/ Restart
    \/ DiesInSave
    \/ Pass

Spec == Init /\ [][Next]_vars

-----------------------------------------------------------------------------
(* The variables have their types; the dictionary never outgrows max_size  *)
(* and holds a key at most once, though an answer may replace an entry     *)
(* that another task put there meanwhile.                                  *)
TypeOK ==
    /\ now \in 0..MaxTime
    /\ Len(cache) <= MaxSize
    /\ \A i \in DOMAIN cache : cache[i].key \in Keys /\ cache[i].stored \in 0..now
    /\ \A i, j \in DOMAIN cache : cache[i].key = cache[j].key => i = j
    /\ meta \in [CandleKeys -> Never..now]
    /\ metaFile \in [CandleKeys -> Never..now]
    /\ parquet \in [CandleKeys -> Torn..now]
    /\ atrCache \in [Names -> Never..now]
    /\ faults \in 0..MaxFaults /\ restarts \in 0..MaxRestarts

(* A price or a set of candles that a caller is given is not older than    *)
(* the time to live, or for candles the staleness bound of the file, plus  *)
(* the time a request may take: over any order of the answers of two       *)
(* tasks, failed writes, and a death between the two writes of             *)
(* save_ohlcv_to_disk().                                                   *)
AnswersAreFresh ==
    \A a \in told :
        /\ a.kind = "price" => a.age < PriceTtl + Timeout
        /\ a.kind = "grid" => a.age < MaxAge + Timeout

(* An ATR that a caller is given was computed from candles that are no     *)
(* older than that, although it is kept for a whole bar on top of what the *)
(* cache and the file allow the candles it is compared with.               *)
AtrIsFresh ==
    \A a \in told : a.kind = "atr" => a.age < MaxAge + Timeout
=============================================================================
