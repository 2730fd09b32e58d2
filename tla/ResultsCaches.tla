--------------------------- MODULE ResultsCaches ---------------------------
(***************************************************************************)
(* The results caches of the RotorHazard server: the result stored with    *)
(* every saved race, every heat and the event (RHData.py), the builds that *)
(* refresh them (Results.py), the two operations that change saved races   *)
(* (do_save_actions of RHRace.py and on_resave_laps of server.py) and the  *)
(* results page kept in memory (PageCache.py).                             *)
(*                                                                         *)
(* A stored result carries the token of the data (data_ver) and the token  *)
(* of the data it was built from (build_ver); it is valid when the two are *)
(* equal.  The content of a result is the set of <<race, version of its    *)
(* laps>> it was computed from.                                            *)
(*                                                                         *)
(* Every greenlet has a database session of its own (a scoped_session over *)
(* gevent's locals, expire_on_commit=False): a row it has loaded and still *)
(* refers to is not read again, so its copy keeps the tokens it had.  The  *)
(* event's result is in an options cache that all greenlets share.         *)
(*                                                                         *)
(* A heat here has no class: a class adds one more level of the same code. *)
(* The waits for a flag give up after five minutes, longer than any build; *)
(* that is left out.                                                       *)
(***************************************************************************)
EXTENDS Integers, Sequences, FiniteSets, SequencesExt

CONSTANTS
  Workers,        \* greenlets: socket handlers and the threads they spawn
  Free,           \* the value of cpu when every greenlet has yielded
  Races,          \* races saved or about to be saved
  SavedAtStart,   \* those saved before the start
  Heats, HeatOf,  \* heats, and the heat of each race
  Event,          \* stands for the event
  RequestKinds,   \* which requests are made
  MaxRequests,    \* bound: requests
  MaxVersion      \* bound: versions of the laps of a race

ASSUME CachesAssumption ==
  /\ Event \notin Races \cup Heats
  /\ Races \cap Heats = {}
  /\ SavedAtStart \subseteq Races
  /\ HeatOf \in [Races -> Heats]
  /\ IsFiniteSet(Races) /\ IsFiniteSet(Heats)
  /\ Free \notin Workers
  /\ MaxRequests \in Nat /\ MaxVersion \in Nat \ {0}

Rows == Races \cup Heats
Nodes == Rows \cup {Event}
Contents == SUBSET (Races \X (1..MaxVersion))

\* _cache_status and results.  0 stands for a token never given (None).
Status == [ver : Nat, built : Nat, res : Contents]
NoRow == [ver |-> 0, built |-> 0, res |-> {}]

Instructions == {"get", "sleep", "hold", "write", "rewrite", "recent", "put", "store",
                 "drop", "invalidate", "clearEvent", "page", "pageHeats", "pageHeat",
                 "keep", "show"}

\* A call of a get_results function that builds: node, the token it found, the
\* parts not yet merged, what is merged, the rows it loaded and how far it is.
Builds == [node : Nodes, token : Nat, todo : SUBSET Rows, acc : Contents,
           held : SUBSET Rows, at : {"parts", "wait", "calc", "read", "rank"}]

VARIABLES
  laps,     \* version of each race's laps; 0 before the race is saved
  db,       \* stored status and result of each node
  copies,   \* rows that each greenlet's session holds; NoRow if it does not
  page,     \* _valid and the results in _cache
  updating, \* _inUpdateCacheFlag
  calc,     \* in_calc_leaderboard_fn_flag
  prog,     \* what each greenlet has still to do
  calls,    \* the builds each greenlet is in, innermost first
  got,      \* results each greenlet has fetched in its request
  token,    \* do_save_actions: token
  now,      \* monotonic()
  asked,    \* requests so far; only the bound reads it
  clean,    \* laps were only written while no other greenlet had read any
  cpu       \* the greenlet that runs

stored == <<laps, db, now>>
flags == <<page, updating, calc>>
local == <<copies, prog, calls, got, token>>
vars == <<stored, flags, local, asked, clean, cpu>>

-----------------------------------------------------------------------------
(* What results are made of.                                               *)

Saved == {r \in Races : laps[r] > 0}
RacesOf(h) == {r \in Saved : HeatOf[r] = h}

\* The rows merged into n's result.
Parts(n) == IF n = Event THEN Heats ELSE IF n \in Heats THEN RacesOf(n) ELSE {}

\* The result of n computed from the laps as they are stored.
Current(n) ==
  {<<r, laps[r]>> : r \in IF n = Event THEN Saved
                          ELSE IF n \in Heats THEN RacesOf(n) ELSE {n} \cap Saved}

Valid(s) == s.ver = s.built

\* No races exist: the functions return None without a look at the cache.
NoRaces(n) == n \notin Races /\ Current(n) = {}

Busy(w) == prog[w] # <<>>

-----------------------------------------------------------------------------
(* Sessions.                                                               *)

Holds(w) == {n \in Rows : copies[w][n] # NoRow}

\* The status of n as w sees it, and copies after w loads the rows S.
View(w, n) == IF n \in Holds(w) THEN copies[w][n] ELSE db[n]
Loaded(w, S) == [copies EXCEPT ![w] = [n \in Rows |-> IF n \in S THEN View(w, n) ELSE @[n]]]
Dropped(w, S) == [copies EXCEPT ![w] = [n \in Rows |-> IF n \in S THEN NoRow ELSE @[n]]]

\* w writes a status to the nodes S; its own copies follow, others do not.
Write(w, S, s) ==
  /\ db' = [n \in Nodes |-> IF n \in S THEN s ELSE db[n]]
  /\ copies' = [copies EXCEPT ![w] = [n \in Rows |->
                  IF n \in S /\ n \in Holds(w) THEN s ELSE @[n]]]

\* A mutated form: build_ver is left out of the new status.
ClearedNoBuild(t) == [ver |-> t, res |-> {}]
Cleared(t) == [ver |-> t, built |-> 0, res |-> {}]

\* set_results_heat, set_results_savedRaceMeta, set_results_event: the token is
\* compared with the session's view.  Rows in release are dropped afterwards.
SetResults(w, n, t, content, release) ==
  LET s == [ver |-> t, built |-> t, res |-> content]
      ok == View(w, n).ver = t
  IN  /\ db' = IF ok THEN [db EXCEPT ![n] = s] ELSE db
      /\ copies' = [copies EXCEPT ![w] = [m \in Rows |->
                      IF m \in release THEN NoRow
                      ELSE IF ok /\ m = n /\ m \in Holds(w) THEN s ELSE @[m]]]

-----------------------------------------------------------------------------
(* Control.                                                                *)

On(w, i) == /\ cpu \in {w, Free}
            /\ calls[w] = <<>> /\ Busy(w) /\ Head(prog[w]).do = i
Arg(w) == Head(prog[w]).on
Do(i, n) == [do |-> i, on |-> n]

\* w goes on with p, at once or after a yield.
Proceed(w, p, yields) ==
  /\ prog' = [prog EXCEPT ![w] = p]
  /\ cpu' = IF yields \/ p = <<>> THEN Free ELSE w
Continue(w) == Proceed(w, Tail(prog[w]), FALSE)

Building(w, at) == /\ cpu \in {w, Free}
                   /\ calls[w] # <<>> /\ Head(calls[w]).at = at
-----------------------------------------------------------------------------
(* get_results_heat, get_results_savedRaceMeta, get_results_event.         *)

\* w calls for a result: its request does, or the build of a heat or the event.
Asks(w) == On(w, "get") \/ (Building(w, "parts") /\ Head(calls[w]).todo # {})
Asked(w) == IF calls[w] = <<>> THEN Arg(w)
            ELSE CHOOSE p \in Head(calls[w]).todo : TRUE
IsHit(w, n) == NoRaces(n) \/ Valid(View(w, n))

\* The call for n returns v to the innermost of stack, or to the request.
Return(w, stack, n, v) ==
  IF stack = <<>>
  THEN /\ calls' = [calls EXCEPT ![w] = <<>>]
       /\ got' = [got EXCEPT ![w][n] = v]
       /\ Continue(w)
  ELSE /\ calls' = [calls EXCEPT ![w] = <<[Head(stack) EXCEPT
                       !.todo = @ \ {n}, !.acc = @ \cup v]>> \o Tail(stack)]
       /\ cpu' = w
       /\ UNCHANGED <<got, prog>>

Hit(w) ==
  /\ Asks(w)
  /\ LET n == Asked(w) IN
       /\ IsHit(w, n)
       /\ Return(w, calls[w], n, IF NoRaces(n) THEN {} ELSE View(w, n).res)
  /\ UNCHANGED <<stored, flags, copies, token, asked, clean>>

\* The rows of the parts are loaded with one query, before any is built.
Miss(w) ==
  /\ Asks(w)
  /\ LET n == Asked(w)
         needed == ({n} \cap Rows) \cup Parts(n)
     IN  /\ ~IsHit(w, n)
         /\ calls' = [calls EXCEPT ![w] = <<[node |-> n, token |-> View(w, n).ver,
                        todo |-> Parts(n), acc |-> {}, held |-> needed \ Holds(w),
                        at |-> IF n \in Races THEN "wait" ELSE "parts"]>> \o @]
         /\ copies' = Loaded(w, needed)
  /\ cpu' = w
  /\ UNCHANGED <<stored, flags, prog, got, token, asked, clean>>

\* The innermost build of w goes on at p after a yield.
BuildOn(w, p, acc) ==
  /\ calls' = [calls EXCEPT ![w] = <<[Head(@) EXCEPT !.at = p, !.acc = acc]>> \o Tail(@)]
  /\ cpu' = Free
  /\ UNCHANGED <<stored, page, updating, copies, prog, got, token, asked, clean>>

\* calc_leaderboard: one calculation at a time; it sleeps before it reads the
\* laps and again before it is done.
StartCalc(w) ==
  /\ Building(w, "wait") /\ ~calc
  /\ calc' = TRUE
  /\ BuildOn(w, "calc", {})

WaitForCalc(w) ==
  /\ Building(w, "wait") /\ calc /\ cpu = w
  /\ BuildOn(w, "wait", {})
  /\ UNCHANGED calc

ReadLaps(w) ==
  /\ Building(w, "calc")
  /\ BuildOn(w, "read", Current(Head(calls[w]).node))
  /\ UNCHANGED calc

\* sort_and_rank_leaderboards sleeps.
Rank(w) ==
  /\ Building(w, "parts") /\ Head(calls[w]).todo = {}
  /\ BuildOn(w, "rank", Head(calls[w]).acc)
  /\ UNCHANGED calc

\* A mutated form: no finally: the flag is only reset when nothing else is being built.
FinishKeepFlag(w) ==
  /\ Building(w, "read") \/ Building(w, "rank")
  /\ LET b == Head(calls[w]) IN
       /\ calc' = (calc /\ (b.at = "rank" \/ Len(calls[w]) > 1))
       /\ SetResults(w, b.node, b.token, b.acc, b.held)
       /\ Return(w, Tail(calls[w]), b.node, b.acc)
  /\ UNCHANGED <<laps, now, page, updating, token, asked, clean>>

Finish(w) ==
  /\ Building(w, "read") \/ Building(w, "rank")
  /\ LET b == Head(calls[w]) IN
       /\ calc' = (calc /\ b.at = "rank")
       /\ SetResults(w, b.node, b.token, b.acc, b.held)
       /\ Return(w, Tail(calls[w]), b.node, b.acc)
  /\ UNCHANGED <<laps, now, page, updating, token, asked, clean>>

-----------------------------------------------------------------------------
(* The steps of requests and threads.                                      *)

Sleep(w) ==
  /\ On(w, "sleep")
  /\ Proceed(w, Tail(prog[w]), TRUE)
  /\ UNCHANGED <<stored, flags, copies, calls, got, token, asked, clean>>

\* A heat is loaded, or a race and its heat, for as long as the session lasts.
Hold(w) ==
  /\ On(w, "hold")
  /\ copies' = Loaded(w, {Arg(w)} \cup {HeatOf[r] : r \in {Arg(w)} \cap Races})
  /\ Continue(w)
  /\ UNCHANGED <<stored, flags, calls, got, token, asked, clean>>

\* A greenlet's session ends.
Drop(w) ==
  /\ On(w, "drop")
  /\ copies' = Dropped(w, Rows)
  /\ got' = [got EXCEPT ![w] = [n \in Nodes |-> {}]]
  /\ token' = [token EXCEPT ![w] = 0]
  /\ Continue(w)
  /\ UNCHANGED <<stored, flags, calls, asked, clean>>

\* No other greenlet is in a build, holds rows or has results it fetched.
Alone(w) == \A v \in Workers \ {w} :
              calls[v] = <<>> /\ Holds(v) = {} /\ \A n \in Nodes : got[v][n] = {}

\* do_save_actions from the new token to the rows of the race.  The row of the
\* race has a token of its own, which nothing compares with the others.
WriteRace(w) ==
  /\ On(w, "write")
  /\ LET r == Arg(w) IN
       /\ now' = now + 1
       /\ token' = [token EXCEPT ![w] = now + 1]
       /\ Write(w, {HeatOf[r], Event, r}, Cleared(now + 1))
       /\ laps' = [laps EXCEPT ![r] = 1]
  /\ clean' = (clean /\ Alone(w))
  /\ Continue(w)
  /\ UNCHANGED <<flags, calls, got, asked>>

\* result = self.get_results(): the current race, which was just saved.
TakeResult(w) ==
  /\ On(w, "recent")
  /\ got' = [got EXCEPT ![w][Arg(w)] = {<<Arg(w), 1>>}]
  /\ Proceed(w, Tail(prog[w]), TRUE)
  /\ UNCHANGED <<stored, flags, copies, calls, token, asked, clean>>

\* The new race is to be added to the results fetched before it was saved, which
\* sorts them anew and sleeps; results that were None are built.
PutResult(w) ==
  /\ On(w, "put")
  /\ LET n == Arg(w)
         none == got[w][n] = {}
     IN  Proceed(w, <<Do(IF none THEN "get" ELSE "store", n)>> \o Tail(prog[w]), ~none)
  /\ UNCHANGED <<stored, flags, copies, calls, got, token, asked, clean>>

StoreResult(w) ==
  /\ On(w, "store")
  /\ LET n == Arg(w)
         new == UNION {got[w][r] : r \in Races}
     IN  SetResults(w, n, token[w], got[w][n] \cup new, {})
  /\ Continue(w)
  /\ UNCHANGED <<laps, now, flags, calls, got, token, asked, clean>>

\* A mutated form: the result of the race itself is not cleared.
RewriteLapsOnly(w) ==
  /\ On(w, "rewrite")
  /\ LET r == Arg(w) IN
       /\ now' = now + 1
       /\ Write(w, {HeatOf[r]}, Cleared(now + 1))
       /\ laps' = [laps EXCEPT ![r] = @ + 1]
  /\ clean' = (clean /\ Alone(w))
  /\ Continue(w)
  /\ UNCHANGED <<flags, calls, got, token, asked>>

\* on_resave_laps, as far as it changes what is stored: the event's result stays.
RewriteLaps(w) ==
  /\ On(w, "rewrite")
  /\ LET r == Arg(w) IN
       /\ now' = now + 1
       /\ Write(w, {HeatOf[r], r}, Cleared(now + 1))
       /\ laps' = [laps EXCEPT ![r] = @ + 1]
  /\ clean' = (clean /\ Alone(w))
  /\ Continue(w)
  /\ UNCHANGED <<flags, calls, got, token, asked>>

ClearEvent(w) ==
  /\ On(w, "clearEvent")
  /\ now' = now + 1
  /\ Write(w, {Event}, Cleared(now + 1))
  /\ Continue(w)
  /\ UNCHANGED <<laps, flags, calls, got, token, asked, clean>>

-----------------------------------------------------------------------------
(* PageCache.                                                              *)

\* A mutated form: the page is not invalidated.
InvalidateNot(w) ==
  /\ On(w, "invalidate")
  /\ Continue(w)
  /\ UNCHANGED <<stored, flags, copies, calls, got, token, asked, clean>>

Invalidate(w) ==
  /\ On(w, "invalidate")
  /\ page' = [page EXCEPT !.valid = FALSE]
  /\ Continue(w)
  /\ UNCHANGED <<stored, updating, calc, copies, calls, got, token, asked, clean>>

\* get_cache, and update_cache for one who waited, when the page is valid.
GetPage(w) ==
  /\ On(w, "page") /\ page.valid
  /\ Continue(w)
  /\ UNCHANGED <<stored, flags, copies, calls, got, token, asked, clean>>

WaitForPage(w) ==
  /\ On(w, "page") /\ ~page.valid /\ updating /\ cpu = w
  /\ cpu' = Free
  /\ UNCHANGED <<stored, flags, local, asked, clean>>

HeatSteps == LET hs == SetToSeq(Heats)
             IN  [i \in 1..Len(hs) |-> Do("pageHeat", hs[i])]

\* _do_update_cache loads all heats, then goes through them.
BuildPage(w) ==
  /\ On(w, "page") /\ ~page.valid /\ ~updating
  /\ updating' = TRUE
  /\ copies' = Loaded(w, Heats)
  /\ Proceed(w, HeatSteps \o <<Do("sleep", Event), Do("get", Event), Do("show", Event)>>
              \o Tail(prog[w]), FALSE)
  /\ UNCHANGED <<stored, page, calc, calls, got, token, asked, clean>>

\* The results of the races rs of a heat h, with a sleep before each.
RaceSteps(h, rs) ==
  [i \in 1..(2 * Len(rs)) |-> IF i % 2 = 1 THEN Do("sleep", h) ELSE Do("get", rs[i \div 2])]

\* One heat of the page: its races, loaded with one query, and its result.  The
\* last race stays referenced by the loop's variable.
PageHeat(w) ==
  /\ On(w, "pageHeat")
  /\ LET h == Arg(w)
         rs == SetToSeq(RacesOf(h))
     IN  IF rs = <<>>
         THEN Continue(w) /\ UNCHANGED copies
         ELSE /\ copies' = Loaded(w, RacesOf(h))
              /\ Proceed(w, RaceSteps(h, rs) \o <<Do("keep", Last(rs)), Do("get", h)>>
                          \o Tail(prog[w]), FALSE)
  /\ UNCHANGED <<stored, flags, calls, got, token, asked, clean>>

Keep(w) ==
  /\ On(w, "keep")
  /\ copies' = Dropped(w, Races \ {Arg(w)})
  /\ Continue(w)
  /\ UNCHANGED <<stored, flags, calls, got, token, asked, clean>>

ShowPage(w) ==
  /\ On(w, "show")
  /\ page' = [valid |-> TRUE, shown |-> got[w]]
  /\ updating' = FALSE
  /\ copies' = Dropped(w, Rows)
  /\ got' = [got EXCEPT ![w] = [n \in Nodes |-> {}]]
  /\ Continue(w)
  /\ UNCHANGED <<stored, calc, calls, token, asked, clean>>
-----------------------------------------------------------------------------
(* Requests.  A thread spawned at the end of a request goes on in its slot. *)

Begin(w, kind, p) ==
  /\ cpu = Free /\ ~Busy(w)
  /\ kind \in RequestKinds /\ asked < MaxRequests
  /\ asked' = asked + 1
  /\ prog' = [prog EXCEPT ![w] = p]
  /\ cpu' = w
  /\ UNCHANGED <<stored, flags, copies, calls, got, token, clean>>

\* db.heat_results and db.event_results; that of a race is fetched by others.
ReadResults(w, n) == Begin(w, "read", <<Do("get", n), Do("drop", Event)>>)

\* emit_result_data, eventresults.results
ReadPage(w) == Begin(w, "page", <<Do("page", Event)>>)

\* do_save_actions, then rebuild_page_cache and emit_result_data_thread.
SaveSteps(r) ==
  LET h == HeatOf[r]
  IN  <<Do("hold", h), Do("get", h), Do("get", Event), Do("write", r),
        Do("recent", r), Do("put", h), Do("put", Event), Do("drop", Event),
        Do("sleep", Event), Do("invalidate", Event), Do("sleep", Event),
        Do("page", Event)>>

Save(w, r) ==
  /\ laps[r] = 0
  /\ \A v \in Workers : Do("write", r) \notin Range(prog[v])
  /\ Begin(w, "save", SaveSteps(r))

\* build_atomic_result_caches with build_atomic_results and emit_result_data_thread.
RebuildSteps(r) ==
  <<Do("drop", Event), Do("sleep", Event), Do("invalidate", Event), Do("hold", r),
    Do("sleep", Event), Do("clearEvent", Event), Do("get", r),
    Do("sleep", Event), Do("clearEvent", Event), Do("get", HeatOf[r]),
    Do("sleep", Event), Do("get", Event), Do("drop", Event),
    Do("sleep", Event), Do("page", Event)>>

\* on_resave_laps.  The result is fetched at once if r was raced last.
Resave(w, r) ==
  \E racedLast \in BOOLEAN :
    /\ laps[r] \in 1..(MaxVersion - 1)
    /\ \A v \in Workers : Do("rewrite", r) \notin Range(prog[v])
    /\ Begin(w, "resave", (IF racedLast THEN <<Do("rewrite", r), Do("get", r)>>
                           ELSE <<Do("rewrite", r)>>) \o RebuildSteps(r))

Request(w) ==
  \/ \E n \in Heats \cup {Event} : ReadResults(w, n)
  \/ ReadPage(w)
  \/ \E r \in Races : Save(w, r) \/ Resave(w, r)

Step(w) ==
  \/ Hit(w) \/ Miss(w) \/ StartCalc(w) \/ WaitForCalc(w) \/ ReadLaps(w)
  \/ Rank(w) \/ Finish(w)
  \/ Sleep(w) \/ Hold(w) \/ Drop(w) \/ WriteRace(w) \/ TakeResult(w) \/ PutResult(w)
  \/ StoreResult(w) \/ RewriteLaps(w) \/ ClearEvent(w)
  \/ Invalidate(w) \/ GetPage(w) \/ WaitForPage(w) \/ BuildPage(w) \/ PageHeat(w)
  \/ Keep(w) \/ ShowPage(w)

Next == \E w \in Workers : Request(w) \/ Step(w)

\* Results of the races saved before are all stored or all missing, and the page
\* is valid or not.
Init ==
  /\ laps = [r \in Races |-> IF r \in SavedAtStart THEN 1 ELSE 0]
  /\ now = 1
  /\ \E warm \in BOOLEAN, valid \in BOOLEAN :
       /\ db = [n \in Nodes |-> IF n \in Races \ SavedAtStart THEN NoRow
                                ELSE IF warm THEN [ver |-> 1, built |-> 1, res |-> Current(n)]
                                ELSE Cleared(1)]
       /\ page = [valid |-> valid, shown |-> [n \in Nodes |-> Current(n)]]
  /\ updating = FALSE /\ calc = FALSE
  /\ copies = [w \in Workers |-> [n \in Rows |-> NoRow]]
  /\ prog = [w \in Workers |-> <<>>]
  /\ calls = [w \in Workers |-> <<>>]
  /\ got = [w \in Workers |-> [n \in Nodes |-> {}]]
  /\ token = [w \in Workers |-> 0]
  /\ asked = 0 /\ clean = TRUE /\ cpu = Free

Spec == Init /\ [][Next]_vars

-----------------------------------------------------------------------------
(* Properties.                                                             *)

\* Every variable keeps its type.
TypeOK ==
  /\ laps \in [Races -> 0..MaxVersion]
  /\ db \in [Nodes -> Status]
  /\ copies \in [Workers -> [Rows -> Status]]
  /\ page \in [valid : BOOLEAN, shown : [Nodes -> Contents]]
  /\ updating \in BOOLEAN /\ calc \in BOOLEAN /\ clean \in BOOLEAN
  /\ prog \in [Workers -> Seq([do : Instructions, on : Nodes])]
  /\ calls \in [Workers -> Seq(Builds)]
  /\ got \in [Workers -> [Nodes -> Contents]]
  /\ token \in [Workers -> Nat]
  /\ now \in Nat /\ asked \in 0..MaxRequests
  /\ cpu \in Workers \cup {Free}

AtRest == \A w \in Workers : ~Busy(w)
Shows(n) == Valid(db[n]) => db[n].res = Current(n)

\* As long as laps are only written while no other greenlet is in the middle of
\* reading, a valid result of a saved race or a heat was computed from the laps
\* as they are now, however many build it at once and whether it was built or
\* added to by do_save_actions.
\* The event's result is current once the thread that on_resave_laps spawns has
\* cleared it.
StoredCurrent ==
  clean =>
    /\ \A n \in Saved \cup Heats : Shows(n)
    /\ (\A w \in Workers : Do("clearEvent", Event) \notin Range(prog[w])) => Shows(Event)

\* Under the same condition a page that is served again without a build shows
\* the current results of every race and heat when the server is at rest.
PageCurrent ==
  clean /\ AtRest /\ page.valid => \A n \in Rows : page.shown[n] = Current(n)

\* RHAPI.md:517: db.heat_results ensures the calculation is current.
HeatResultsCurrent == AtRest => \A h \in Heats : NoRaces(h) \/ Shows(h)

\* PageCache.py:5: the stored page is served directly if it is valid.  With no
\* writes that overlap anything it should then show the event as it is.
PageEventCurrent == clean /\ AtRest /\ page.valid => page.shown[Event] = Current(Event)

\* A flag that others wait for has one holder, who will reset it: the greenlet
\* in calc_leaderboard, and the one that builds the page.
Calculating(w) == calls[w] # <<>> /\ Head(calls[w]).at \in {"calc", "read"}
Updating(w) == Do("show", Event) \in Range(prog[w])
HeldByOne(flag, Holder(_)) ==
  /\ flag <=> \E w \in Workers : Holder(w)
  /\ \A v, w \in Workers : Holder(v) /\ Holder(w) => v = w
FlagsHeld == HeldByOne(calc, Calculating) /\ HeldByOne(updating, Updating)
=============================================================================
