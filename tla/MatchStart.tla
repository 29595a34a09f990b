----------------------------- MODULE MatchStart -----------------------------
(***************************************************************************)
(* How a match comes to start: players join teams and commit themselves,   *)
(* the game module goes through the states of a match, and the server      *)
(* fetches an id for the match from the statistics service meanwhile.      *)
(*                                                                         *)
(* The id is a configstring that both sides write: the game module empties *)
(* it to ask for a new id, the server's task puts the service's answer     *)
(* into it whenever that comes, and a match waits for it. Tasks are told   *)
(* to stop by one flag that they all share.                                *)
(*                                                                         *)
(* A server frame is: commands and votes; RunFrame; the queue of           *)
(* challengers and CheckStateAbort; the gametype's rules; the fetch tasks; *)
(* CheckMatchUuid. Time is counted in countdowns (5 s); two of them are    *)
(* the 10 s after which a countdown without an id is given up.             *)
(*                                                                         *)
(* What every module defines (the initial states, the next-state relation) *)
(* has the prefix Match here, so that one module can extend another part's *)
(* module as well.                                                         *)
(***************************************************************************)
EXTENDS Integers, FiniteSets

CONSTANTS
  Players,             \* client slots
  Gametypes,           \* what the map's gametype may be
  Refusable,           \* match states that a gametype may refuse to enter
  MaxStarted           \* bound on fetch tasks: no more can be started

\* No gametype's script refuses to go back to warmup.
ASSUME RulesAssumption ==
  /\ Gametypes \subseteq [teamBased : BOOLEAN, matchAbortDisabled : BOOLEAN, timed : BOOLEAN]
  /\ Gametypes # {}
  /\ Refusable \subseteq {"countdown", "playtime", "postmatch", "waitexit"}
  /\ MaxStarted \in Nat

VARIABLES
  phase,               \* part of the server's frame
  gametype, state, waiting, age, forceStart,  \* the match; age: time in the state
  team, ready,         \* of each player
  matchUuid,           \* CS_MATCHUUID
  loggedIn,            \* has the server a session at the service?
  continueFetch, flying, deferred, started,   \* fetch tasks: flag, and how many
  given,               \* ids that the service gave, 1 .. given
  agreed, used, lost, abandoned               \* what happened, for the properties

game   == <<state, waiting, age, forceStart, matchUuid>>
people == <<team, ready, agreed>>
fetch  == <<continueFetch, flying, deferred, started, given, lost, abandoned>>
matchVars == <<phase, gametype, game, people, fetch, loggedIn, used>>

\* "", the id that a loaded map has, and the id that stands for none
NoId == 0
ZeroId == -1
DummyId == -2

SPECTATOR == "spectator"
Teams == IF gametype.teamBased THEN {"alpha", "beta"} ELSE {"players"}

MatchInit ==
  /\ phase = "input" /\ gametype \in Gametypes
  /\ state = "warmup" /\ waiting = FALSE /\ age = 0 /\ forceStart = FALSE
  /\ team = [p \in Players |-> SPECTATOR] /\ ready = [p \in Players |-> FALSE]
  /\ matchUuid = ZeroId /\ loggedIn \in BOOLEAN
  /\ continueFetch = FALSE /\ flying = 0 /\ deferred = 0 /\ started = 0 /\ given = 0
  /\ agreed = ready /\ used = {} /\ lost = 0 /\ abandoned = 0

-----------------------------------------------------------------------------
(* States of the match *)

\* Wrong on purpose: the id of the last match is kept.
LaunchState_KeepsId(s, wait, force) ==
  \/ /\ state' = s /\ waiting' = wait /\ age' = 0
     /\ forceStart' = (force /\ s \notin {"warmup", "playtime"})
     /\ UNCHANGED matchUuid
  \/ /\ s \in Refusable
     /\ forceStart' = force /\ UNCHANGED <<state, waiting, age, matchUuid>>

\* G_Match_LaunchState, but for what comes before a match (StartMatch). The flags are
\* forceStart as the caller set it and waiting as the caller sets it afterwards.
LaunchState(s, wait, force) ==
  \/ /\ state' = s /\ waiting' = wait /\ age' = 0
     /\ forceStart' = (force /\ s \notin {"warmup", "playtime"})
     /\ matchUuid' = IF s = "countdown" THEN NoId ELSE matchUuid
  \/ /\ s \in Refusable
     /\ forceStart' = force /\ UNCHANGED <<state, waiting, age, matchUuid>>

InTeam(tm) == {p \in Players : tm[p] # SPECTATOR}

Enough(tm) ==
  IF gametype.teamBased THEN \A t \in Teams : \E p \in Players : tm[p] = t
  ELSE \E p, q \in InTeam(tm) : p # q

AllReady(tm, rdy) == Enough(tm) /\ \A p \in InTeam(tm) : rdy[p]

\* Wrong on purpose: a countdown goes on with whoever is left.
CheckReadys_StartsOnly(tm, rdy) ==
  IF state = "warmup" /\ AllReady(tm, rdy) THEN LaunchState("countdown", FALSE, forceStart)
  ELSE UNCHANGED game

\* G_Match_CheckReadys
CheckReadys(tm, rdy) ==
  IF state = "warmup" /\ AllReady(tm, rdy)
  THEN LaunchState("countdown", FALSE, forceStart)
  ELSE IF state = "countdown" /\ ~forceStart /\ ~AllReady(tm, rdy)
  THEN LaunchState("warmup", FALSE, forceStart)
  ELSE UNCHANGED game

-----------------------------------------------------------------------------
(* Players, votes and the operator *)

\* Wrong on purpose: whoever changes teams is still ready.
SetTeam_KeepsReady(p, t) ==
  /\ t # SPECTATOR => state \notin {"postmatch", "waitexit"}
  /\ team'   = [team EXCEPT ![p] = t]
  /\ agreed' = [agreed EXCEPT ![p] = FALSE]
  /\ CheckReadys(team', ready) /\ UNCHANGED ready

\* G_Teams_SetTeam, when G_GameTypes_DenyJoinTeam does not object.
SetTeam(p, t) ==
  /\ t # SPECTATOR => state \notin {"postmatch", "waitexit"}
  /\ team'   = [team EXCEPT ![p] = t]
  /\ ready'  = [ready EXCEPT ![p] = FALSE]
  /\ agreed' = [agreed EXCEPT ![p] = FALSE]
  /\ CheckReadys(team', ready')

JoinTeam(p) == \E t \in (Teams \cup {SPECTATOR}) \ {team[p]} : SetTeam(p, t)

Ready(p) ==
  /\ state = "warmup" /\ team[p] # SPECTATOR /\ ~ready[p]
  /\ ready'  = [ready EXCEPT ![p] = TRUE]
  /\ agreed' = [agreed EXCEPT ![p] = TRUE]
  /\ CheckReadys(team, ready') /\ UNCHANGED team

NotReady(p) ==
  /\ state \in {"warmup", "countdown"} /\ team[p] # SPECTATOR /\ ready[p]
  /\ ready'  = [ready EXCEPT ![p] = FALSE]
  /\ agreed' = [agreed EXCEPT ![p] = FALSE]
  /\ CheckReadys(team, ready') /\ UNCHANGED team

\* ClientDisconnect: the slot's ready flag stays as it is.
Disconnect(p) ==
  /\ team'   = [team EXCEPT ![p] = SPECTATOR]
  /\ agreed' = [agreed EXCEPT ![p] = FALSE]
  /\ CheckReadys(team', ready) /\ UNCHANGED ready

\* G_VoteAllreadyPassed: the vote speaks for everybody in a team.
VoteAllready ==
  /\ state = "warmup" /\ \E p \in InTeam(team) : ~ready[p]
  /\ ready'  = [p \in Players |-> ready[p] \/ p \in InTeam(team)]
  /\ agreed' = [p \in Players |-> agreed[p] \/ p \in InTeam(team)]
  /\ CheckReadys(team, ready') /\ UNCHANGED team

\* Votes and commands that end a match, whatever its state (G_EndMatch).
EndMatch == LaunchState("postmatch", FALSE, forceStart) /\ UNCHANGED people

\* A map is loaded, or the level respawned without loading it.
NewLevel ==
  /\ phase = "input" /\ UNCHANGED phase
  /\ gametype' \in Gametypes
  /\ state' = "warmup" /\ waiting' = FALSE /\ age' = 0 /\ forceStart' = FALSE
  /\ team' = [p \in Players |-> SPECTATOR] /\ ready' = [p \in Players |-> FALSE]
  /\ agreed' = ready'
  /\ matchUuid' \in {matchUuid, ZeroId}

Commands ==
  /\ phase = "input"
  /\ \/ \E p \in Players : JoinTeam(p) \/ Ready(p) \/ NotReady(p) \/ Disconnect(p)
     \/ VoteAllready
     \/ EndMatch
  /\ UNCHANGED <<phase, gametype>>

-----------------------------------------------------------------------------
(* The game module's frame *)

\* G_RunFrame: the clock stands while a warmup waits for players.
RunFrame ==
  /\ phase = "input" /\ phase' = "gametype"
  /\ age' \in IF waiting THEN {0} ELSE {age, IF age < 2 THEN age + 1 ELSE 2}
  /\ UNCHANGED <<gametype, state, waiting, forceStart, matchUuid, people>>

\* G_Teams_ExecuteChallengersQueue puts somebody into a team. In a countdown it goes
\* back to warmup afterwards, forced or not; without teams even when it was refused.
ChallengerJoins ==
  /\ phase = "gametype" /\ state # "playtime"
  /\ \/ \E p \in Players \ InTeam(team), t \in Teams :
          IF state = "countdown" /\ forceStart
          THEN /\ team'   = [team EXCEPT ![p] = t]
               /\ ready'  = [ready EXCEPT ![p] = FALSE]
               /\ agreed' = [agreed EXCEPT ![p] = FALSE]
               /\ LaunchState("warmup", FALSE, forceStart)
          ELSE SetTeam(p, t)
     \/ /\ state = "countdown" /\ ~gametype.teamBased
        /\ LaunchState("warmup", FALSE, forceStart) /\ UNCHANGED people
  /\ UNCHANGED <<phase, gametype>>

\* G_Match_CheckStateAbort
CheckStateAbort ==
  /\ phase = "gametype" /\ phase' = "rules"
  /\ IF state \in {"postmatch", "waitexit"} \/ gametype.matchAbortDisabled
        \/ (waiting /\ Enough(team))
     THEN waiting' = FALSE /\ UNCHANGED <<state, age, forceStart, matchUuid>>
     ELSE IF state = "warmup" /\ ~Enough(team) /\ gametype.timed
     THEN waiting' = TRUE /\ UNCHANGED <<state, age, forceStart, matchUuid>>
     ELSE IF state = "countdown" /\ ~Enough(team)
     THEN LaunchState("warmup", TRUE, forceStart)
     ELSE IF state = "playtime" /\ ~Enough(team)
     THEN LaunchState("postmatch", FALSE, forceStart)
     ELSE UNCHANGED game
  /\ UNCHANGED <<gametype, people>>

\* The first part of G_Match_LaunchState: a match waits for its id, and a countdown
\* that has waited too long is given up, with an id that "won't be actually used".
StartMatch ==
  \/ matchUuid # NoId /\ LaunchState("playtime", FALSE, forceStart) /\ UNCHANGED people
  \/ matchUuid = NoId /\ age < 2 /\ UNCHANGED <<game, people>>
  \/ /\ matchUuid = NoId /\ age = 2
     /\ ready'  = [p \in Players |-> ready[p] /\ p \notin InTeam(team)]
     /\ agreed' = [p \in Players |-> agreed[p] /\ p \notin InTeam(team)]
     /\ state' = "warmup" /\ waiting' = FALSE /\ age' = 0 /\ forceStart' = FALSE
     /\ matchUuid' = DummyId /\ UNCHANGED team

\* GT_asCallThinkRules: the script goes on to the next state when a limit is hit
\* (G_Match_TimelimitHit forces the countdown). A countdown's limit is its length.
ThinkRules ==
  /\ phase = "rules" /\ phase' = "tasks"
  /\ \/ (state = "countdown" => age = 0) /\ UNCHANGED <<game, people>>
     \/ state = "warmup" /\ gametype.timed /\ age > 0
        /\ LaunchState("countdown", FALSE, TRUE) /\ UNCHANGED people
     \/ state = "countdown" /\ age > 0 /\ StartMatch
     \/ state = "playtime" /\ LaunchState("postmatch", FALSE, forceStart) /\ UNCHANGED people
     \/ state = "postmatch" /\ age > 0
        /\ LaunchState("waitexit", FALSE, forceStart) /\ UNCHANGED people
  /\ used' = IF state' = "playtime" THEN used \cup {matchUuid'} ELSE used
  /\ UNCHANGED gametype

-----------------------------------------------------------------------------
(* The server's tasks. Each id that the service gives is a new one.         *)

\* SVFetchMatchUuidTask::OnQuerySuccess, with an id or without
AnswerId ==
  /\ flying' = flying - 1 /\ given' = given + 1
  /\ matchUuid' = given' /\ continueFetch' = FALSE
  /\ lost' = IF matchUuid > 0 THEN lost + 1 ELSE lost
  /\ used' = IF state \in {"playtime", "postmatch"} THEN used \cup {given'} ELSE used
  /\ UNCHANGED <<deferred, started, abandoned, state, waiting, age, forceStart>>

AnswerBad ==
  /\ flying' = flying - 1 /\ continueFetch' = FALSE
  /\ UNCHANGED <<deferred, started, given, lost, abandoned, game, used>>

\* The query failed: StatsowNetworkTask::CheckStatus defers it or gives it up.
AnswerFails ==
  /\ flying' = flying - 1
  /\ deferred' = IF continueFetch THEN deferred + 1 ELSE deferred
  /\ UNCHANGED <<continueFetch, started, given, lost, abandoned, game, used>>

\* StatsowFacadeTask::CheckStatus sends a deferred query again, which may fail.
RetryDue ==
  /\ deferred > 0 /\ deferred' = deferred - 1
  /\ \/ continueFetch /\ flying' = flying + 1 /\ UNCHANGED continueFetch
     \/ continueFetch' = FALSE /\ UNCHANGED flying
  /\ UNCHANGED <<started, given, lost, abandoned, game, used>>

CheckTasks ==
  /\ phase = "tasks"
  /\ \/ flying > 0 /\ (AnswerId \/ AnswerBad \/ AnswerFails)
     \/ RetryDue
  /\ UNCHANGED <<phase, gametype, people>>

\* Wrong on purpose: does not ask whether a task is running already.
MayStart_Always == matchUuid = NoId /\ loggedIn

MayStart == matchUuid = NoId /\ loggedIn /\ ~continueFetch

\* SVStatsowFacade::CheckMatchUuid. A task that cannot be started is tried again.
CheckMatchUuid ==
  /\ phase = "tasks" /\ phase' = "input"
  /\ matchUuid' = IF matchUuid = NoId /\ ~loggedIn THEN DummyId ELSE matchUuid
  /\ abandoned' = IF matchUuid # NoId /\ continueFetch THEN abandoned + 1 ELSE abandoned
  /\ \/ UNCHANGED <<started, flying>>
     \/ MayStart /\ started < MaxStarted /\ started' = started + 1 /\ flying' = flying + 1
  /\ continueFetch' = (matchUuid = NoId /\ (continueFetch \/ started' > started))
  /\ UNCHANGED <<gametype, state, waiting, age, forceStart, people, deferred, given, lost, used>>

-----------------------------------------------------------------------------
MatchNext ==
  /\ \/ (Commands \/ NewLevel) /\ UNCHANGED <<fetch, used>>
     \/ (RunFrame \/ ChallengerJoins \/ CheckStateAbort) /\ UNCHANGED <<fetch, used>>
     \/ ThinkRules /\ UNCHANGED fetch
     \/ CheckTasks
     \/ CheckMatchUuid
  /\ UNCHANGED loggedIn

MatchSpec == MatchInit /\ [][MatchNext]_matchVars

-----------------------------------------------------------------------------
(* Properties *)

MatchStates == {"warmup", "countdown", "playtime", "postmatch", "waitexit"}

\* The state is well formed, and whoever counts as ready is a player who said so since
\* he joined his team, or for whom a vote said it.
MatchTypeOK ==
  /\ phase \in {"input", "gametype", "rules", "tasks"} /\ gametype \in Gametypes
  /\ state \in MatchStates /\ waiting \in BOOLEAN /\ age \in 0 .. 2 /\ forceStart \in BOOLEAN
  /\ team \in [Players -> {SPECTATOR} \cup Teams]
  /\ ready \in [Players -> BOOLEAN] /\ agreed \in [Players -> BOOLEAN]
  /\ loggedIn \in BOOLEAN /\ continueFetch \in BOOLEAN
  /\ {flying, deferred, started, given, lost, abandoned} \subseteq Nat
  /\ matchUuid \in {NoId, ZeroId, DummyId} \cup 1 .. given
  /\ used \subseteq {NoId, ZeroId, DummyId} \cup 1 .. given
  /\ \A p \in InTeam(team) : ready[p] => agreed[p]

\* A countdown that is not forced goes on only while everybody in a team has agreed and
\* the teams have enough players, whoever joins, leaves or changes his mind; and a match,
\* forced or not, starts only with enough players (where the gametype looks at that).
Agreed ==
  /\ state = "countdown" /\ ~forceStart =>
       Enough(team) /\ \A p \in InTeam(team) : agreed[p]
  /\ state = "countdown" /\ phase = "rules" =>
       Enough(team) \/ gametype.matchAbortDisabled

\* While the server is logged in, a match starts with an id that the service gave and
\* that no earlier match was played under, not even in part.
FreshIds ==
  [][state # "playtime" /\ state' = "playtime" /\ loggedIn =>
       matchUuid' \in (1 .. given') \ used]_matchVars

\* An id that the service gave is only overwritten by the answer to a fetch that was
\* given up while it was under way: one id at most for each of them.
IdsKept == lost <= abandoned
=============================================================================
