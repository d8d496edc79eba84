---------------------------- MODULE LocalAccounts ----------------------------
(***************************************************************************)
(* The accounts, sessions and connections of the store of a single         *)
(* process: class AccountStore of src/server/accountStore.ts.  Every       *)
(* change is persisted before the call returns, so a restart gives back    *)
(* what memory held, less the sessions that are over.  One account.        *)
(***************************************************************************)
EXTENDS Naturals, FiniteSets

CONSTANTS
  Sessions, Connections,
  None,
  Ttl,          \* sessionTtlMs
  AbsoluteTtl,  \* sessionAbsoluteTtlMs
  Cadence,      \* min(60 s, Ttl / 4): how often a use is written down
  MaxTime       \* bound of this model on the clock

VARIABLES
  now,
  session,      \* the map sessions; None is no entry
  connections,  \* the map connections: the status of each, None is no entry
  active,       \* settings.activeConnectionId
  knowledge,    \* connections with an entry in the map knowledge
  login, used, left  \* history: when each session was opened and last
                     \* accepted, and those that were revoked

vars == <<now, session, connections, active, knowledge, login, used, left>>

Least(a, b) == IF a < b THEN a ELSE b

Init ==
  /\ now = 0
  /\ session = [s \in Sessions |-> None]
  /\ connections = [c \in Connections |-> None]
  /\ active = None
  /\ knowledge = {}
  /\ login = [s \in Sessions |-> None]
  /\ used = [s \in Sessions |-> None]
  /\ left = {}

Held == {c \in Connections : connections[c] # None}

-----------------------------------------------------------------------------
(* Sessions.                                                               *)

\* createSession, on signup and login; its token is new.
Login(s) ==
  /\ login[s] = None
  /\ session' = [session EXCEPT ![s] = [seen |-> now, expires |-> now + Least(Ttl, AbsoluteTtl),
                                        end |-> now + AbsoluteTtl, revoked |-> FALSE]]
  /\ login' = [login EXCEPT ![s] = now]
  /\ used' = [used EXCEPT ![s] = now]
  /\ UNCHANGED <<now, connections, active, knowledge, left>>

Over(r) == r.revoked \/ r.expires <= now \/ r.end <= now
Accepted(s) == session[s] # None /\ ~Over(session[s])

\* Mutant of Seen: every use is taken as written down.
SeenAtEnd(r) == IF now - r.seen >= Ttl
                THEN [r EXCEPT !.seen = now, !.expires = Least(now + Ttl, r.end)] ELSE r

\* A use is written down at a bounded cadence.
Seen(r) == IF now - r.seen >= Cadence
           THEN [r EXCEPT !.seen = now, !.expires = Least(now + Ttl, r.end)] ELSE r

\* principalForSession: a session that is over is dropped.
Use(s) ==
  /\ session[s] # None
  /\ IF Accepted(s)
     THEN /\ session' = [session EXCEPT ![s] = Seen(@)]
          /\ used' = [used EXCEPT ![s] = now]
     ELSE session' = [session EXCEPT ![s] = None] /\ UNCHANGED used
  /\ UNCHANGED <<now, connections, active, knowledge, login, left>>

\* revokeSession, revokeAllSessions.
Revoke(S) ==
  /\ \E s \in S : session[s] # None
  /\ session' = [s \in Sessions |-> IF s \in S /\ session[s] # None
                                    THEN [session[s] EXCEPT !.revoked = TRUE] ELSE session[s]]
  /\ left' = left \cup {s \in S : session[s] # None}
  /\ UNCHANGED <<now, connections, active, knowledge, login, used>>

\* load: what is over is left behind.
Restart ==
  /\ session' = [s \in Sessions |-> IF Accepted(s) THEN session[s] ELSE None]
  /\ UNCHANGED <<now, connections, active, knowledge, login, used, left>>

Tick ==
  /\ now < MaxTime
  /\ now' = now + 1
  /\ UNCHANGED <<session, connections, active, knowledge, login, used, left>>

-----------------------------------------------------------------------------
(* Connections.                                                            *)

\* createConnection: the first one becomes the active one.
CreateConnection(c, status) ==
  /\ connections[c] = None
  /\ connections' = [connections EXCEPT ![c] = status]
  /\ active' = IF active = None THEN c ELSE active
  /\ UNCHANGED <<now, session, knowledge, login, used, left>>

\* updateConnection and markConnectionTest: what the last test said.
Test(c, status) ==
  /\ connections[c] # None
  /\ connections' = [connections EXCEPT ![c] = status]
  /\ UNCHANGED <<now, session, active, knowledge, login, used, left>>

\* updateSettings.
Choose(c) ==
  /\ c \in Held \cup {None}
  /\ active' = c
  /\ UNCHANGED <<now, session, connections, knowledge, login, used, left>>

\* saveConnectionKnowledge looks at the account only.
Learn(c) ==
  /\ knowledge' = knowledge \cup {c}
  /\ UNCHANGED <<now, session, connections, active, login, used, left>>

\* deleteConnection: the first of the others becomes the active one.
DeleteConnection(c) ==
  /\ connections[c] # None
  /\ connections' = [connections EXCEPT ![c] = None]
  /\ knowledge' = knowledge \ {c}
  /\ IF active # c THEN UNCHANGED active
     ELSE active' \in (IF Held = {c} THEN {None} ELSE Held \ {c})
  /\ UNCHANGED <<now, session, login, used, left>>

-----------------------------------------------------------------------------
Next ==
  \/ Restart \/ Tick
  \/ \E s \in Sessions : Login(s) \/ Use(s) \/ Revoke({s})
  \/ Revoke(Sessions)
  \/ \E c \in Connections :
       \/ Learn(c) \/ DeleteConnection(c)
       \/ \E status \in {"ready", "unavailable"} : CreateConnection(c, status) \/ Test(c, status)
  \/ \E c \in Connections \cup {None} : Choose(c)

Spec == Init /\ [][Next]_vars

-----------------------------------------------------------------------------
(* Properties.                                                             *)

\* However uses, restarts and time fall against the cadence at which uses are
\* written down: a session is never accepted after a logout, its absolute end or
\* Ttl without a use, and is never dropped while it is in use, which a viewer
\* would see as a logout in the middle of the work.
SessionLimits ==
  \A s \in Sessions :
    /\ Accepted(s) => s \notin left /\ now < login[s] + AbsoluteTtl /\ now < used[s] + Ttl
    /\ login[s] # None /\ now < login[s] + AbsoluteTtl /\ now <= used[s] + Ttl - Cadence
         => s \in left \/ Accepted(s)

\* The settings name a connection that exists, whichever order connections are
\* created, chosen and deleted in: a question without a connection goes to it.
ActiveExists == active # None => active \in Held
==============================================================================
