------------------------------ MODULE Accounts ------------------------------
(* Sign-in (internal/web/handlers/auth.go) and the sessions table it keeps *)
(* in internal/storage/sqlite_store.go: attempts per client are limited in *)
(* a window that opens with the first of them and lives in memory, while   *)
(* sessions are rows with an expiry.  Time counts half seconds, because    *)
(* the expiry is stored in whole seconds and compared in two ways.         *)
EXTENDS Naturals, Sequences

CONSTANTS ClientIPs, Tokens,
          LoginMaxAttempts, LoginWindow, SessionTTL,   \* the last two in half seconds
          MaxNow                                       \* bound on the clock

ASSUME AccountsAssumption ==
    {LoginMaxAttempts, LoginWindow, SessionTTL} \subseteq Nat \ {0} /\ MaxNow \in Nat

Nobody == 0

VARIABLES now,
          bucket,     \* per client: attempts in the window, and its end
          rows,       \* per token: the stored expiry, or Nobody
          admitted,   \* history: per client, the times of the attempts let through
          born,       \* history: per token, when it was issued
          signedOut   \* history: tokens that were logged out

accountVars == <<now, bucket, rows, admitted, born, signedOut>>

NoBucket == [count |-> 0, end |-> 0]

AccountsInit ==
    /\ now = 1 /\ bucket = [c \in ClientIPs |-> NoBucket] /\ rows = [k \in Tokens |-> Nobody]
    /\ admitted = [c \in ClientIPs |-> << >>]
    /\ born = [k \in Tokens |-> 0] /\ signedOut = {}

\* loginAllowed: the bucket after an attempt, and whether it goes through.
AttemptLate(b) ==
    IF b = NoBucket \/ now > b.end
    THEN <<[count |-> 1, end |-> now + LoginWindow], TRUE>>
    ELSE <<[b EXCEPT !.count = @ + 1], b.count <= LoginMaxAttempts>>
Attempt(b) ==
    IF b = NoBucket \/ now > b.end
    THEN <<[count |-> 1, end |-> now + LoginWindow], TRUE>>
    ELSE <<[b EXCEPT !.count = @ + 1], b.count + 1 <= LoginMaxAttempts>>

\* The expiry is formatted in whole seconds.
Stamp(t) == t - (t % 2)

Login(c, good) ==
    LET tried == Attempt(bucket[c])
    IN  /\ bucket[c].count <= LoginMaxAttempts \/ now > bucket[c].end   \* one refusal a window is enough
        /\ bucket' = [bucket EXCEPT ![c] = tried[1]]
        /\ admitted' = IF tried[2] THEN [admitted EXCEPT ![c] = Append(@, now)] ELSE admitted
        /\ IF tried[2] /\ good
           THEN \E k \in Tokens : /\ born[k] = 0
                                  /\ rows' = [rows EXCEPT ![k] = Stamp(now + SessionTTL)]
                                  /\ born' = [born EXCEPT ![k] = now]
           ELSE UNCHANGED <<rows, born>>
        /\ UNCHANGED <<now, signedOut>>

\* GetSession, which every authenticated request goes through.
Accepted(k) == rows[k] # Nobody /\ now <= rows[k]

Logout(k) ==
    /\ born[k] # 0 /\ k \notin signedOut
    /\ rows' = [rows EXCEPT ![k] = Nobody] /\ signedOut' = signedOut \cup {k}
    /\ UNCHANGED <<now, bucket, admitted, born>>

\* PurgeExpiredSessions, from the ticker: texts compare by the second.
ExpiredOn(t) == t <= Stamp(now)
Expired(t) == t < Stamp(now)
Purge ==
    /\ rows' = [k \in Tokens |-> IF rows[k] # Nobody /\ Expired(rows[k]) THEN Nobody ELSE rows[k]]
    /\ rows' # rows
    /\ UNCHANGED <<now, bucket, admitted, born, signedOut>>

\* The server restarts: the limiter forgets, the table stays.
Restart ==
    /\ bucket' = [c \in ClientIPs |-> NoBucket] /\ bucket' # bucket
    /\ admitted' = [c \in ClientIPs |-> << >>]
    /\ UNCHANGED <<now, rows, born, signedOut>>

Tick == now < MaxNow /\ now' = now + 1 /\ UNCHANGED <<bucket, rows, admitted, born, signedOut>>

AccountsNext ==
    \/ \E c \in ClientIPs, good \in BOOLEAN : Login(c, good)
    \/ \E k \in Tokens : Logout(k)
    \/ Purge \/ Restart \/ Tick

AccountsSpec == AccountsInit /\ [][AccountsNext]_accountVars

----------------------------------------------------------------------------

\* A session is accepted from its sign-in to the second of its expiry, or to
\* its logout, whatever the purges and restarts in between: the handler's
\* comment says "sessions survive server restarts".
SessionsHonoured ==
    \A k \in Tokens : Accepted(k) <=> (born[k] # 0 /\ k \notin signedOut /\ now <= Stamp(born[k] + SessionTTL))

\* Between two restarts no span as long as the window lets more than twice
\* the allowed attempts of a client through: that is what a window that opens
\* with its first attempt gives, and what it costs against a sliding one.
AttemptsBounded ==
    \A c \in ClientIPs : \A i, j \in DOMAIN admitted[c] :
        j = i + 2 * LoginMaxAttempts => admitted[c][j] >= admitted[c][i] + LoginWindow
============================================================================
