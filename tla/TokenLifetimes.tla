----------------------------- MODULE TokenLifetimes -----------------------------
(***************************************************************************)
(* How long tokens last: two numbers of the environment, converted once    *)
(* (token.config.ts) and then used in three places that take them in       *)
(* different units: the exp claim of a token (auth.service.ts, signed with *)
(* seconds), its entry in Redis and its cookie (auth.controller.ts, both   *)
(* with milliseconds).  TokenRotation leaves out when things expire, and   *)
(* this module what becomes of them otherwise.                             *)
(***************************************************************************)
EXTENDS Naturals

CONSTANTS
    AccessMinutes,   \* JWT_ACCESS_TOKEN_EXPIRES_IN_MINUTES
    RefreshDays,     \* JWT_REFRESH_TOKEN_EXPIRES_IN_DAYS
    Never

VARIABLES
    now,      \* in seconds; it moves from one end of something to the next
    minted,   \* when the pair of tokens was minted, or Never
    ends      \* ends[x]: when x ends, or Never where there is no x

vars == <<now, minted, ends>>

Timed == {"access token", "access cookie", "blacklist entry",
          "refresh token", "refresh cookie", "whitelist entry"}

-----------------------------------------------------------------------------
\* The functions of ms (convert-milliseconds.util.ts) that the configuration uses.
seconds(time) == time * 1000
days(time) == time * 86400000

accessExpiresIn == seconds(AccessMinutes)
refreshExpiresIn == days(RefreshDays)

\* A number as the second argument of sign is a number of seconds; ttl and maxAge
\* are milliseconds.
After(duration) == now + duration
AfterMilliseconds(duration) == now + duration \div 1000

There(x) == ends[x] # Never /\ now < ends[x]

\* Login: both tokens are signed, the refresh token is put onto the whitelist, and
\* the answer sets both cookies.
Login ==
    /\ minted = Never
    /\ minted' = now
    /\ ends' = [ends EXCEPT !["access token"] = After(accessExpiresIn),
                            !["refresh token"] = After(refreshExpiresIn),
                            !["whitelist entry"] = AfterMilliseconds(refreshExpiresIn),
                            !["access cookie"] = AfterMilliseconds(accessExpiresIn),
                            !["refresh cookie"] = AfterMilliseconds(refreshExpiresIn)]
    /\ UNCHANGED now

\* A reissue with this pair: it needs both cookies and the whitelist entry, which
\* it deletes, and puts the access token onto the blacklist, expired or not.
Reissue ==
    /\ There("refresh token") /\ There("whitelist entry")
    /\ There("refresh cookie") /\ There("access cookie")
    /\ ends' = [ends EXCEPT !["whitelist entry"] = Never,
                            !["blacklist entry"] = AfterMilliseconds(accessExpiresIn)]
    /\ UNCHANGED <<now, minted>>

\* Time passes to the next end of something, or to the end the environment gives
\* the access token.
AccessEnd == minted + 60 * AccessMinutes
Coming == {t \in {ends[x] : x \in {x \in Timed : ends[x] # Never}}
                    \cup (IF minted = Never THEN {} ELSE {AccessEnd}) : t > now}
Tick ==
    /\ \E t \in Coming : now' = t /\ \A s \in Coming : t <= s
    /\ UNCHANGED <<minted, ends>>

Init ==
    /\ now = 0
    /\ minted = Never
    /\ ends = [x \in Timed |-> Never]

Next == Login \/ Reissue \/ Tick

Spec == Init /\ [][Next]_vars

-----------------------------------------------------------------------------
\* The environment gives the access token a number of minutes: it and its cookie
\* are good for as long, and no longer.
AccessLastsMinutes ==
    minted # Never =>
        /\ There("access token") <=> now < AccessEnd
        /\ There("access cookie") <=> now < AccessEnd

=============================================================================
