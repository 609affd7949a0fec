--------------------------- MODULE AtomicSettings ---------------------------
(***************************************************************************)
(* What debby::settings promises (include/pfs/debby/settings.hpp): a typed  *)
(* key-value store whose reads come with a default value.  get answers the  *)
(* default for an absent key; take also stores it, so that the settings     *)
(* hold what take answered.  Every call takes effect at one point.          *)
(*                                                                          *)
(* Where MayFail holds a call may fail with errc::backend_error, and leaves *)
(* the settings as they were; a take may also fail after its effect.        *)
(***************************************************************************)
EXTENDS SettingsInterface

(* keyvalue_database::get_or: no error for an absent key, but the default.  *)
GetOr(s, k, default) ==
    IF s[k] = Absent THEN Found(default) ELSE Lookup(s, k, default.type)

Settled(s, r) ==
    CASE r.op = "set"                       -> [s EXCEPT ![r.key] = r.val]
      [] r.op = "take" /\ s[r.key] = Absent -> [s EXCEPT ![r.key] = r.val]
      [] r.op = "remove"                    -> [s EXCEPT ![r.key] = Absent]
      [] OTHER                              -> s

Told(s, r) ==
    IF r.op \in {"get", "take"} THEN GetOr(s, r.key, r.val) ELSE Ok

-----------------------------------------------------------------------------
VARIABLES store, phase, call, answer

vars == <<store, phase, call, answer>>

Init ==
    /\ store = EmptyStore
    /\ phase = [c \in Clients |-> "idle"]
    /\ call = [c \in Clients |-> NoCall]
    /\ answer = [c \in Clients |-> NoAnswer]

Invoke(c) ==
    /\ phase[c] = "idle"
    /\ \E r \in SettingsRequests : call' = [call EXCEPT ![c] = r]
    /\ phase' = [phase EXCEPT ![c] = "called"]
    /\ UNCHANGED <<store, answer>>

Do(c) ==
    /\ phase[c] = "called"
    /\ store' = Settled(store, call[c])
    /\ answer' = [answer EXCEPT ![c] = Told(store, call[c])]
    /\ phase' = [phase EXCEPT ![c] = "answered"]
    /\ UNCHANGED call

DoFail(c) ==
    /\ MayFail
    /\ \/ phase[c] = "called"
       \/ phase[c] = "answered" /\ call[c].op = "take"
    /\ answer' = [answer EXCEPT ![c] = Fail("backend_error")]
    /\ phase' = [phase EXCEPT ![c] = "answered"]
    /\ UNCHANGED <<store, call>>

Return(c) ==
    /\ phase[c] = "answered"
    /\ phase' = [phase EXCEPT ![c] = "idle"]
    /\ call' = [call EXCEPT ![c] = NoCall]
    /\ answer' = [answer EXCEPT ![c] = NoAnswer]
    /\ UNCHANGED store

Next == \E c \in Clients : Invoke(c) \/ Do(c) \/ DoFail(c) \/ Return(c)

Spec == Init /\ [][Next]_vars
=============================================================================
