-------------------------- MODULE SettingsInterface --------------------------
(***************************************************************************)
(* The calls of debby::settings (include/pfs/debby/settings.hpp).           *)
(***************************************************************************)
EXTENDS KvInterface

CONSTANTS
    SettingsRequests,   \* the calls that the threads make
    MayFail             \* whether the storage engine can fail

(* The value of a get or a take is its default, of the type to read.        *)
AllSettingsRequests ==
    [op : {"set", "get", "take"}, key : Keys, val : Values]
        \cup [op : {"remove"}, key : Keys]

ASSUME SettingsRequestsAssumption ==
    SettingsRequests \subseteq AllSettingsRequests
=============================================================================
