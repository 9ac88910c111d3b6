---------------------------- MODULE InitSession -----------------------------
(***************************************************************************)
(* Settings, init options, contexts and the one session of a process       *)
(* (rmw_init.c, zenoh_pico_session.c).  The setters change static          *)
(* variables; rmw_init_options_init copies them into parameters;           *)
(* rmw_init makes the first parameters the configuration of the session    *)
(* and counts every further context on the same session; the first         *)
(* rmw_create_node opens it.  Any allocation, configuration or opening may *)
(* fail, and the program goes on after an error.                           *)
(*                                                                         *)
(* A configuration is a mode and an address.  The model ends where the     *)
(* behaviour of the C program does (sound).                                *)
(***************************************************************************)
EXTENDS Naturals, FiniteSets

CONSTANTS Options, Contexts,    \* the program's rmw_init_options_t and rmw_context_t
          Params,               \* bound of the model: ZenohPicoTransportParams at a time
          Addresses,            \* what an address setting may be
          TooLong,              \* the addresses that do not fit the parameters
          Transport,            \* of the build
          Null,
          AbandonMax            \* bound of the model: contexts that are overwritten

Modes == {"client", "peer", "serial"}
Transports == {"unicast", "multicast", "serial"}

ASSUME TransportAssumption == Transport \in Transports
ASSUME AddressAssumption == TooLong \subseteq Addresses
ASSUME NullAssumption == Null \notin Params
ASSUME SetsAssumption == IsFiniteSet(Contexts) /\ AbandonMax \in Nat

VARIABLES
    setting,    \* the static variables: mode (or "unset") and address
    options,    \* per options object: identifier set, impl
    params,     \* the parameters that are allocated, with their configuration
    context,    \* per context: identifier set, impl set
    session,    \* _zenohSession: ref, config, enabled, and whether zenoh has it open and with what
    sound,      \* the behaviour so far is defined
    chosen,     \* history: the configuration rmw_init made the session with
    abandoned,  \* history: contexts overwritten while they had the session
    slips       \* history: what may lead to undefined behaviour

vars == <<setting, options, params, context, session, sound, chosen, abandoned, slips>>

Config == [mode : Modes, address : Addresses]
\* What becomes of a configuration: none is set, or z_open has taken it.
NoConfig == [mode |-> "none", address |-> "none"]
Moved == [mode |-> "none", address |-> "moved"]
\* What zenoh opens with when it is passed a configuration that was taken before.
Default == [mode |-> "none", address |-> "default"]
Closed == [mode |-> "none", address |-> "closed"]
Slips == {"sharedParams", "lastRelease"}

TypeOK ==
    /\ setting \in [mode : Modes \cup {"unset"}, address : Addresses]
    /\ options \in [Options -> [id : BOOLEAN, impl : Params \cup {Null}]]
    /\ DOMAIN params \subseteq Params /\ \A p \in DOMAIN params : params[p] \in Config
    /\ context \in [Contexts -> [id : BOOLEAN, impl : BOOLEAN]]
    /\ session \in [ref : Nat, config : Config \cup {NoConfig, Moved}, enabled : BOOLEAN,
                    open : Config \cup {Default, Closed}]
    /\ sound \in BOOLEAN
    /\ chosen \in Config \cup {NoConfig}
    /\ abandoned \in 0..AbandonMax
    /\ slips \subseteq Slips

Init ==
    /\ setting \in [mode : {"unset"}, address : Addresses]
    /\ options = [o \in Options |-> [id |-> FALSE, impl |-> Null]]
    /\ params = [p \in {} |-> NoConfig]
    /\ context = [c \in Contexts |-> [id |-> FALSE, impl |-> FALSE]]
    /\ session = [ref |-> 0, config |-> NoConfig, enabled |-> FALSE, open |-> Closed]
    /\ sound = TRUE
    /\ chosen = NoConfig
    /\ abandoned = 0
    /\ slips = {}

-----------------------------------------------------------------------------
(* Settings and options.                                                   *)

\* rmw_zenoh_pico_set_mode; any other text is ignored.
SetMode(mode) ==
    /\ mode \in Modes
    /\ setting' = [setting EXCEPT !.mode = mode]
    /\ UNCHANGED <<options, params, context, session, sound, chosen, abandoned, slips>>

\* rmw_zenoh_pico_set_unicast, _set_mcast and _set_serial_device.
SetAddress(address) ==
    /\ setting' = [setting EXCEPT !.address = address]
    /\ UNCHANGED <<options, params, context, session, sound, chosen, abandoned, slips>>

DefaultMode == CASE Transport = "unicast" -> "client"
                 [] Transport = "multicast" -> "peer"
                 [] Transport = "serial" -> "serial"

\* rmw_zenoh_pico_init_option: the settings of this moment.
Current == [mode |-> IF setting.mode = "unset" THEN DefaultMode ELSE setting.mode,
            address |-> setting.address]

Allocated(p, config) == [q \in DOMAIN params \cup {p} |-> IF q = p THEN config ELSE params[q]]
Freed(p) == [q \in DOMAIN params \ {p} |-> params[q]]

\* rmw_init_options_init.  An error leaves the options with the identifier and no parameters.
OptionsInit(o) ==
    /\ ~options[o].id
    /\ \/ /\ setting.address \notin TooLong
          /\ \E p \in Params \ DOMAIN params :
                 /\ params' = Allocated(p, Current)
                 /\ options' = [options EXCEPT ![o] = [id |-> TRUE, impl |-> p]]
       \/ /\ options' = [options EXCEPT ![o].id = TRUE]
          /\ UNCHANGED params
    /\ UNCHANGED <<setting, context, session, sound, chosen, abandoned, slips>>

\* rmw_init_options_copy.  The structure is copied before the parameters are: when there is no
\* memory for these, the copy is left with the parameters of the source.
OptionsCopy(o, dst) ==
    /\ options[o].id /\ ~options[dst].id
    /\ \/ /\ options[o].impl # Null
          /\ \/ /\ options[o].impl \in DOMAIN params
                /\ \E p \in Params \ DOMAIN params :
                       /\ params' = Allocated(p, params[options[o].impl])
                       /\ options' = [options EXCEPT ![dst] = [id |-> TRUE, impl |-> p]]
                /\ UNCHANGED <<sound, slips>>
             \/ /\ options[o].impl \notin DOMAIN params
                /\ sound' = FALSE
                /\ UNCHANGED <<params, options, slips>>
             \/ /\ options' = [options EXCEPT ![dst] = options[o]]
                /\ slips' = slips \cup {"sharedParams"}
                /\ UNCHANGED <<params, sound>>
       \/ /\ options[o].impl = Null
          /\ options' = [options EXCEPT ![dst] = options[o]]
          /\ UNCHANGED <<params, sound, slips>>
    /\ UNCHANGED <<setting, context, session, chosen, abandoned>>

\* Variant used by no specification: the pointer is kept.
OptionsFiniDangling(o) ==
    LET p == options[o].impl IN
    /\ options[o].id /\ p # Null
    /\ IF p \in DOMAIN params THEN params' = Freed(p) /\ UNCHANGED sound
                             ELSE sound' = FALSE /\ UNCHANGED params
    /\ UNCHANGED <<setting, options, context, session, chosen, abandoned, slips>>

\* rmw_init_options_fini.  The identifier stays.
OptionsFini(o) ==
    LET p == options[o].impl IN
    /\ options[o].id /\ p # Null
    /\ IF p \in DOMAIN params
       THEN /\ params' = Freed(p)
            /\ options' = [options EXCEPT ![o].impl = Null]
            /\ UNCHANGED sound
       ELSE /\ sound' = FALSE
            /\ UNCHANGED <<params, options>>
    /\ UNCHANGED <<setting, context, session, chosen, abandoned, slips>>

\* The program zeroes options that it has finished, to use them again.
OptionsZero(o) ==
    /\ options[o].id /\ options[o].impl = Null
    /\ options' = [options EXCEPT ![o].id = FALSE]
    /\ UNCHANGED <<setting, params, context, session, sound, chosen, abandoned, slips>>

-----------------------------------------------------------------------------
(* Contexts and the session.                                               *)

\* Variants used by no specification: the newest configuration is used; a session that was
\* used before is not cleared.
GenerateSessionNewest(config) ==
    IF session.ref > 0
    THEN session' = [session EXCEPT !.ref = @ + 1, !.config = config] /\ UNCHANGED chosen
    ELSE /\ session' = [ref |-> 1, config |-> config, enabled |-> FALSE, open |-> Closed]
         /\ chosen' = config

GenerateSessionUncleared(config) ==
    /\ session' = [session EXCEPT !.ref = @ + 1, !.config = config]
    /\ chosen' = config

\* zenoh_pico_generate_session: a session in use is shared, whatever its configuration.
GenerateSession(config) ==
    IF session.ref > 0
    THEN session' = [session EXCEPT !.ref = @ + 1] /\ UNCHANGED chosen
    ELSE /\ session' = [ref |-> 1, config |-> config, enabled |-> FALSE, open |-> Closed]
         /\ chosen' = config

\* rmw_zenoh_pico_set_*_config: a configuration can be made of parameters.
Configurable == Transport # "serial"

\* rmw_init.  The context has its identifier before the configuration can fail.
RmwInit(o, c) ==
    LET p == options[o].impl IN
    /\ options[o].id /\ p # Null /\ ~context[c].id
    /\ IF p \notin DOMAIN params
       THEN /\ sound' = FALSE
            /\ UNCHANGED <<context, session, chosen>>
       ELSE /\ UNCHANGED sound
            /\ \/ /\ Configurable
                  /\ GenerateSession(params[p])
                  /\ context' = [context EXCEPT ![c] = [id |-> TRUE, impl |-> TRUE]]
               \/ /\ context' = [context EXCEPT ![c].id = TRUE]
                  /\ UNCHANGED <<session, chosen>>
    /\ UNCHANGED <<setting, options, params, abandoned, slips>>

\* session_connect, in rmw_create_node.  z_open takes the configuration also when it fails;
\* without its tasks the session is closed again.
Connect(c) ==
    /\ context[c].impl /\ ~session.enabled
    /\ \/ session' = [session EXCEPT !.config = Moved]
       \/ /\ session.config \in Config
          /\ session' = [session EXCEPT !.config = Moved, !.enabled = TRUE,
                                        !.open = session.config]
       \/ /\ session.config = Moved
          /\ session' = [session EXCEPT !.enabled = TRUE, !.open = Default]
    /\ UNCHANGED <<setting, options, params, context, sound, chosen, abandoned, slips>>

\* Variant used by no specification: the count is not looked at.
DestroySessionAlways ==
    /\ session' = [session EXCEPT !.ref = @ - 1, !.config = NoConfig, !.open = Closed]
    /\ sound' \in BOOLEAN
    /\ slips' = slips \cup {"lastRelease"}

\* zenoh_pico_destroy_session.  The last release frees the data of the graph guard condition,
\* which is the address of the function that would have made it: the program may end there.
\* enable_session stays as it is.
DestroySession ==
    IF session.ref > 1
    THEN session' = [session EXCEPT !.ref = @ - 1] /\ UNCHANGED <<sound, slips>>
    ELSE /\ session' = [session EXCEPT !.ref = 0, !.config = NoConfig, !.open = Closed]
         /\ sound' \in BOOLEAN
         /\ slips' = slips \cup {"lastRelease"}

\* rmw_shutdown ends with a zeroed context, rmw_context_fini alone with one that has no
\* session.  rmw_context_fini looks at no identifier.
ReleaseContext(c) ==
    IF context[c].impl THEN DestroySession ELSE UNCHANGED <<session, sound, slips>>

\* Variant used by no specification: the context keeps its session.
ContextFiniKeeping(c) ==
    /\ ReleaseContext(c)
    /\ UNCHANGED <<setting, options, params, context, chosen, abandoned>>

ContextFini(c) ==
    /\ ReleaseContext(c)
    /\ context' = [context EXCEPT ![c].impl = FALSE]
    /\ UNCHANGED <<setting, options, params, chosen, abandoned>>

Shutdown(c) ==
    /\ context[c].id
    /\ ReleaseContext(c)
    /\ context' = [context EXCEPT ![c] = [id |-> FALSE, impl |-> FALSE]]
    /\ UNCHANGED <<setting, options, params, chosen, abandoned>>

\* The program initializes a context again without shutting it down, as the examples do when
\* ROS_DOMAIN_ID is set (talker/main.c:82-108).
Abandon(c) ==
    /\ context[c].impl /\ abandoned < AbandonMax
    /\ context' = [context EXCEPT ![c] = [id |-> FALSE, impl |-> FALSE]]
    /\ abandoned' = abandoned + 1
    /\ UNCHANGED <<setting, options, params, session, sound, chosen, slips>>

-----------------------------------------------------------------------------

Next ==
    /\ sound
    /\ \/ \E mode \in Modes : SetMode(mode)
       \/ \E address \in Addresses : SetAddress(address)
       \/ \E o \in Options :
              \/ OptionsInit(o) \/ OptionsFini(o) \/ OptionsZero(o)
              \/ \E dst \in Options : OptionsCopy(o, dst)
              \/ \E c \in Contexts : RmwInit(o, c)
       \/ \E c \in Contexts : Connect(c) \/ Shutdown(c) \/ ContextFini(c) \/ Abandon(c)

Spec == Init /\ [][Next]_vars

-----------------------------------------------------------------------------
(* Properties.                                                             *)

Attached == {c \in Contexts : context[c].impl}

\* Whatever fails and in whatever order contexts are initialized, shut down twice or finished,
\* the session is counted once for each context that has it and each that was overwritten
\* (zenoh_pico_session.c:27-50, rmw_init.c:477-489).
ContextsAreCounted == session.ref = Cardinality(Attached) + abandoned

\* isEnableSession, which services and clients ask and session_connect trusts, is true for a
\* session in use only when zenoh has it open and its tasks run, also when the process
\* initializes again after a shutdown that left the flag set (zenoh_pico_session.c:46,85).
EnabledIsOpen == (session.ref > 0) => (session.enabled <=> session.open # Closed)

\* The session is open with the configuration of the context that made it, not with that of
\* a later one; only after a failed attempt to open it, it is another, the default of zenoh.
OpensAsFirstConfigured ==
    session.ref > 0 => /\ session.open \in {Closed, Default, chosen}
                       /\ session.config \in {Moved, chosen}

\* Each set of parameters belongs to one options object, which frees it, unless a copy failed
\* half way (rmw_init.c:262-274); and none is left without an owner.
ParamsHaveOneOwner ==
    /\ (sound /\ "sharedParams" \notin slips) =>
           \A o, u \in Options : options[o].impl = options[u].impl => o = u \/ options[o].impl = Null
    /\ \A p \in DOMAIN params : \E o \in Options : options[o].impl = p

\* No sequence of setters, options, contexts and failures reaches undefined behaviour without
\* a copy that failed half way or the release of the session by its last context.
UndefinedOnlyAfterSlip == ~sound => slips # {}

\* A session that is open stays open as long as a context has it: another context that fails to
\* initialize, shuts down or finishes does not close it (zenoh_pico_session.c:61).
OpenUntilLastRelease ==
    [][(session.open # Closed /\ session'.open = Closed) => Attached' = {} /\ abandoned' = 0]_vars

=============================================================================
