-------------------------- MODULE InitSessionProofs --------------------------
(***************************************************************************)
(* Proofs about InitSession, for any options objects, parameters and       *)
(* addresses and any finite number of contexts.                            *)
(***************************************************************************)
EXTENDS InitSession, FiniteSetTheorems, TLAPS

\* A session that nobody has is closed.
ClosedInv == session.ref = 0 => session.open = Closed

\* Options without the identifier have no parameters, and what options have is allocated
\* unless a copy failed half way.
AllocInv ==
    /\ \A o \in Options : ~options[o].id => options[o].impl = Null
    /\ "sharedParams" \notin slips =>
           \A o \in Options : options[o].impl \in DOMAIN params \cup {Null}

\* Without a copy that failed half way no two options have the same parameters.
OwnerInv ==
    "sharedParams" \notin slips =>
        \A o, u \in Options : options[o].impl = options[u].impl => o = u \/ options[o].impl = Null

\* No parameters are without options that have them.
NoOrphans == \A p \in DOMAIN params : \E o \in Options : options[o].impl = p

\* The first configuration is a proper one as long as the session is in use.
ChosenInv == session.ref > 0 => chosen \in Config

\* A context that has the session has the identifier, so that rmw_init refuses it.
ContextInv == \A c \in Contexts : context[c].impl => context[c].id

SessionInv == ContextInv /\ ContextsAreCounted /\ ClosedInv /\ EnabledIsOpen
              /\ OpensAsFirstConfigured /\ ChosenInv
ParamsInv == AllocInv /\ OwnerInv /\ NoOrphans

IInv == TypeOK /\ SessionInv /\ ParamsInv /\ UndefinedOnlyAfterSlip

-----------------------------------------------------------------------------
(* Contexts.                                                               *)

\* The contexts that have the session are finitely many.
LEMMA AttachedFinite == IsFiniteSet(Attached)
BY SetsAssumption, FS_Subset DEF Attached

\* rmw_init gives one more context the session.
LEMMA AttachOne ==
    ASSUME NEW c \in Contexts, ~context[c].impl, Attached' = Attached \cup {c}
    PROVE  Cardinality(Attached') = Cardinality(Attached) + 1
BY AttachedFinite, FS_AddElement DEF Attached

\* rmw_shutdown, rmw_context_fini and an overwritten context take one away.
LEMMA DetachOne ==
    ASSUME NEW c \in Contexts, context[c].impl, Attached' = Attached \ {c}
    PROVE  /\ Cardinality(Attached) \in Nat \ {0}
           /\ Cardinality(Attached') = Cardinality(Attached) - 1
<1>1. c \in Attached
  BY DEF Attached
<1>2. Cardinality(Attached) \in Nat /\ Attached # {}
  BY <1>1, AttachedFinite, FS_CardinalityType
<1>3. Cardinality(Attached) # 0
  BY <1>2, AttachedFinite, FS_EmptySet
<1> QED
  BY <1>1, <1>2, <1>3, AttachedFinite, FS_RemoveElement

\* A context that has the session is counted in it.
LEMMA AttachedIsCounted ==
    ASSUME TypeOK, ContextsAreCounted, NEW c \in Contexts, context[c].impl
    PROVE  session.ref > 0
<1>1. c \in Attached
  BY DEF Attached
<1>2. Cardinality(Attached) \in Nat /\ Cardinality(Attached) # 0
  BY <1>1, AttachedFinite, FS_CardinalityType, FS_EmptySet
<1> QED
  BY <1>2, SetsAssumption DEF TypeOK, ContextsAreCounted

-----------------------------------------------------------------------------
(* The invariant.                                                          *)

\* Before the first call nothing is allocated and the session is nobody's.
LEMMA InitInv == Init => IInv
<1> SUFFICES ASSUME Init PROVE IInv
  OBVIOUS
<1> USE DEF Init
<1>1. TypeOK
  BY SetsAssumption DEF TypeOK, NoConfig, Closed, Slips
<1>2. Attached = {} /\ Cardinality({}) = 0
  BY FS_EmptySet DEF Attached
<1>3. ContextsAreCounted /\ ContextInv
  BY <1>2 DEF ContextsAreCounted, ContextInv
<1>4. ClosedInv /\ EnabledIsOpen /\ OpensAsFirstConfigured /\ ChosenInv
  BY DEF ClosedInv, EnabledIsOpen, OpensAsFirstConfigured, ChosenInv
<1>5. ParamsInv /\ UndefinedOnlyAfterSlip
  BY DEF ParamsInv, AllocInv, OwnerInv, NoOrphans, UndefinedOnlyAfterSlip
<1> QED
  BY <1>1, <1>3, <1>4, <1>5 DEF IInv, SessionInv

\* A default mode is a mode.
LEMMA CurrentIsConfig == TypeOK => Current \in Config
BY TransportAssumption DEF TypeOK, Current, Config, DefaultMode, Transports, Modes

\* Frames: what the parts of the invariant speak about.
LEMMA SessionFrame ==
    ASSUME SessionInv, UNCHANGED <<context, session, chosen, abandoned>>
    PROVE  SessionInv'
BY DEF SessionInv, ContextInv, ContextsAreCounted, Attached, ClosedInv, EnabledIsOpen,
       OpensAsFirstConfigured, ChosenInv

\* The same of the options and their parameters.
LEMMA ParamsFrame ==
    ASSUME ParamsInv, UNCHANGED <<options, params>>,
           "sharedParams" \in slips => "sharedParams" \in slips'
    PROVE  ParamsInv'
BY DEF ParamsInv, AllocInv, OwnerInv, NoOrphans

\* The setters change the settings only.
LEMMA SettingStep ==
    ASSUME IInv, \/ \E mode \in Modes : SetMode(mode)
                 \/ \E address \in Addresses : SetAddress(address)
    PROVE  IInv'
<1>1. TypeOK'
  BY DEF IInv, TypeOK, SetMode, SetAddress
<1>2. UNCHANGED <<options, params, context, session, sound, chosen, abandoned, slips>>
  BY DEF SetMode, SetAddress
<1> QED
  BY <1>1, <1>2, SessionFrame, ParamsFrame DEF IInv, UndefinedOnlyAfterSlip

\* rmw_init_options_init: new parameters that only these options have, or none.
LEMMA OptionsInitStep ==
    ASSUME IInv, NEW o \in Options, OptionsInit(o)
    PROVE  IInv'
<1> USE NullAssumption
<1>1. UNCHANGED <<setting, context, session, sound, chosen, abandoned, slips>>
  BY DEF OptionsInit
<1>2. SessionInv' /\ UndefinedOnlyAfterSlip'
  BY <1>1, SessionFrame DEF IInv, UndefinedOnlyAfterSlip
<1>3. options[o].impl = Null
  BY DEF OptionsInit, IInv, ParamsInv, AllocInv
<1>4. ASSUME NEW p \in Params \ DOMAIN params, params' = Allocated(p, Current),
             options' = [options EXCEPT ![o] = [id |-> TRUE, impl |-> p]]
      PROVE  TypeOK' /\ ParamsInv'
  <2>1. DOMAIN params' = DOMAIN params \cup {p} /\ params'[p] = Current
        /\ \A q \in DOMAIN params : params'[q] = params[q]
    BY <1>4 DEF Allocated
  <2>2. options'[o].impl = p /\ \A u \in Options \ {o} : options'[u] = options[u]
    BY <1>4 DEF IInv, TypeOK
  <2>3. TypeOK'
    BY <1>1, <1>4, <2>1, CurrentIsConfig DEF IInv, TypeOK
  <2>4. AllocInv'
    BY <1>1, <1>4, <2>1, <2>2 DEF IInv, ParamsInv, AllocInv, TypeOK
  <2>5. OwnerInv'
    BY <1>1, <2>2 DEF IInv, ParamsInv, AllocInv, OwnerInv
  <2>6. NoOrphans'
    BY <1>3, <2>1, <2>2 DEF IInv, ParamsInv, NoOrphans, TypeOK
  <2> QED
    BY <2>3, <2>4, <2>5, <2>6 DEF ParamsInv
<1>5. ASSUME options' = [options EXCEPT ![o].id = TRUE], UNCHANGED params
      PROVE  TypeOK' /\ ParamsInv'
  <2>1. \A u \in Options : options'[u].impl = options[u].impl
    BY <1>5 DEF IInv, TypeOK
  <2>2. \A u \in Options : ~options'[u].id => ~options[u].id
    BY <1>5 DEF IInv, TypeOK
  <2>3. options' \in [Options -> [id : BOOLEAN, impl : Params \cup {Null}]]
    BY <1>5 DEF IInv, TypeOK
  <2>4. TypeOK'
    BY <1>1, <1>5, <2>3 DEF IInv, TypeOK
  <2> QED
    BY <1>1, <1>5, <2>1, <2>2, <2>4 DEF IInv, ParamsInv, AllocInv, OwnerInv, NoOrphans
<1> QED
  BY <1>2, <1>4, <1>5 DEF OptionsInit, IInv

\* rmw_init_options_copy: new parameters, an error, or parameters that two options have.
LEMMA OptionsCopyStep ==
    ASSUME IInv, NEW o \in Options, NEW dst \in Options, OptionsCopy(o, dst)
    PROVE  IInv'
<1> USE NullAssumption
<1>1. UNCHANGED <<setting, context, session, chosen, abandoned>>
  BY DEF OptionsCopy
<1>2. SessionInv'
  BY <1>1, SessionFrame DEF IInv
<1>3. options[dst].impl = Null /\ dst # o
  BY DEF OptionsCopy, IInv, ParamsInv, AllocInv
<1>4. ASSUME NEW p \in Params \ DOMAIN params, options[o].impl \in DOMAIN params,
             params' = Allocated(p, params[options[o].impl]),
             options' = [options EXCEPT ![dst] = [id |-> TRUE, impl |-> p]],
             UNCHANGED <<sound, slips>>
      PROVE  IInv'
  <2>1. DOMAIN params' = DOMAIN params \cup {p} /\ params'[p] = params[options[o].impl]
        /\ \A q \in DOMAIN params : params'[q] = params[q]
    BY <1>4 DEF Allocated
  <2>2. options'[dst].impl = p /\ \A u \in Options \ {dst} : options'[u] = options[u]
    BY <1>4 DEF IInv, TypeOK
  <2>3. TypeOK'
    BY <1>1, <1>4, <2>1 DEF IInv, TypeOK
  <2>4. AllocInv'
    BY <1>4, <2>1, <2>2 DEF IInv, ParamsInv, AllocInv, TypeOK
  <2>5. OwnerInv'
    BY <1>4, <2>2 DEF IInv, ParamsInv, AllocInv, OwnerInv
  <2>6. NoOrphans'
    BY <1>3, <2>1, <2>2 DEF IInv, ParamsInv, NoOrphans, TypeOK
  <2> QED
    BY <1>2, <1>4, <2>3, <2>4, <2>5, <2>6 DEF IInv, ParamsInv, UndefinedOnlyAfterSlip
<1>5. ASSUME options[o].impl # Null, options[o].impl \notin DOMAIN params, sound' = FALSE,
             UNCHANGED <<params, options, slips>>
      PROVE  IInv'
  <2>1. "sharedParams" \in slips
    BY <1>5 DEF IInv, ParamsInv, AllocInv
  <2> QED
    BY <1>1, <1>2, <1>5, <2>1, ParamsFrame DEF IInv, TypeOK, UndefinedOnlyAfterSlip
<1>6. ASSUME options' = [options EXCEPT ![dst] = options[o]], options[o].id,
             slips' = slips \cup {"sharedParams"}, UNCHANGED <<params, sound>>
      PROVE  IInv'
  <2>1. options'[dst] = options[o] /\ \A u \in Options \ {dst} : options'[u] = options[u]
    BY <1>6 DEF IInv, TypeOK
  <2>2. TypeOK'
    BY <1>1, <1>6 DEF IInv, TypeOK, Slips
  <2>3. ParamsInv'
    BY <1>3, <1>6, <2>1 DEF IInv, ParamsInv, AllocInv, OwnerInv, NoOrphans, TypeOK
  <2> QED
    BY <1>2, <1>6, <2>2, <2>3 DEF IInv, UndefinedOnlyAfterSlip
<1>7. ASSUME options[o].impl = Null, options' = [options EXCEPT ![dst] = options[o]],
             UNCHANGED <<params, sound, slips>>
      PROVE  IInv'
  <2>1. options'[dst] = options[o] /\ \A u \in Options \ {dst} : options'[u] = options[u]
    BY <1>7 DEF IInv, TypeOK
  <2>2. TypeOK'
    BY <1>1, <1>7 DEF IInv, TypeOK
  <2>3. ParamsInv'
    BY <1>3, <1>7, <2>1 DEF IInv, ParamsInv, AllocInv, OwnerInv, NoOrphans, TypeOK
  <2> QED
    BY <1>2, <1>7, <2>2, <2>3 DEF IInv, UndefinedOnlyAfterSlip
<1> QED
  BY <1>4, <1>5, <1>6, <1>7 DEF OptionsCopy

\* rmw_init_options_fini frees the parameters; zeroed options have none.
LEMMA OptionsFiniStep ==
    ASSUME IInv, NEW o \in Options, OptionsFini(o) \/ OptionsZero(o)
    PROVE  IInv'
<1> USE NullAssumption
<1>1. UNCHANGED <<setting, context, session, chosen, abandoned, slips>>
  BY DEF OptionsFini, OptionsZero
<1>2. SessionInv'
  BY <1>1, SessionFrame DEF IInv
<1>3. ASSUME options[o].impl \in DOMAIN params, options[o].id, params' = Freed(options[o].impl),
             options' = [options EXCEPT ![o].impl = Null], UNCHANGED sound
      PROVE  IInv'
  <2> DEFINE p == options[o].impl
  <2>1. DOMAIN params' = DOMAIN params \ {p}
        /\ \A q \in DOMAIN params \ {p} : params'[q] = params[q]
    BY <1>3 DEF Freed
  <2>2. options'[o].impl = Null /\ options'[o].id
        /\ \A u \in Options \ {o} : options'[u] = options[u]
    BY <1>3 DEF IInv, TypeOK
  <2>3. TypeOK'
    BY <1>1, <1>3, <2>1 DEF IInv, TypeOK
  <2>4. AllocInv'
    BY <1>1, <1>3, <2>1, <2>2 DEF IInv, ParamsInv, AllocInv, OwnerInv, TypeOK
  <2>5. OwnerInv'
    BY <1>1, <2>2 DEF IInv, ParamsInv, OwnerInv
  <2>6. NoOrphans'
    BY <2>1, <2>2 DEF IInv, ParamsInv, NoOrphans
  <2> QED
    BY <1>1, <1>2, <1>3, <2>3, <2>4, <2>5, <2>6 DEF IInv, ParamsInv, UndefinedOnlyAfterSlip
<1>4. ASSUME options[o].impl # Null, options[o].impl \notin DOMAIN params, sound' = FALSE,
             UNCHANGED <<params, options>>
      PROVE  IInv'
  <2>1. "sharedParams" \in slips
    BY <1>4 DEF IInv, ParamsInv, AllocInv
  <2> QED
    BY <1>1, <1>2, <1>4, <2>1, ParamsFrame DEF IInv, TypeOK, UndefinedOnlyAfterSlip
<1>5. CASE OptionsZero(o)
  <2>1. options[o].impl = Null /\ options' = [options EXCEPT ![o].id = FALSE]
        /\ UNCHANGED <<params, sound>>
    BY <1>5 DEF OptionsZero
  <2>2. /\ TypeOK'
        /\ \A u \in Options : options'[u].impl = options[u].impl
        /\ \A u \in Options \ {o} : options'[u].id = options[u].id
    BY <1>1, <2>1, ZenonT(60) DEF IInv, TypeOK
  <2>3. ParamsInv'
    BY <1>1, <2>1, <2>2 DEF IInv, ParamsInv, AllocInv, OwnerInv, NoOrphans
  <2> QED
    BY <1>1, <1>2, <2>1, <2>2, <2>3 DEF IInv, UndefinedOnlyAfterSlip
<1> QED
  BY <1>3, <1>4, <1>5 DEF OptionsFini

\* What a release of the session leaves: one reference less, and closed with the last one.
LEMMA ReleaseKeeps ==
    ASSUME TypeOK, session.ref > 0, DestroySession
    PROVE  /\ session' \in [ref : Nat, config : Config \cup {NoConfig, Moved},
                            enabled : BOOLEAN, open : Config \cup {Default, Closed}]
           /\ session'.ref = session.ref - 1
           /\ session.ref > 1 => /\ session'.open = session.open
                                 /\ session'.enabled = session.enabled
                                 /\ session'.config = session.config
           /\ session.ref = 1 => session'.open = Closed
           /\ sound' \in BOOLEAN /\ slips' \subseteq Slips
           /\ sound' # sound => slips' # {}
           /\ slips \subseteq slips' /\ ("sharedParams" \in slips' => "sharedParams" \in slips)
<1>1. CASE session.ref > 1
  <2>1. session' = [session EXCEPT !.ref = @ - 1] /\ UNCHANGED <<sound, slips>>
    BY <1>1 DEF DestroySession
  <2>2. session.ref - 1 \in Nat
    BY <1>1 DEF TypeOK
  <2> QED
    BY <1>1, <2>1, <2>2 DEF TypeOK
<1>2. CASE session.ref = 1
  <2>1. /\ session' = [session EXCEPT !.ref = 0, !.config = NoConfig, !.open = Closed]
        /\ sound' \in BOOLEAN /\ slips' = slips \cup {"lastRelease"}
    BY <1>2 DEF DestroySession
  <2>2. session' \in [ref : Nat, config : Config \cup {NoConfig, Moved},
                      enabled : BOOLEAN, open : Config \cup {Default, Closed}]
    BY <2>1 DEF TypeOK
  <2> QED
    BY <1>2, <2>1, <2>2 DEF TypeOK, Slips
<1> QED
  BY <1>1, <1>2 DEF TypeOK

\* The session parts of the invariant after a context has released its session.
LEMMA ReleaseSession ==
    ASSUME IInv, NEW c \in Contexts, context[c].impl, DestroySession,
           Attached' = Attached \ {c}, ContextInv', UNCHANGED <<chosen, abandoned>>
    PROVE  SessionInv'
<1>1. session.ref > 0
  BY AttachedIsCounted DEF IInv, SessionInv
<1>3. session.ref \in Nat /\ abandoned \in Nat
  BY SetsAssumption DEF IInv, TypeOK
<1>2. ContextsAreCounted'
  <2>1. session'.ref = session.ref - 1
    BY <1>1, ReleaseKeeps DEF IInv
  <2>2. Cardinality(Attached') = Cardinality(Attached) - 1 /\ Cardinality(Attached) \in Nat
    BY DetachOne
  <2>3. session.ref = Cardinality(Attached) + abandoned
    BY DEF IInv, SessionInv, ContextsAreCounted
  <2> QED
    BY <1>3, <2>1, <2>2, <2>3 DEF ContextsAreCounted
<1>4. ClosedInv' /\ EnabledIsOpen' /\ OpensAsFirstConfigured' /\ ChosenInv'
  BY <1>1, <1>3, ReleaseKeeps DEF IInv, SessionInv, ClosedInv, EnabledIsOpen,
     OpensAsFirstConfigured, ChosenInv
<1> QED
  BY <1>2, <1>4 DEF SessionInv

\* rmw_context_fini, rmw_shutdown: with a session or without.
LEMMA ReleaseStep ==
    ASSUME IInv, NEW c \in Contexts, ContextFini(c) \/ Shutdown(c)
    PROVE  IInv'
<1>1. UNCHANGED <<setting, options, params, chosen, abandoned>>
  BY DEF ContextFini, Shutdown
<1>2. /\ context' \in [Contexts -> [id : BOOLEAN, impl : BOOLEAN]]
      /\ ~context'[c].impl
      /\ \A d \in Contexts \ {c} : context'[d] = context[d]
  <2>1. CASE ContextFini(c)
    <3>1. context' = [context EXCEPT ![c].impl = FALSE]
      BY <2>1 DEF ContextFini
    <3> QED
      BY <3>1 DEF IInv, TypeOK
  <2>2. CASE Shutdown(c)
    <3>1. context' = [context EXCEPT ![c] = [id |-> FALSE, impl |-> FALSE]]
      BY <2>2 DEF Shutdown
    <3> QED
      BY <3>1 DEF IInv, TypeOK
  <2> QED
    BY <2>1, <2>2
<1>3. Attached' = Attached \ {c} /\ ContextInv'
  BY <1>2 DEF Attached, IInv, SessionInv, ContextInv
<1>4. CASE context[c].impl
  <2>1. DestroySession
    BY <1>4 DEF ContextFini, Shutdown, ReleaseContext
  <2>2. session.ref > 0
    BY <1>4, AttachedIsCounted DEF IInv, SessionInv
  <2>3. SessionInv'
    BY <1>1, <1>3, <1>4, <2>1, ReleaseSession
  <2>4. TypeOK'
    BY <1>1, <1>2, <2>1, <2>2, ReleaseKeeps DEF IInv, TypeOK
  <2>5. ParamsInv'
    BY <1>1, <2>1, <2>2, ReleaseKeeps, ParamsFrame DEF IInv
  <2>6. UndefinedOnlyAfterSlip'
    BY <2>1, <2>2, ReleaseKeeps DEF IInv, UndefinedOnlyAfterSlip
  <2> QED
    BY <2>3, <2>4, <2>5, <2>6 DEF IInv
<1>5. CASE ~context[c].impl
  <2>1. UNCHANGED <<session, sound, slips>>
    BY <1>5 DEF ContextFini, Shutdown, ReleaseContext
  <2>2. Attached' = Attached
    BY <1>3, <1>5 DEF Attached
  <2>3. SessionInv'
    BY <1>1, <1>3, <2>1, <2>2 DEF IInv, SessionInv, ContextsAreCounted, ClosedInv, EnabledIsOpen,
       OpensAsFirstConfigured, ChosenInv
  <2>4. TypeOK'
    BY <1>1, <1>2, <2>1 DEF IInv, TypeOK
  <2> QED
    BY <1>1, <2>1, <2>3, <2>4, ParamsFrame DEF IInv, UndefinedOnlyAfterSlip
<1> QED
  BY <1>4, <1>5

\* rmw_init: the first context makes the session, a further one shares it.
LEMMA RmwInitStep ==
    ASSUME IInv, NEW o \in Options, NEW c \in Contexts, RmwInit(o, c), sound
    PROVE  IInv'
<1> DEFINE p == options[o].impl
<1>1. UNCHANGED <<setting, options, params, abandoned, slips>>
  BY DEF RmwInit
<1>2. ParamsInv'
  BY <1>1, ParamsFrame DEF IInv
<1>3. CASE p \notin DOMAIN params
  <2>1. p # Null /\ sound' = FALSE /\ UNCHANGED <<context, session, chosen>>
    BY <1>3 DEF RmwInit
  <2>2. "sharedParams" \in slips
    BY <1>3, <2>1 DEF IInv, ParamsInv, AllocInv
  <2> QED
    BY <1>1, <1>2, <2>1, <2>2, SessionFrame DEF IInv, TypeOK, UndefinedOnlyAfterSlip
<1>4. ASSUME p \in DOMAIN params, GenerateSession(params[p]), ~context[c].id, UNCHANGED sound,
             context' = [context EXCEPT ![c] = [id |-> TRUE, impl |-> TRUE]]
      PROVE  IInv'
  <2>1. params[p] \in Config
    BY <1>4 DEF IInv, TypeOK
  <2>2. /\ context' \in [Contexts -> [id : BOOLEAN, impl : BOOLEAN]]
        /\ Attached' = Attached \cup {c} /\ ContextInv'
    BY <1>4 DEF IInv, TypeOK, Attached, SessionInv, ContextInv
  <2>3. CASE ~context[c].impl
    <3>1. Cardinality(Attached') = Cardinality(Attached) + 1 /\ Cardinality(Attached) \in Nat
      BY <2>2, <2>3, AttachOne, AttachedFinite, FS_CardinalityType
    <3>2. CASE session.ref > 0
      <4>1. session' = [session EXCEPT !.ref = @ + 1] /\ UNCHANGED chosen
        BY <1>4, <3>2 DEF GenerateSession
      <4>2. TypeOK'
        BY <1>1, <1>4, <2>2, <4>1 DEF IInv, TypeOK
      <4>3. session'.ref = session.ref + 1 /\ session'.open = session.open
            /\ session'.enabled = session.enabled /\ session'.config = session.config
        BY <4>1 DEF IInv, TypeOK
      <4>4. SessionInv'
        BY <1>1, <2>2, <3>1, <3>2, <4>1, <4>3, SetsAssumption DEF IInv, TypeOK, SessionInv,
           ContextsAreCounted, ClosedInv, EnabledIsOpen, OpensAsFirstConfigured, ChosenInv
      <4> QED
        BY <1>1, <1>2, <1>4, <4>2, <4>4 DEF IInv, UndefinedOnlyAfterSlip
    <3>3. CASE ~(session.ref > 0)
      <4>1. /\ session' = [ref |-> 1, config |-> params[p], enabled |-> FALSE, open |-> Closed]
            /\ chosen' = params[p]
        BY <1>4, <3>3 DEF GenerateSession
      <4>2. TypeOK'
        BY <1>1, <1>4, <2>1, <2>2, <4>1 DEF IInv, TypeOK
      <4>3. session.ref = 0
        BY <3>3 DEF IInv, TypeOK
      <4>4. SessionInv'
        BY <1>1, <2>1, <2>2, <3>1, <4>1, <4>3, SetsAssumption DEF IInv, TypeOK, SessionInv,
           ContextsAreCounted, ClosedInv, EnabledIsOpen, OpensAsFirstConfigured, ChosenInv
      <4> QED
        BY <1>1, <1>2, <1>4, <4>2, <4>4 DEF IInv, UndefinedOnlyAfterSlip
    <3> QED
      BY <3>2, <3>3
  <2>4. CASE context[c].impl
    BY <1>4, <2>4 DEF IInv, SessionInv, ContextInv
  <2> QED
    BY <2>3, <2>4
<1>5. ASSUME context' = [context EXCEPT ![c].id = TRUE], UNCHANGED <<sound, session, chosen>>
      PROVE  IInv'
  <2>1. context' \in [Contexts -> [id : BOOLEAN, impl : BOOLEAN]]
    BY <1>5 DEF IInv, TypeOK
  <2>2. \A d \in Contexts : context'[d].impl = context[d].impl
    BY <1>5 DEF IInv, TypeOK
  <2>3. Attached' = Attached /\ ContextInv'
    <3>1. \A d \in Contexts : context'[d].id = context[d].id \/ context'[d].id
      BY <1>5, ZenonT(60) DEF IInv, TypeOK
    <3> QED
      BY <2>2, <3>1 DEF Attached, IInv, SessionInv, ContextInv
  <2>4. TypeOK'
    BY <1>1, <1>5, <2>1 DEF IInv, TypeOK
  <2>5. SessionInv'
    BY <1>1, <1>5, <2>3 DEF IInv, SessionInv, ContextsAreCounted, ClosedInv, EnabledIsOpen,
       OpensAsFirstConfigured, ChosenInv
  <2> QED
    BY <1>1, <1>2, <1>5, <2>4, <2>5 DEF IInv, UndefinedOnlyAfterSlip
<1> QED
  BY <1>3, <1>4, <1>5 DEF RmwInit

\* session_connect, which makes its context the owner of an open session or fails.
LEMMA ConnectStep ==
    ASSUME IInv, NEW c \in Contexts, Connect(c)
    PROVE  IInv'
<1>1. UNCHANGED <<setting, options, params, context, sound, chosen, abandoned, slips>>
  BY DEF Connect
<1>2. session.ref > 0 /\ session.ref \in Nat
  BY AttachedIsCounted DEF Connect, IInv, SessionInv, TypeOK
<1>3. /\ session' \in [ref : Nat, config : Config \cup {NoConfig, Moved}, enabled : BOOLEAN,
                       open : Config \cup {Default, Closed}]
      /\ session'.ref = session.ref /\ session'.config = Moved
      /\ \/ session'.open = session.open /\ session'.enabled = session.enabled
         \/ /\ session'.enabled
            /\ \/ session'.open = Default
               \/ session.config \in Config /\ session'.open = session.config
  <2>1. CASE session' = [session EXCEPT !.config = Moved]
    BY <2>1 DEF IInv, TypeOK
  <2>2. CASE /\ session.config \in Config
             /\ session' = [session EXCEPT !.config = Moved, !.enabled = TRUE,
                                           !.open = session.config]
    <3>1. session' \in [ref : Nat, config : Config \cup {NoConfig, Moved}, enabled : BOOLEAN,
                        open : Config \cup {Default, Closed}]
      BY <2>2 DEF IInv, TypeOK
    <3>2. session'.ref = session.ref /\ session'.config = Moved
      BY <2>2 DEF IInv, TypeOK
    <3>3. session'.enabled /\ session'.open = session.config
      BY <2>2 DEF IInv, TypeOK
    <3> QED
      BY <2>2, <3>1, <3>2, <3>3
  <2>3. CASE session' = [session EXCEPT !.enabled = TRUE, !.open = Default] /\ session.config = Moved
    <3>1. session' \in [ref : Nat, config : Config \cup {NoConfig, Moved}, enabled : BOOLEAN,
                        open : Config \cup {Default, Closed}]
      BY <2>3 DEF IInv, TypeOK
    <3>2. session'.ref = session.ref /\ session'.config = session.config
      BY <2>3 DEF IInv, TypeOK
    <3>3. session'.enabled /\ session'.open = Default
      BY <2>3 DEF IInv, TypeOK
    <3> QED
      BY <2>3, <3>1, <3>2, <3>3
  <2> QED
    BY <2>1, <2>2, <2>3 DEF Connect
<1>4. Default # Closed /\ \A k \in Config : k # Closed
  BY DEF Default, Closed, Config, Modes
<1>5. Moved \notin Config
  BY DEF Moved, Config, Modes
<1>6. TypeOK'
  BY <1>1, <1>3 DEF IInv, TypeOK
<1>7. ContextInv' /\ ContextsAreCounted'
  BY <1>1, <1>3 DEF IInv, SessionInv, ContextInv, ContextsAreCounted, Attached
<1>8. ClosedInv' /\ EnabledIsOpen' /\ OpensAsFirstConfigured' /\ ChosenInv'
  BY <1>1, <1>2, <1>3, <1>4, <1>5 DEF IInv, SessionInv, ClosedInv, EnabledIsOpen,
     OpensAsFirstConfigured, ChosenInv
<1> QED
  BY <1>1, <1>6, <1>7, <1>8, ParamsFrame DEF IInv, SessionInv, UndefinedOnlyAfterSlip

\* A context that is overwritten keeps its place in the count.
LEMMA AbandonStep ==
    ASSUME IInv, NEW c \in Contexts, Abandon(c)
    PROVE  IInv'
<1>1. /\ UNCHANGED <<setting, options, params, session, sound, chosen, slips>>
      /\ abandoned' = abandoned + 1 /\ abandoned < AbandonMax /\ context[c].impl
      /\ context' = [context EXCEPT ![c] = [id |-> FALSE, impl |-> FALSE]]
  BY DEF Abandon
<1>2. /\ context' \in [Contexts -> [id : BOOLEAN, impl : BOOLEAN]]
      /\ Attached' = Attached \ {c} /\ ContextInv'
  BY <1>1 DEF IInv, TypeOK, Attached, SessionInv, ContextInv
<1>3. TypeOK'
  BY <1>1, <1>2, SetsAssumption DEF IInv, TypeOK
<1>4. ContextsAreCounted'
  <2>1. Cardinality(Attached') = Cardinality(Attached) - 1 /\ Cardinality(Attached) \in Nat
    BY <1>1, <1>2, DetachOne
  <2>2. session.ref = Cardinality(Attached) + abandoned /\ abandoned \in Nat
    BY SetsAssumption DEF IInv, SessionInv, ContextsAreCounted, TypeOK
  <2> QED
    BY <1>1, <2>1, <2>2 DEF ContextsAreCounted
<1>5. ClosedInv' /\ EnabledIsOpen' /\ OpensAsFirstConfigured' /\ ChosenInv'
  BY <1>1 DEF IInv, SessionInv, ClosedInv, EnabledIsOpen, OpensAsFirstConfigured, ChosenInv
<1> QED
  BY <1>1, <1>2, <1>3, <1>4, <1>5, ParamsFrame DEF IInv, SessionInv, UndefinedOnlyAfterSlip

\* Every step keeps the invariant.
LEMMA StepInv == IInv /\ [Next]_vars => IInv'
<1> SUFFICES ASSUME IInv, [Next]_vars PROVE IInv'
  OBVIOUS
<1>1. CASE Next
  <2>1. ASSUME NEW o \in Options, \E c \in Contexts : RmwInit(o, c) PROVE IInv'
    BY <1>1, <2>1, RmwInitStep DEF Next
  <2> QED
    BY <1>1, <2>1, SettingStep, OptionsInitStep, OptionsCopyStep, OptionsFiniStep, ConnectStep,
       ReleaseStep, AbandonStep DEF Next
<1>2. CASE UNCHANGED vars
  BY <1>2, SessionFrame, ParamsFrame DEF vars, IInv, TypeOK, UndefinedOnlyAfterSlip
<1> QED
  BY <1>1, <1>2

\* So it holds in every reachable state.
LEMMA Invariance == Spec => []IInv
BY InitInv, StepInv, PTL DEF Spec

-----------------------------------------------------------------------------
(* What follows.                                                           *)

\* Settings, options, parameters, contexts and the session keep their types; the count of the
\* session does not go below zero.
THEOREM TypeCorrect == Spec => []TypeOK
<1>1. IInv => TypeOK
  BY DEF IInv
<1> QED
  BY <1>1, Invariance, PTL

\* The session is counted once for each context that has it or was overwritten with it,
\* for any number of contexts and whatever fails (zenoh_pico_session.c:27-50).
THEOREM SessionIsCounted == Spec => []ContextsAreCounted
<1>1. IInv => ContextsAreCounted
  BY DEF IInv, SessionInv
<1> QED
  BY <1>1, Invariance, PTL

\* enable_session of a session in use says whether zenoh has it open.
THEOREM FlagIsTrue == Spec => []EnabledIsOpen
<1>1. IInv => EnabledIsOpen
  BY DEF IInv, SessionInv
<1> QED
  BY <1>1, Invariance, PTL

\* The session is opened with the configuration of the context that made it, or zenoh's default.
THEOREM FirstConfigurationWins == Spec => []OpensAsFirstConfigured
<1>1. IInv => OpensAsFirstConfigured
  BY DEF IInv, SessionInv
<1> QED
  BY <1>1, Invariance, PTL

\* Parameters have one owner and none is leaked, for any number of options objects.
THEOREM ParamsAreOwned == Spec => []ParamsHaveOneOwner
<1>1. IInv => ParamsHaveOneOwner
  BY DEF IInv, ParamsInv, OwnerInv, NoOrphans, ParamsHaveOneOwner
<1> QED
  BY <1>1, Invariance, PTL

\* Undefined behaviour takes a copy of options that failed half way or the last release.
THEOREM SoundWithoutSlip == Spec => []UndefinedOnlyAfterSlip
<1>1. IInv => UndefinedOnlyAfterSlip
  BY DEF IInv
<1> QED
  BY <1>1, Invariance, PTL

\* An open session closes only when its last context is gone, whoever else fails, shuts down
\* or finishes in between (zenoh_pico_session.c:61).
THEOREM OthersKeepItOpen == Spec => OpenUntilLastRelease
<1>1. ASSUME IInv, IInv', [Next]_vars, session.open # Closed, session'.open = Closed
      PROVE  Attached' = {} /\ abandoned' = 0
  <2>1. session.ref > 0 /\ session.ref \in Nat
    BY <1>1 DEF IInv, SessionInv, ClosedInv, TypeOK
  <2>2. session' # session
    BY <1>1
  <2>3. ASSUME NEW o \in Options, NEW c \in Contexts, RmwInit(o, c) PROVE FALSE
    <3>1. session' = [session EXCEPT !.ref = @ + 1]
      BY <2>1, <2>2, <2>3 DEF RmwInit, GenerateSession
    <3> QED
      BY <1>1, <3>1 DEF IInv, TypeOK
  <2>4. ASSUME NEW c \in Contexts, Connect(c) PROVE FALSE
    <3>1. Default # Closed /\ \A k \in Config : k # Closed
      BY DEF Default, Closed, Config, Modes
    <3>2. session' = [session EXCEPT !.config = Moved] => session'.open = session.open
      BY DEF IInv, TypeOK
    <3>3. \A k : session' = [session EXCEPT !.config = Moved, !.enabled = TRUE, !.open = k]
                 => session'.open = k
      BY <1>1 DEF IInv, TypeOK
    <3>4. session' = [session EXCEPT !.enabled = TRUE, !.open = Default] => session'.open = Default
      BY <1>1 DEF IInv, TypeOK
    <3> QED
      BY <1>1, <2>4, <3>1, <3>2, <3>3, <3>4 DEF Connect
  <2>5. ASSUME NEW c \in Contexts, ContextFini(c) \/ Shutdown(c)
        PROVE  session'.ref = 0
    <3>1. DestroySession
      BY <2>2, <2>5 DEF ContextFini, Shutdown, ReleaseContext
    <3> QED
      BY <1>1, <2>1, <3>1, ReleaseKeeps DEF IInv
  <2>6. UNCHANGED session \/ session'.ref = 0
    BY <1>1, <2>2, <2>3, <2>4, <2>5 DEF Next, SetMode, SetAddress, OptionsInit, OptionsCopy,
       OptionsFini, OptionsZero, Abandon, vars
  <2>7. Cardinality(Attached') + abandoned' = 0 /\ abandoned' \in Nat
    BY <1>1, <2>2, <2>6, SetsAssumption DEF IInv, SessionInv, ContextsAreCounted, TypeOK
  <2>8. IsFiniteSet(Attached') /\ Cardinality(Attached') \in Nat
    <3>1. Attached' \subseteq Contexts
      BY DEF Attached
    <3> QED
      BY <3>1, SetsAssumption, FS_Subset, FS_CardinalityType
  <2>9. Cardinality(Attached') = 0 /\ abandoned' = 0
    BY <2>7, <2>8
  <2> QED
    BY <2>8, <2>9, FS_EmptySet
<1>2. IInv /\ IInv' /\ [Next]_vars =>
          [(session.open # Closed /\ session'.open = Closed) => Attached' = {} /\ abandoned' = 0]_vars
  BY <1>1
<1> QED
  BY <1>2, Invariance, PTL DEF Spec, OpenUntilLastRelease

=============================================================================
