---------------------------- MODULE Occurrences ----------------------------
(***************************************************************************)
(* CalendarEvent/set on one recurring event (event_map.py): a patch of     *)
(* recurrenceOverrides, whole, of one entry or of one property of an       *)
(* entry, is applied to the iCalendar object, where an occurrence is       *)
(* excluded by a date of the master and changed by a component of its own, *)
(* complete with the properties it does not change.  Other clients edit    *)
(* occurrences too.                                                        *)
(*                                                                         *)
(* A key is the natural start of an occurrence; of the other properties a  *)
(* title stands for all that are copied from the master.                   *)
(***************************************************************************)
EXTENDS Functions

CONSTANTS Key, Time, Title,
    None,        \* null in a patch
    Unchanged,   \* a property that a patch does not name
    MaxEdits,    \* bound: edits
    LateEdits,   \* whether the master's title may change once a component has it
    Mixed        \* whether an entry may have `excluded` and other properties

VARIABLES
    cal,     \* the master's title and EXDATEs, and the components of occurrences
    shown,   \* abstract: what each occurrence should look like
    extras,  \* history: occurrences to which another client gave more properties
    edits    \* bounds edits

occurrenceVars == <<cal, shown, extras, edits>>

Excluded == [excluded |-> TRUE]
Value == [title |-> Title, start |-> Time]
Props == DOMAIN Value

\* An occurrence that nothing changes.
Natural(title, key) == [title |-> title, start |-> key]

\* An entry of recurrenceOverrides, and all of it.
Entry == {Excluded} \cup [{"title"} -> Title] \cup [{"start"} -> Time]
                    \cup [title : Title, start : Time]
Entries == UNION {[S -> Entry] : S \in SUBSET Key}

Init ==
    /\ cal \in [title : Title, exdates : {{}}, changed : {<< >>}]
    /\ shown = [k \in Key |-> Natural(cal.title, k)]
    /\ extras = {}
    /\ edits = 0

-----------------------------------------------------------------------------
\* f, and g for what it does not say.
Over(f, g) ==
    [x \in DOMAIN f \cup DOMAIN g |-> IF x \in DOMAIN f THEN f[x] ELSE g[x]]

Only(key, value) == [k \in {key} |-> value]

\* Mutant: a component is compared with the master as it is.
PatchFromMaster(props, title, key) ==
    LET first == Natural(title, CHOOSE k \in Key : \A j \in Key : k <= j)
    IN  Restrict(props, {p \in Props : props[p] # first[p]})

\* What differs from the occurrence as the rule has it.
OverridePatch(props, title, key) ==
    Restrict(props, {p \in Props : props[p] # Natural(title, key)[p]})

\* recurrenceOverrides as Foo/get answers them.
RecurrenceOverrides(c) ==
    [k \in c.exdates \cup DOMAIN c.changed |->
        IF k \in DOMAIN c.changed THEN OverridePatch(c.changed[k].props, c.title, k)
        ELSE Excluded]

\* All of them are written anew.  Only an entry that says nothing else excludes.
ApplyOverrides(title, overrides) ==
    LET excluded == {k \in DOMAIN overrides : overrides[k] = Excluded}
        Filled(k) == Over(Restrict(overrides[k], DOMAIN overrides[k] \cap Props), Natural(title, k))
    IN  [title |-> title, exdates |-> excluded,
         changed |-> [k \in DOMAIN overrides \ excluded |->
                         [props |-> Filled(k), extra |-> FALSE]]]

\* recurrenceOverrides/<key>
MergeEntry(overrides, key, entry) ==
    IF entry = None THEN Restrict(overrides, DOMAIN overrides \ {key})
    ELSE Over(Only(key, entry), overrides)

\* recurrenceOverrides/<key>/<property>
MergeProperty(overrides, key, p, value) ==
    LET entry == IF key \in DOMAIN overrides THEN overrides[key] ELSE << >>
        new   == IF value = None THEN Restrict(entry, DOMAIN entry \ {p})
                 ELSE Over(Only(p, value), entry)
    IN  Over(Only(key, new), overrides)

NewTitle(title) == IF title = Unchanged THEN cal.title ELSE title

IsMixed(overrides) ==
    \E k \in DOMAIN overrides : "excluded" \in DOMAIN overrides[k] /\ overrides[k] # Excluded

\* apply_jscalendar_patch: entries are merged with what the object has before
\* the patch, all properties are set, and the overrides are written on top.
Apply(title, overrides) ==
    /\ edits < MaxEdits
    /\ Mixed \/ ~IsMixed(overrides)
    /\ cal' = ApplyOverrides(NewTitle(title), overrides)
    /\ edits' = edits + 1

-----------------------------------------------------------------------------
\* The abstract event: a patch changes the occurrences it names; the others
\* keep what is their own and have the master's title else.
Inherits(k) == shown[k] # Excluded /\ shown[k].title = cal.title

Show(title, named, to) ==
    shown' = [k \in Key |->
        IF k \in named THEN to[k]
        ELSE IF Inherits(k) THEN [shown[k] EXCEPT !.title = title] ELSE shown[k]]

\* A named occurrence with this entry.
Entered(title, key, entry) ==
    IF "excluded" \in DOMAIN entry THEN Excluded ELSE Over(entry, Natural(title, key))

SetAll(title, overrides) ==
    /\ Apply(title, overrides)
    /\ shown' = [k \in Key |-> IF k \in DOMAIN overrides
                                 THEN Entered(NewTitle(title), k, overrides[k])
                                 ELSE Natural(NewTitle(title), k)]
    /\ extras' = {}

SetEntry(title, key, entry) ==
    /\ Apply(title, MergeEntry(RecurrenceOverrides(cal), key, entry))
    /\ Show(NewTitle(title), {key},
            [k \in {key} |-> Entered(NewTitle(title), key, IF entry = None THEN << >> ELSE entry)])
    /\ extras' = extras \ {key}

SetProperty(title, key, p, value) ==
    /\ Apply(title, MergeProperty(RecurrenceOverrides(cal), key, p, value))
    /\ LET new    == NewTitle(title)
           before == IF shown[key] = Excluded THEN Natural(new, key)
                     ELSE IF Inherits(key) THEN [shown[key] EXCEPT !.title = new]
                     ELSE shown[key]
           after  == IF p = "excluded"
                       THEN IF value = None THEN before ELSE Excluded
                     ELSE IF shown[key] = Excluded THEN Excluded
                     ELSE [before EXCEPT ![p] = IF value = None THEN Natural(new, key)[p] ELSE value]
       IN  Show(new, {key}, [k \in {key} |-> after])
    /\ UNCHANGED extras

\* A patch without overrides touches the master alone.
SetTitle(title) ==
    /\ edits < MaxEdits
    /\ LateEdits \/ \A k \in DOMAIN cal.changed : cal.changed[k].props.title # cal.title
    /\ cal' = [cal EXCEPT !.title = title]
    /\ Show(title, {}, << >>)
    /\ edits' = edits + 1
    /\ UNCHANGED extras

\* Another CalDAV client changes an occurrence, and gives it an alarm, say.
Elsewhere(key, props) ==
    /\ edits < MaxEdits
    /\ cal' = [cal EXCEPT !.exdates = @ \ {key},
                          !.changed = Over(Only(key, [props |-> props, extra |-> TRUE]), @)]
    /\ shown' = [shown EXCEPT ![key] = props]
    /\ extras' = extras \cup {key}
    /\ edits' = edits + 1

Next ==
    \/ \E title \in Title : SetTitle(title)
    \/ \E title \in Title \cup {Unchanged} :
         \/ \E overrides \in Entries : SetAll(title, overrides)
         \/ \E key \in Key :
              \/ \E entry \in Entry \cup {None} : SetEntry(title, key, entry)
              \/ \E p \in Props : \E value \in Value[p] \cup {None} :
                    SetProperty(title, key, p, value)
              \/ \E value \in {TRUE, None} : SetProperty(title, key, "excluded", value)
    \/ \E key \in Key, props \in [title : Title, start : Time] : Elsewhere(key, props)

Spec == Init /\ [][Next]_occurrenceVars
-----------------------------------------------------------------------------
\* An occurrence as a client reads it, and as the object has it.
Read(k) ==
    LET overrides == RecurrenceOverrides(cal)
    IN  IF k \in DOMAIN overrides THEN Entered(cal.title, k, overrides[k])
        ELSE Natural(cal.title, k)

Stored(k) ==
    IF k \in DOMAIN cal.changed THEN cal.changed[k].props
    ELSE IF k \in cal.exdates THEN Excluded
    ELSE Natural(cal.title, k)

\* event_map.py:697: clients "patch a single map entry this way instead of
\* replacing the whole map".  However patches of the event, of its overrides
\* and of one occurrence follow each other and the edits of other clients,
\* every occurrence is what the last patch that names it made of it, for this
\* client and for others.
Occurs == \A k \in Key : Read(k) = shown[k] /\ Stored(k) = shown[k]

-----------------------------------------------------------------------------
(***************************************************************************)
(* What the docs claim and the code does not do.                           *)
(***************************************************************************)
\* event_map.py:24: "properties outside this file's v1 property subset survive
\* an update untouched".  Those of occurrences do not: a patch of any entry
\* writes all components anew.
ExtrasSurvive == \A k \in extras : k \in DOMAIN cal.changed => cal.changed[k].extra
=============================================================================
