----------------------------- MODULE FooterStrip -----------------------------
(***************************************************************************)
(* The cards of the footer strip (src/ui.c, src/registry.c, src/redis.c):  *)
(* service and apt-temps cards appear when their key is first read and     *)
(* leave only by an evict command, which scripts/kpidash-cards writes      *)
(* after it has deleted the keys; between the two groups stand the         *)
(* staleness cards (module StaleFeed).  Publishers, pruning scripts, Redis *)
(* expiry and the steps of the poll interleave.                            *)
(***************************************************************************)
EXTENDS Integers, FiniteSets, FiniteSetsExt, Sequences, SequencesExt, Tables,
        Lists

CONSTANTS
    Services,     \* service keys, numbered in the order of (name, host)
    Zones,        \* apt-temps slugs, numbered in their order
    StaleHosts,   \* hosts that may go stale
    Pruners,      \* runs of kpidash-cards prune
    ServiceMax,   \* SERVICE_REGISTRY_MAX
    ZoneMax,      \* APTTEMPS_REGISTRY_MAX
    TargetsMax    \* EVICT_TARGETS_MAX

Cards == Services \cup Zones

ASSUME StripConstants ==
    /\ Services \subseteq Nat /\ Zones \subseteq Nat
    /\ IsFiniteSet(Services) /\ IsFiniteSet(Zones)
    /\ Services \cap Zones = {} /\ Cards \cap StaleHosts = {}
    /\ ServiceMax \in Nat /\ ZoneMax \in Nat /\ TargetsMax \in Nat

VARIABLES
    keys,      \* cards whose key exists with a payload that parses
    command,   \* kpidash:cmd:services:evict: the cards it names, or none
    rows,      \* rows[p]: cards script p has still to delete
    deleted,   \* deleted[p]: those it has, to be named in its command
    pc,        \* where the LVGL thread is in timer_poll_cb
    entries,   \* g_services, g_apttemps: card -> its container exists
    targets,   \* g_evict
    stale,     \* g_stale: the stale hosts in the order of the array
    strip,     \* the children of g_service_strip, each named by its card
    renewed,   \* renewed[p]: cards published since script p began
    settled,   \* cards a sent command names, silent since its script began
    evicted,   \* those of them whose command has been carried out
    ordered    \* cards named by a command, and not evicted since

scriptVars == <<rows, deleted>>
ghostVars == <<renewed, settled, evicted, ordered>>
panelVars == <<pc, entries, targets, stale, strip>>
stripVars == <<keys, command, scriptVars, panelVars, ghostVars>>

StripInit ==
    /\ keys = {} /\ command = {}
    /\ rows = [p \in Pruners |-> {}] /\ deleted = [p \in Pruners |-> {}]
    /\ pc = "idle" /\ entries = EmptyTable /\ targets = {}
    /\ stale = <<>> /\ strip = <<>>
    /\ renewed = [p \in Pruners |-> {}]
    /\ settled = {} /\ evicted = {} /\ ordered = {}

-----------------------------------------------------------------------------
(* Publishers; the keys have no TTL.  The panel is one of them: its own     *)
(* card is written by redis_publish_self_service.                           *)

Publish(c) ==
    /\ keys' = keys \cup {c}
    /\ renewed' = [p \in Pruners |-> renewed[p] \cup {c}]
    /\ settled' = settled \ {c} /\ evicted' = evicted \ {c}
    /\ UNCHANGED <<command, scriptVars, panelVars, ordered>>

(* kpidash-cards prune: rows are chosen (one whose payload does not parse   *)
(* is a row too), *)
StartPrune(p, S) ==
    /\ rows[p] = {} /\ deleted[p] = {} /\ S # {}
    /\ rows' = [rows EXCEPT ![p] = S]
    /\ renewed' = [renewed EXCEPT ![p] = {}]
    /\ UNCHANGED <<keys, command, deleted, panelVars, settled, evicted, ordered>>

(* their keys deleted one by one, *)
DeleteRow(p) ==
    \E c \in rows[p] :
        /\ keys' = keys \ {c}
        /\ rows' = [rows EXCEPT ![p] = @ \ {c}]
        /\ deleted' = [deleted EXCEPT ![p] = @ \cup {c}]
        /\ UNCHANGED <<command, panelVars, ghostVars>>

(* (a failing DEL ends the loop) *)
StopRows(p) ==
    /\ rows[p] # {}
    /\ rows' = [rows EXCEPT ![p] = {}]
    /\ UNCHANGED <<keys, command, deleted, panelVars, ghostVars>>

(* Mutant: the command is sent before the keys are deleted. *)
SendEarly(p) ==
    /\ rows[p] # {} /\ deleted[p] = {} /\ command # rows[p]
    /\ command' = rows[p]
    /\ ordered' = ordered \cup rows[p]
    /\ settled' = settled \cup (rows[p] \ renewed[p])
    /\ UNCHANGED <<keys, scriptVars, panelVars, renewed, evicted>>

(* and then one SET names them all, overwriting a command not taken yet.    *)
Send(p) ==
    /\ rows[p] = {} /\ deleted[p] # {}
    /\ deleted' = [deleted EXCEPT ![p] = {}]
    /\ \/ /\ command' = deleted[p]
          /\ ordered' = ordered \cup deleted[p]
          /\ settled' = settled \cup (deleted[p] \ renewed[p])
       \/ UNCHANGED <<command, ordered, settled>>
    /\ UNCHANGED <<keys, rows, panelVars, renewed, evicted>>

(* EX 60. *)
CommandExpires ==
    /\ command # {}
    /\ command' = {}
    /\ UNCHANGED <<keys, scriptVars, panelVars, ghostVars>>

-----------------------------------------------------------------------------
(* The poll.                                                                *)

(* Mutant: the array is taken to have a slot more than it has. *)
AdmittedOneMore(kind, limit, read) ==
    LET held == DOMAIN entries \cap kind
        new  == (read \cap kind) \ held
    IN  kSubset(Min({limit + 1 - Cardinality(held), Cardinality(new)}), new)

(* find_or_create for the cards of one kind that were read: those without   *)
(* an entry take the free slots, in the order SCAN brought them.            *)
Admitted(kind, limit, read) ==
    LET held == DOMAIN entries \cap kind
        new  == (read \cap kind) \ held
    IN  kSubset(Min({limit - Cardinality(held), Cardinality(new)}), new)

(* Mutant: a card whose key was not found loses its entry. *)
PollCardsDropsUnread ==
    /\ pc = "idle"
    /\ pc' = "evict"
    /\ \E read \in SUBSET keys :
        \E s \in Admitted(Services, ServiceMax, read),
           z \in Admitted(Zones, ZoneMax, read) :
            entries' = [c \in (DOMAIN entries \cap read) \cup s \cup z |->
                           c \in DOMAIN entries /\ entries[c]]
    /\ UNCHANGED <<keys, command, scriptVars, targets, stale, strip, ghostVars>>

(* redis_poll_services and redis_poll_apttemps: SCAN and GET.  Either may   *)
(* stop half way, and a key that is not found changes nothing.              *)
PollCards ==
    /\ pc = "idle"
    /\ pc' = "evict"
    /\ \E read \in SUBSET keys :
        \E s \in Admitted(Services, ServiceMax, read),
           z \in Admitted(Zones, ZoneMax, read) :
            entries' = [c \in DOMAIN entries \cup s \cup z |->
                           c \in DOMAIN entries /\ entries[c]]
    /\ UNCHANGED <<keys, command, scriptVars, targets, stale, strip, ghostVars>>

(* What a committed staleness walk may make of the array: a host more, at   *)
(* its end, or one less.                                                    *)
StaleTables ==
    {stale} \cup {Append(stale, h) : h \in StaleHosts \ ToSet(stale)}
            \cup {Without(stale, {h}) : h \in ToSet(stale)}

(* redis_poll_stale, then redis_poll_evict: GETDEL takes the command whole, *)
(* though only TargetsMax of its targets fit, and its reply may be lost.    *)
PollEvict ==
    /\ pc = "evict"
    /\ pc' = "paint"
    /\ stale' \in StaleTables
    /\ \/ /\ command # {}
          /\ command' = {}
          /\ \/ targets' \in kSubset(Min({TargetsMax, Cardinality(command)}), command)
             \/ UNCHANGED targets
       \/ UNCHANGED <<command, targets>>
    /\ UNCHANGED <<keys, scriptVars, entries, strip, ghostVars>>

-----------------------------------------------------------------------------
(* The paint.                                                               *)

(* A card is created if it has none, and moved behind all others. *)
MoveLast(s, c) == Append(Without(s, {c}), c)

AllMovedLast(s, moved) == FoldLeft(MoveLast, s, moved)

(* Mutant: the staleness cards stay where they were created. *)
ArrangedAsCreated(kept, services, zones) ==
    AllMovedLast(
        kept \o Without(services, ToSet(kept)) \o Without(stale, ToSet(kept)),
        zones)

(* Services are created where they are missing; the staleness cards, in the *)
(* order of their array, and then the zones, by slug, are moved behind.     *)
Arranged(kept, services, zones) ==
    LET created == Without(services, ToSet(kept))
    IN  AllMovedLast(AllMovedLast(kept \o created, stale), zones)

(* Mutants: a removed entry's object is not deleted; the targets are not    *)
(* forgotten.                                                               *)
PaintStripLeaks ==
    /\ pc = "paint"
    /\ pc' = "idle"
    /\ entries' = [c \in DOMAIN entries \ targets |-> TRUE]
    /\ strip' = Arranged(
                    Within(strip, Cards \cup ToSet(stale)),
                    Ascending(DOMAIN entries' \cap Services),
                    Ascending(DOMAIN entries' \cap Zones))
    /\ targets' = {}
    /\ evicted' = evicted \cup (targets \cap settled)
    /\ settled' = settled \ targets /\ ordered' = (ordered \ targets) \cup command
    /\ UNCHANGED <<keys, command, scriptVars, stale, renewed>>
PaintStripRepeats ==
    /\ pc = "paint"
    /\ pc' = "idle"
    /\ entries' = [c \in DOMAIN entries \ targets |-> TRUE]
    /\ strip' = Arranged(
                    Within(strip, DOMAIN entries' \cup ToSet(stale)),
                    Ascending(DOMAIN entries' \cap Services),
                    Ascending(DOMAIN entries' \cap Zones))
    /\ evicted' = evicted \cup (targets \cap settled)
    /\ settled' = settled \ targets /\ ordered' = (ordered \ targets) \cup command
    /\ UNCHANGED <<keys, command, scriptVars, targets, stale, renewed>>

(* ui_refresh: evicted cards are deleted with their entries, cards of hosts *)
(* no longer stale with them, and the strip is arranged.                    *)
PaintStrip ==
    /\ pc = "paint"
    /\ pc' = "idle"
    /\ entries' = [c \in DOMAIN entries \ targets |-> TRUE]
    /\ strip' = Arranged(
                    Within(strip, ToSet(stale)
                                       \cup {c \in DOMAIN entries' : entries[c]}),
                    Ascending(DOMAIN entries' \cap Services),
                    Ascending(DOMAIN entries' \cap Zones))
    /\ targets' = {}
    /\ evicted' = evicted \cup (targets \cap settled)
    /\ settled' = settled \ targets /\ ordered' = (ordered \ targets) \cup command
    /\ UNCHANGED <<keys, command, scriptVars, stale, renewed>>

(* The panel starts again, with nothing but what Redis holds. *)
StripRestart ==
    /\ pc' = "idle" /\ entries' = EmptyTable /\ targets' = {}
    /\ stale' = <<>> /\ strip' = <<>>
    /\ UNCHANGED <<keys, command, scriptVars, ghostVars>>

(* Those of the cards and scripts W write. *)
Writers(W) ==
    \/ \E c \in Cards \cap W : Publish(c)
    \/ \E p \in Pruners \cap W :
        \/ \E S \in SUBSET (Cards \cap W) : StartPrune(p, S)
        \/ DeleteRow(p) \/ StopRows(p) \/ Send(p)
    \/ CommandExpires

StripNext ==
    \/ Writers(Cards \cup Pruners)
    \/ PollCards \/ PollEvict \/ PaintStrip \/ StripRestart

StripSpec == StripInit /\ [][StripNext]_stripVars

-----------------------------------------------------------------------------
(* Properties. *)

StripTypeOK ==
    /\ keys \subseteq Cards
    /\ command \subseteq Cards
    /\ rows \in [Pruners -> SUBSET Cards] /\ deleted \in [Pruners -> SUBSET Cards]
    /\ pc \in {"idle", "evict", "paint"}
    /\ DOMAIN entries \subseteq Cards
    /\ \A c \in DOMAIN entries : entries[c] \in BOOLEAN
    /\ Cardinality(DOMAIN entries \cap Services) <= ServiceMax
    /\ Cardinality(DOMAIN entries \cap Zones) <= ZoneMax
    /\ targets \subseteq Cards /\ Cardinality(targets) <= TargetsMax
    /\ ToSet(stale) \subseteq StaleHosts
    /\ ToSet(strip) \subseteq Cards \cup StaleHosts
    /\ renewed \in [Pruners -> SUBSET Cards]
    /\ settled \subseteq Cards /\ evicted \subseteq Cards /\ ordered \subseteq Cards

(* After a paint the strip holds one object for each entry and each stale   *)
(* host, and no other: nothing leaks, dangles or is painted twice.          *)
StripMirrorsEntries ==
    pc = "idle" =>
        /\ ToSet(strip) = DOMAIN entries \cup ToSet(stale)
        /\ IsInjective(strip)

(* After a paint the groups stand as the panel's design wants them: the     *)
(* services, then the staleness cards in the order of their array, then the *)
(* zones by slug, whatever was created, deleted or evicted when.            *)
GroupsInOrder ==
    pc = "idle" =>
        LET zones == Ascending(DOMAIN entries \cap Zones)
        IN  \E k \in 0 .. Len(strip) :
                /\ ToSet(SubSeq(strip, 1, k)) \subseteq Services
                /\ SubSeq(strip, k + 1, Len(strip)) = stale \o zones

(* A pruned card stays away: once the command that names it is carried out  *)
(* the entry does not come back before its publisher writes again, although *)
(* polls, deletions and the command are steps of different processes.       *)
EvictedStaysAway == evicted \cap DOMAIN entries = {}

(* A card leaves by a command that named it and was not carried out before; *)
(* not because its key went, and not twice by one command.                  *)
LeavesByOrderOnly ==
    [][DOMAIN entries \ DOMAIN entries' \subseteq ordered \/ StripRestart]_stripVars
=============================================================================
