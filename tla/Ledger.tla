-------------------------------- MODULE Ledger ---------------------------------
(***************************************************************************)
(* What the expense store promises its users, without versions, requests   *)
(* or statements.  A page shows one document as it was when the page was   *)
(* made.  A page may replace or delete its document only while the         *)
(* document still is exactly what the page shows.  Replacing a document    *)
(* keeps what it is and who made it; automatic entries are never changed;  *)
(* the legs of a currency conversion come and go together.  A collapse of  *)
(* history moves documents out of the books and puts summaries in.         *)
(***************************************************************************)
EXTENDS Integers

CONSTANTS Docs, NoDoc, Pages, NoId, NoBody

VARIABLES
    doc,    \* each document: where it is, and its contents
    about,  \* the document a page shows
    shown   \* that document as the page shows it

vars == <<doc, about, shown>>

Blank == [status |-> "unborn", body |-> NoBody]

Init ==
    /\ doc = [d \in Docs |-> Blank]
    /\ about = [p \in Pages |-> NoDoc]
    /\ shown = [p \in Pages |-> Blank]

InBooks(d) == doc[d].status \in {"live", "deleted"}

Current(p) == about[p] \in Docs /\ InBooks(about[p]) /\ doc[about[p]] = shown[p]

Closed(p) ==
    /\ about' = [about EXCEPT ![p] = NoDoc]
    /\ shown' = [shown EXCEPT ![p] = Blank]

Open(p, d) ==
    /\ InBooks(d)
    /\ about' = [about EXCEPT ![p] = d]
    /\ shown' = [shown EXCEPT ![p] = doc[d]]
    /\ UNCHANGED doc

Close(p) == Closed(p) /\ UNCHANGED doc

OnlyChanges(ds) ==
    /\ DOMAIN doc' = Docs
    /\ \A d \in Docs \ ds : doc'[d] = doc[d]

\* New documents; a conversion leg never without the leg it points at.
Record(new) ==
    /\ OnlyChanges(new)
    /\ \A d \in new : /\ doc[d] = Blank
                      /\ doc'[d].status = "live"
                      /\ doc'[d].body.link \in new \cup {NoId}
    /\ UNCHANGED <<about, shown>>

Editable(b) == b.kind \in {"SPLIT", "SETTLEMENT"} /\ b.link = NoId

\* The split is replaced; the kind, the creator and the link stay.
Replace(p) ==
    LET d   == about[p]
        old == shown[p].body
        new == doc'[d].body
    IN  /\ Current(p)
        /\ shown[p].status = "live"
        /\ Editable(old)
        /\ OnlyChanges({d})
        /\ doc'[d] = [status |-> "live",
                      body |-> [kind |-> old.kind, addedBy |-> old.addedBy,
                                link |-> old.link, draft |-> new.draft]]
        /\ Closed(p)

\* Two documents are the legs of one conversion.
Legs(d, e) ==
    /\ d # e
    /\ doc[d] # Blank /\ doc[e] # Blank
    /\ doc[d].body.link = e \/ doc[e].body.link = d

\* The document of the page goes, a conversion with its other leg.
Delete(p) ==
    LET gone == {about[p]} \cup {e \in Docs : Legs(about[p], e)}
    IN  /\ Current(p)
        /\ shown[p].body.kind # "NETTING"
        /\ OnlyChanges(gone)
        /\ \A d \in gone : /\ doc[d].status = "live"
                           /\ doc'[d] = [status |-> "deleted", body |-> doc[d].body]
        /\ Closed(p)

\* Old documents leave the books for the archive, summaries take their place.
\* A conversion is never collapsed.
Collapse(olds, summaries) ==
    /\ OnlyChanges(olds \cup summaries)
    /\ \A d \in olds : /\ InBooks(d)
                       /\ doc[d].body.kind # "CURRENCY_CONVERSION"
                       /\ doc'[d] = [status |-> "archived", body |-> doc[d].body]
    /\ \A d \in summaries : /\ doc[d] = Blank
                            /\ doc'[d].status = "live"
                            /\ doc'[d].body.kind = "ARCHIVE"
    /\ UNCHANGED <<about, shown>>

Next ==
    \/ \E p \in Pages, d \in Docs : Open(p, d)
    \/ \E p \in Pages : Close(p) \/ Replace(p) \/ Delete(p)
    \/ \E new \in SUBSET Docs : Record(new)
    \/ \E olds, summaries \in SUBSET Docs : Collapse(olds, summaries)

Spec == Init /\ [][Next]_vars
===============================================================================
