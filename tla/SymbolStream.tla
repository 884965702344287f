---------------------------- MODULE SymbolStream ----------------------------
(***************************************************************************)
(* The buffer between frame_equalizer and decode_mac: one item per OFDM    *)
(* symbol, and the tags that announce a legacy frame.  The payload of an   *)
(* item is named by the frame and the symbol it was demodulated from; the  *)
(* tags of one frame (they are put on one item together) are one header.   *)
(* GNU Radio owns the buffer; only its effect on the two blocks is         *)
(* described here.                                                         *)
(***************************************************************************)
EXTENDS Integers, Sequences

VARIABLES
    items,              \* the items written by frame_equalizer
    headers             \* the headers, in the order they were written

symbolVars == <<items, headers>>

Item   == [frame : Nat, sym : Nat]
Header == [at : Nat, frame : Nat, encoding : Nat, bytes : Nat]

SymbolTypeOK == items \in Seq(Item) /\ headers \in Seq(Header)

SymbolInit == items = <<>> /\ headers = <<>>

(* One item is produced. *)
Emit(frame, sym) == items' = Append(items, [frame |-> frame, sym |-> sym])

(* Mutant: the tags are put one item too late. *)
AnnounceLate(frame, encoding, bytes) ==
    headers' = Append(headers, [at |-> Len(items) + 1, frame |-> frame,
                                encoding |-> encoding, bytes |-> bytes])

(* add_item_tag(0, nitems_written(0) + o, ...), for every tag of a header: *)
(* it sits on the item that will be written next.                          *)
Announce(frame, encoding, bytes) ==
    headers' = Append(headers, [at |-> Len(items), frame |-> frame,
                                encoding |-> encoding, bytes |-> bytes])

(* The headers that get_tags_in_range finds on item p (counted from 0). *)
HeadersAt(p) == {k \in DOMAIN headers : headers[k].at = p}
=============================================================================
