------------------------------ MODULE RxChain -------------------------------
(***************************************************************************)
(* frame_equalizer feeding decode_mac, as the flow graphs connect them:    *)
(* two GNU Radio threads that share a buffer of symbols with its tags.     *)
(***************************************************************************)
EXTENDS FrameEqualizer, DecodeMac

vars == <<ownVars, macVars, symbolVars>>

Init == EqInit /\ MacInit /\ SymbolInit

EqStep  == (EqWork \/ SetAlgorithm) /\ UNCHANGED macVars
MacStep == MacWork /\ UNCHANGED <<ownVars, symbolVars>>

Next == EqStep \/ MacStep

(* decode_mac's thread is not starved; vectors need not come. *)
Spec == Init /\ [][Next]_vars
FairSpec == Spec /\ WF_vars(MacStep)

TypeOK == EqTypeOK /\ SymbolTypeOK /\ MacTypeOK

-----------------------------------------------------------------------------
(* Header k is the one decode_mac goes by: no later one is on the same item. *)
Effective(k) == \A j \in DOMAIN headers : j > k => headers[j].at > headers[k].at

HeaderNSym(k) == NSym(headers[k].bytes, LegacyOfdm(headers[k].encoding).dbps)

(* decode_mac refused, or will refuse, frame f. *)
Rejected(f) == \E k \in DOMAIN headers : headers[k].frame = f /\ ~Accepts(headers[k])

(* While an accepted frame is collected, `copied' symbols of it are in      *)
(* d_rx_symbols and there is room for what is to come: whatever tags come   *)
(* in the middle, and whatever was copied before the first one.             *)
CopiedInBounds ==
    dFrame.frame > 0 => /\ copied \in 0 .. dFrame.nsym
                        /\ copied = Len(rxSymbols)
                        /\ dFrame.nsym <= MAX_SYM

(* The symbols given to a decode are symbols of the frame whose length and  *)
(* rate it uses, in their order and without a gap; only symbols of a frame  *)
(* that was refused can follow them.                                        *)
DecodesOwnSymbols ==
    \A d \in DOMAIN mdecodes : \A k \in DOMAIN mdecodes[d].symbols :
        LET s == mdecodes[d].symbols[k]
        IN  \/ s.frame = mdecodes[d].frame /\ s.sym = k + 2
            \/ s.frame > mdecodes[d].frame /\ Rejected(s.frame)

(* A frame that was accepted and whose symbols all passed decode_mac before *)
(* another header has been decoded, once: nothing is lost and nothing is    *)
(* decoded twice, whatever was interrupted before.                          *)
CompleteFramesDecoded ==
    /\ \A k \in DOMAIN headers :
          (/\ Accepts(headers[k])
           /\ headers[k].at + HeaderNSym(k) <= mread
           /\ \A j \in DOMAIN headers : j > k =>
                  headers[j].at >= headers[k].at + HeaderNSym(k))
          => \E d \in DOMAIN mdecodes :
                /\ mdecodes[d].frame = headers[k].frame
                /\ mdecodes[d].meta = headers[k].frame
                /\ \A s \in DOMAIN mdecodes[d].symbols :
                      mdecodes[d].symbols[s].frame = headers[k].frame
    /\ \A c, d \in DOMAIN mdecodes : c < d => mdecodes[c].frame < mdecodes[d].frame

(* A complete frame that decode_mac accepts is decoded in the end. *)
FrameDecoded ==
    \A f \in 1 .. MAX_FRAMES :
        (\E k \in DOMAIN headers :
            /\ headers[k].frame = f /\ Accepts(headers[k]) /\ Effective(k)
            /\ headers[k].at + HeaderNSym(k) <= Len(items)
            /\ \A j \in DOMAIN headers : j > k =>
                   headers[j].at >= headers[k].at + HeaderNSym(k))
        ~> \E d \in DOMAIN mdecodes : mdecodes[d].frame = f

-----------------------------------------------------------------------------
(* What the chain promises to whoever receives its PDUs. *)
Delivery == INSTANCE FrameDelivery WITH
    announced <- {headers[k].frame : k \in DOMAIN headers},
    delivered <- pdus

DeliverySpec == Delivery!Spec
-----------------------------------------------------------------------------
(* "Dropping frame which is too large/inconsistent" (decode_mac.cc:121): a  *)
(* frame that is dropped is not decoded, neither whole nor in part.         *)
DroppedNotDecoded ==
    \A d \in DOMAIN mdecodes : \A k \in DOMAIN mdecodes[d].symbols :
        ~Rejected(mdecodes[d].symbols[k].frame)
=============================================================================
