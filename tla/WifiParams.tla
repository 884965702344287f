----------------------------- MODULE WifiParams -----------------------------
(***************************************************************************)
(* ofdm_param and frame_param: how many symbols and coded bits a frame of  *)
(* a given rate and length has, and the limits of the fixed buffers that   *)
(* every decoder of the receiver shares.  Both places that publish a PSDU  *)
(* (decode_mac and frame_equalizer) read GR_KEEP_CORRUPTED.                *)
(***************************************************************************)
EXTENDS Integers

CONSTANTS
    MAX_PSDU_SIZE,      \* 1528
    MAX_SYM,            \* 511
    MAX_ENCODED_BITS,   \* 25788
    KEEP_CORRUPTED      \* GR_KEEP_CORRUPTED is set in the environment

ASSUME LimitsAssumption ==
    /\ MAX_PSDU_SIZE \in Nat /\ MAX_SYM \in Nat /\ MAX_ENCODED_BITS \in Nat
    /\ KEEP_CORRUPTED \in BOOLEAN

(* Coded bits per subcarrier and coding rate: of the eight legacy           *)
(* encodings, and of the eight single-stream HT MCS.                        *)
LegacyCoding ==
    <<[bpsc |-> 1, num |-> 1, den |-> 2], [bpsc |-> 1, num |-> 3, den |-> 4],
      [bpsc |-> 2, num |-> 1, den |-> 2], [bpsc |-> 2, num |-> 3, den |-> 4],
      [bpsc |-> 4, num |-> 1, den |-> 2], [bpsc |-> 4, num |-> 3, den |-> 4],
      [bpsc |-> 6, num |-> 2, den |-> 3], [bpsc |-> 6, num |-> 3, den |-> 4]>>

HtCoding ==
    <<[bpsc |-> 1, num |-> 1, den |-> 2], [bpsc |-> 2, num |-> 1, den |-> 2],
      [bpsc |-> 2, num |-> 3, den |-> 4], [bpsc |-> 4, num |-> 1, den |-> 2],
      [bpsc |-> 4, num |-> 3, den |-> 4], [bpsc |-> 6, num |-> 2, den |-> 3],
      [bpsc |-> 6, num |-> 3, den |-> 4], [bpsc |-> 6, num |-> 5, den |-> 6]>>

(* ofdm_param: n_cbps and n_dbps for `carriers' data subcarriers. *)
Ofdm(coding, carriers) ==
    LET cbps == carriers * coding.bpsc
    IN  [cbps |-> cbps, dbps |-> (cbps * coding.num) \div coding.den,
         punctured |-> coding.den # 2]

LegacyOfdm(encoding) == Ofdm(LegacyCoding[encoding + 1], 48)
HtOfdm(mcs, bw)      == Ofdm(HtCoding[mcs + 1], IF bw = 40 THEN 108 ELSE 52)

(* frame_param: SERVICE (16 bits), PSDU and tail (6 bits) in whole symbols. *)
NSym(bytes, dbps) == (22 + 8 * bytes + dbps - 1) \div dbps

NDataBits(ofdm, bytes)    == NSym(bytes, ofdm.dbps) * ofdm.dbps
NEncodedBits(ofdm, bytes) == NSym(bytes, ofdm.dbps) * ofdm.cbps

(* What base::depuncture writes to d_depunctured: every bit of the rate 1/2 *)
(* mother code, unless the code is not punctured and used in place.         *)
NDepunctured(ofdm, nsym) == IF ofdm.punctured THEN 2 * nsym * ofdm.dbps ELSE 0
=============================================================================
