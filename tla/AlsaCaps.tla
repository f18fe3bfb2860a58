------------------------------ MODULE AlsaCaps ------------------------------
(***************************************************************************)
(* The formats a player advertises: the probe of the ALSA device           *)
(* (sendspin_player/src/alsa_caps.cpp) and the menu made of it             *)
(* (started_event.cpp).                                                    *)
(*                                                                         *)
(* ALSA and the kernel are external: which rates and sample formats the    *)
(* device takes, and the lines of its ELD, in any order and with any line  *)
(* missing.                                                                *)
(***************************************************************************)
EXTENDS Integers, Sequences, SequencesExt

CONSTANTS
  Names,      \* kinds of --alsa-device: "plughw", "hw", "default"
  Rates,      \* kCandidateRates, in order
  MaxEld      \* bound: lines of the ELD

VARIABLES
  device,     \* the device and what it accepts (external)
  menu,       \* the formats advertised
  probed      \* the probe is done

vars == <<device, menu, probed>>

Depths == <<16, 24, 32>>
Hdmi == device.formats = {} /\ device.subframe

\* A line of the ELD: of which descriptor, and a field with its values; the
\* coding type 1 is LPCM.
EldLines ==
  {[sad |-> n, field |-> "coding", value |-> v] : n \in {0, 1}, v \in {{1}, {2}}}
    \union {[sad |-> n, field |-> "bits", value |-> v] : n \in {0, 1}, v \in {{16}, {16, 24}}}
    \union {[sad |-> n, field |-> "rates", value |-> v] : n \in {0, 1}, v \in SUBSET Range(Rates)}

Init ==
  /\ device \in [name : Names, opens : BOOLEAN, rates : SUBSET Range(Rates),
                 formats : SUBSET Range(Depths),
                 subframe : BOOLEAN, eld : {<< >>}]
  /\ menu = << >> /\ probed = FALSE

\* One more line in the ELD of an HDMI sink.
EldLine(line) ==
  /\ ~probed /\ Hdmi /\ device.name # "default" /\ device.opens
  /\ Len(device.eld) < MaxEld /\ \A i \in DOMAIN device.eld :
       <<device.eld[i].sad, device.eld[i].field>> # <<line.sad, line.field>>
  /\ device' = [device EXCEPT !.eld = Append(@, line)]
  /\ UNCHANGED <<menu, probed>>

-----------------------------------------------------------------------------
NoSad == [lpcm |-> FALSE, has24 |-> FALSE, rates |-> {}]

\* mutant of EldRates24: the descriptors are not told apart
EldRates24Mixed(eld) ==
  LET read(sads, line) ==
        CASE line.field = "coding" -> [sads EXCEPT ![0].lpcm = @ \/ 1 \in line.value]
          [] line.field = "bits" -> [sads EXCEPT ![0].has24 = @ \/ 24 \in line.value]
          [] line.field = "rates" -> [sads EXCEPT ![0].rates = @ \union line.value]
      sads == FoldLeft(read, [n \in {0, 1} |-> NoSad], eld)
  IN UNION {sads[n].rates : n \in {m \in {0, 1} : sads[m].lpcm /\ sads[m].has24}}

\* eld_lpcm_24bit_rates()
EldRates24(eld) ==
  LET read(sads, line) ==
        CASE line.field = "coding" -> [sads EXCEPT ![line.sad].lpcm = 1 \in line.value]
          [] line.field = "bits" -> [sads EXCEPT ![line.sad].has24 = @ \/ 24 \in line.value]
          [] line.field = "rates" -> [sads EXCEPT ![line.sad].rates = @ \union line.value]
      sads == FoldLeft(read, [n \in {0, 1} |-> NoSad], eld)
  IN UNION {sads[n].rates : n \in {m \in {0, 1} : sads[m].lpcm /\ sads[m].has24}}

\* hw_device_for_probe(): nothing to probe at other names.
HwDeviceForProbe == device.name \in {"plughw", "hw"}

Pairs(rates, depths) == [i \in DOMAIN rates |-> [rate |-> rates[i], depth |-> depths]]
NoCaps == [ok |-> FALSE, rates |-> << >>, depths |-> << >>, pairs |-> << >>]

\* probe_caps()
ProbeCaps ==
  LET rates == SelectSeq(Rates, LAMBDA r : r \in device.rates)
      depths == SelectSeq(Depths, LAMBDA d : d \in device.formats)
      with24 == SelectSeq(rates, LAMBDA r : r \in EldRates24(device.eld))
      linear == [ok |-> rates # << >> /\ depths # << >>, rates |-> rates, depths |-> depths,
                 pairs |-> << >>]
      hdmi == [ok |-> rates # << >>, rates |-> rates,
               depths |-> IF with24 = << >> THEN <<16>> ELSE <<16, 24>>,
               pairs |-> Pairs(rates, 16) \o Pairs(with24, 24)]
  IN IF ~HwDeviceForProbe \/ ~device.opens THEN NoCaps
     ELSE IF Hdmi THEN hdmi ELSE linear

Floor ==
  << [codec |-> "flac", rate |-> 44100, depth |-> 16], [codec |-> "flac", rate |-> 48000, depth |-> 16],
     [codec |-> "opus", rate |-> 48000, depth |-> 16],
     [codec |-> "pcm", rate |-> 44100, depth |-> 16], [codec |-> "pcm", rate |-> 48000, depth |-> 16] >>

\* build_audio_formats()
BuildAudioFormats(caps) ==
  LET cross == FlattenSeq([i \in DOMAIN caps.depths |-> Pairs(caps.rates, caps.depths[i])])
      pairs == IF caps.pairs = << >> THEN cross ELSE caps.pairs
      above == SelectSeq(pairs, LAMBDA p : ~(p.depth = 16 /\ p.rate \in {44100, 48000}))
      both(p) == << [codec |-> "flac", rate |-> p.rate, depth |-> p.depth],
                    [codec |-> "pcm", rate |-> p.rate, depth |-> p.depth] >>
  IN IF ~caps.ok THEN Floor ELSE Floor \o FlattenSeq([i \in DOMAIN above |-> both(above[i])])

Probe ==
  /\ ~probed /\ probed' = TRUE /\ menu' = BuildAudioFormats(ProbeCaps)
  /\ UNCHANGED device

Next == Probe \/ \E line \in EldLines : EldLine(line)

Spec == Init /\ [][Next]_vars

-----------------------------------------------------------------------------
TypeOK == device.rates \subseteq Range(Rates) /\ probed \in BOOLEAN /\ Len(device.eld) <= MaxEld

\* The device plays a rate with a depth: a linear format of its own, or, of
\* an HDMI sink, 16 bits, and 24 where one LPCM descriptor says both.
Plays(rate, depth) ==
  LET says(n, f, v) == \E i \in DOMAIN device.eld :
        device.eld[i].sad = n /\ device.eld[i].field = f /\ v \in device.eld[i].value
  IN /\ device.name # "default" /\ device.opens /\ rate \in device.rates
     /\ \/ depth \in device.formats
        \/ /\ Hdmi
           /\ \/ depth = 16
              \/ depth = 24 /\ \E n \in {0, 1} :
                   says(n, "coding", 1) /\ says(n, "bits", 24) /\ says(n, "rates", rate)

\* The menu is the floor and, as FLAC and PCM and once each, exactly what the
\* device plays above it (started_event.cpp:24).
MenuIsPlayable ==
  probed =>
    /\ IsInjective(menu) /\ SubSeq(menu, 1, 5) = Floor
    /\ Range(menu) = Range(Floor) \union
         {[codec |-> c, rate |-> p[1], depth |-> p[2]] : c \in {"flac", "pcm"},
            p \in {<<a, b>> \in Range(Rates) \X Range(Depths) : Plays(a, b)}}
=============================================================================
