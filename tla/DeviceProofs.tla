---------------------------- MODULE DeviceProofs -----------------------------
(***************************************************************************)
(* Proofs about the device at work.  The commandable objects (ao.c, av.c,  *)
(* bo.c, bv.c, mso.c, lo.c) keep the promise of CommandPriority for any    *)
(* number of objects, whatever their peers write at whatever priority, and *)
(* while load controls command the analog outputs; what is written of any  *)
(* object is what the next read of it returns; and the object list has     *)
(* every object once.                                                      *)
(***************************************************************************)
EXTENDS DeviceServer, NumberFacts, FiniteSetTheorems, TLAPS

\* What is read and kept of each type.
TagOf(T) == CASE T \in {"ao", "av", "lo"} -> "real"
              [] T \in {"bo", "bv"} -> "enumerated"
              [] T = "mso" -> "unsigned"
ScaleOf(T) == IF T \in {"ao", "av", "lo"} THEN 10 ELSE 1
LevelsOf(T) == CASE T \in {"ao", "av", "lo"} -> 0 .. 100
                 [] T \in {"bo", "bv"} -> BinaryPV
                 [] T = "mso" -> 0 .. MULTISTATE_NUMBER_OF_STATES

Extent(T) == CASE T = "ao" -> MAX_ANALOG_OUTPUTS [] T = "av" -> MAX_ANALOG_VALUES
               [] T = "bo" -> MAX_BINARY_OUTPUTS [] T = "bv" -> MAX_BINARY_VALUES
               [] T = "mso" -> MAX_MULTISTATE_OUTPUTS [] T = "lo" -> MAX_LIGHTING_OUTPUTS
Numbers(T) == 0 .. Extent(T) - 1

Levelled(T) == [Priorities -> LevelsOf(T) \cup {Null}]
\* The first object has at every priority a level of its type or none, and at
\* priority 6 none.
FirstOK(T, x) ==
    /\ 0 \in DOMAIN x /\ "level" \in DOMAIN x[0]
    /\ x[0].level \in Levelled(T) /\ x[0].level[6] = Null

-----------------------------------------------------------------------------
LEMMA Counts ==
  ASSUME NEW T \in Commandable
  PROVE  /\ Extent(T) \in Nat \ {0} /\ 0 \in Numbers(T)
         /\ \A d : Object_Instances(d, T) = Numbers(T)
  <1>1. Extent(T) \in Nat \ {0} BY OutputsAssumption DEF Extent, Commandable
  <1>2. ASSUME NEW d PROVE Object_Instances(d, T) = Numbers(T)
    BY DEF Object_Instances, Numbers, Extent, Commandable, Analog_Output_Instances,
           Analog_Value_Instances, Binary_Output_Instances, Binary_Value_Instances,
           Multistate_Output_Instances, Lighting_Output_Instances
  <1> QED BY <1>1, <1>2 DEF Numbers

\* What merging two functions gives.
LEMMA Merged ==
  ASSUME NEW f, NEW g, NEW x
  PROVE  /\ x \in DOMAIN (f ++ g) <=> x \in DOMAIN f \/ x \in DOMAIN g
         /\ x \in DOMAIN f => (f ++ g)[x] = f[x]
         /\ x \notin DOMAIN f /\ x \in DOMAIN g => (f ++ g)[x] = g[x]
  BY DEF ++

\* An array is read whole: All is no index.
LEMMA WholeArray ==
  ASSUME NEW scalars, NEW arrays, NEW p, p \in DOMAIN arrays, DOMAIN arrays[p] \subseteq Nat
  PROVE  Reading(scalars, arrays, p, All) = Ack(arrays[p])
  <1>1. All # 0 /\ All \notin DOMAIN arrays[p] BY PropertiesAssumption
  <1> QED BY <1>1, Zenon DEF Reading

LEMMA ScalarRead ==
  ASSUME NEW scalars, NEW arrays, NEW p, p \notin DOMAIN arrays, p \in DOMAIN scalars
  PROVE  Reading(scalars, arrays, p, All) = Ack(scalars[p])
  BY DEF Reading

\* A property that only the type's own part has.
LEMMA OwnProperty ==
  ASSUME NEW common, NEW own, NEW p, p \notin DOMAIN common, p \in DOMAIN own
  PROVE  p \in DOMAIN (common ++ own) /\ (common ++ own)[p] = own[p]
  BY Merged

Followed == {"present_value", "relinquish_default", "priority_array"}
Common(T, n, name, oos) == Identified(T, n, name) ++ Described(name) ++ Flagged(oos, FALSE)

LEMMA CommonProperties ==
  ASSUME NEW T, NEW n, NEW name, NEW oos, NEW p \in Followed
  PROVE  p \notin DOMAIN Common(T, n, name, oos)
  <1>1. /\ p \notin DOMAIN Identified(T, n, name) /\ p \notin DOMAIN Described(name)
        /\ p \notin DOMAIN Flagged(oos, FALSE)
    BY DEF Identified, Described, Flagged, Followed
  <1>2. p \notin DOMAIN (Identified(T, n, name) ++ Described(name)) BY <1>1, Merged
  <1>3. p \notin DOMAIN (Identified(T, n, name) ++ Described(name) ++ Flagged(oos, FALSE))
    BY <1>1, <1>2, Merged
  <1> QED BY <1>3 DEF Common

\* The read function of each type, in the table of device.c.
LEMMA ReadFunctions ==
  ASSUME NEW o, NEW time, NEW n, NEW p, NEW i
  PROVE  /\ Object_Read_Property(o, time, "ao", n, p, i) = {Analog_Output_Read_Property(o.ao, n, p, i)}
         /\ Object_Read_Property(o, time, "av", n, p, i) = {Analog_Value_Read_Property(o.av, n, p, i)}
         /\ Object_Read_Property(o, time, "bo", n, p, i) = {Binary_Output_Read_Property(o.bo, n, p, i)}
         /\ Object_Read_Property(o, time, "bv", n, p, i) = Binary_Value_Read_Property(o.bv, n, p, i)
         /\ Object_Read_Property(o, time, "mso", n, p, i) = {Multistate_Output_Read_Property(o.mso, n, p, i)}
         /\ Object_Read_Property(o, time, "lo", n, p, i) = {Lighting_Output_Read_Property(o.lo, n, p, i)}
  BY Zenon DEF Object_Read_Property

\* What a type answers of an object whose commands are followed.
Shown(T, x) == IF T \in {"ao", "av", "lo"} THEN 10 * Effective(x, 0) ELSE Effective(x, 0)
Elements(T, x) == [q \in Priorities |-> ElementOf(x.level[q], TagOf(T), ScaleOf(T))]
Answered(T, x, p) ==
    CASE p = "present_value" -> << TagOf(T), Shown(T, x) >>
      [] p = "relinquish_default" -> << IF T = "mso" THEN "enumerated" ELSE TagOf(T), 0 >>
      [] p = "priority_array" -> Elements(T, x)

LEMMA Tags ==
  /\ TagOf("ao") = "real" /\ TagOf("av") = "real" /\ TagOf("lo") = "real"
  /\ TagOf("bo") = "enumerated" /\ TagOf("bv") = "enumerated" /\ TagOf("mso") = "unsigned"
  BY Zenon DEF TagOf

LEMMA Answer ==
  ASSUME NEW T, NEW x
  PROVE  /\ Answered(T, x, "present_value") = << TagOf(T), Shown(T, x) >>
         /\ Answered(T, x, "relinquish_default") = << IF T = "mso" THEN "enumerated" ELSE TagOf(T), 0 >>
         /\ Answered(T, x, "priority_array") = Elements(T, x)
  BY Zenon DEF Answered

\* The same of every type: what it shows as its own, and the levels.
LEMMA ReadAnswers ==
  ASSUME NEW T, NEW x, NEW common, NEW own, NEW p \in Followed,
         \A q \in Followed : q \notin DOMAIN common,
         "present_value" \in DOMAIN own, "relinquish_default" \in DOMAIN own,
         own["present_value"] = Answered(T, x, "present_value"),
         own["relinquish_default"] = Answered(T, x, "relinquish_default")
  PROVE  Reading(common ++ own, PriorityArray(x, TagOf(T), ScaleOf(T)), p, All)
            = Ack(Answered(T, x, p))
  <1> DEFINE scalars == common ++ own
             arrays  == PriorityArray(x, TagOf(T), ScaleOf(T))
  <1>1. DOMAIN arrays = {"priority_array"} BY DEF PriorityArray
  <1>2. arrays["priority_array"] = Elements(T, x) BY DEF PriorityArray, Elements
  <1>3. CASE p = "priority_array"
    <2>1. DOMAIN arrays[p] \subseteq Nat
      BY <1>2, <1>3 DEF Elements, Priorities, BACNET_MAX_PRIORITY
    <2>2. arrays[p] = Answered(T, x, p) BY <1>2, <1>3, Answer
    <2> HIDE DEF scalars, arrays
    <2>3. Reading(scalars, arrays, p, All) = Ack(arrays[p]) BY <1>1, <1>3, <2>1, WholeArray
    <2> QED BY <2>2, <2>3 DEF scalars, arrays
  <1>4. CASE p # "priority_array"
    <2>1. p \notin DOMAIN arrays BY <1>1, <1>4
    <2>2. p \in DOMAIN own /\ own[p] = Answered(T, x, p) BY <1>4 DEF Followed
    <2>3. p \in DOMAIN scalars /\ scalars[p] = own[p] BY <2>2, OwnProperty
    <2> HIDE DEF scalars, arrays
    <2>4. Reading(scalars, arrays, p, All) = Ack(scalars[p]) BY <2>1, <2>3, ScalarRead
    <2> QED BY <2>2, <2>3, <2>4 DEF scalars, arrays
  <1> QED BY <1>3, <1>4

LEMMA OutputRead ==
  ASSUME NEW o, NEW n, NEW p \in Followed
  PROVE  /\ Analog_Output_Read_Property(o, n, p, All) = Ack(Answered("ao", o[n], p))
         /\ Analog_Value_Read_Property(o, n, p, All) = Ack(Answered("av", o[n], p))
         /\ Binary_Output_Read_Property(o, n, p, All) = Ack(Answered("bo", o[n], p))
         /\ Binary_Value_Read_Property(o, n, p, All) = {Ack(Answered("bv", o[n], p))}
         /\ Multistate_Output_Read_Property(o, n, p, All) = Ack(Answered("mso", o[n], p))
         /\ Lighting_Output_Read_Property(o, n, p, All) = Ack(Answered("lo", o[n], p))
  <1>1. Analog_Output_Read_Property(o, n, p, All) = Ack(Answered("ao", o[n], p))
    <2> DEFINE own == [present_value |-> << "real", 10 * Analog_Output_Present_Value(o, n) >>,
                     units |-> << "enumerated", "percent" >>, relinquish_default |-> << "real", 0 >>]
    <2>1. own["present_value"] = Answered("ao", o[n], "present_value")
      BY Tags, Answer DEF Shown, Analog_Output_Present_Value
    <2>2. own["relinquish_default"] = Answered("ao", o[n], "relinquish_default")
      BY Tags, Answer
    <2>3. "present_value" \in DOMAIN own /\ "relinquish_default" \in DOMAIN own OBVIOUS
    <2>4. Analog_Output_Read_Property(o, n, p, All) =
            Reading(Common("ao", n, Analog_Output_Name(n), o[n].oos) ++ own,
                    PriorityArray(o[n], "real", 10), p, All)
      BY DEF Analog_Output_Read_Property, Common
    <2>5. TagOf("ao") = "real" /\ ScaleOf("ao") = 10 BY Tags DEF ScaleOf
    <2> HIDE DEF own
    <2>6. Reading(Common("ao", n, Analog_Output_Name(n), o[n].oos) ++ own,
                  PriorityArray(o[n], TagOf("ao"), ScaleOf("ao")), p, All) = Ack(Answered("ao", o[n], p))
      BY <2>1, <2>2, <2>3, CommonProperties, ReadAnswers
    <2> QED BY <2>4, <2>5, <2>6
  <1>2. Analog_Value_Read_Property(o, n, p, All) = Ack(Answered("av", o[n], p))
    <2> DEFINE own == [present_value |-> << "real", 10 * Analog_Value_Present_Value(o, n) >>,
                     units |-> << "enumerated", "percent" >>, relinquish_default |-> << "real", 0 >>]
    <2>1. own["present_value"] = Answered("av", o[n], "present_value")
      BY Tags, Answer DEF Shown, Analog_Value_Present_Value
    <2>2. own["relinquish_default"] = Answered("av", o[n], "relinquish_default")
      BY Tags, Answer
    <2>3. "present_value" \in DOMAIN own /\ "relinquish_default" \in DOMAIN own OBVIOUS
    <2>4. Analog_Value_Read_Property(o, n, p, All) =
            Reading(Common("av", n, Analog_Value_Name(n), o[n].oos) ++ own,
                    PriorityArray(o[n], "real", 10), p, All)
      BY DEF Analog_Value_Read_Property, Common
    <2>5. TagOf("av") = "real" /\ ScaleOf("av") = 10 BY Tags DEF ScaleOf
    <2> HIDE DEF own
    <2>6. Reading(Common("av", n, Analog_Value_Name(n), o[n].oos) ++ own,
                  PriorityArray(o[n], TagOf("av"), ScaleOf("av")), p, All) = Ack(Answered("av", o[n], p))
      BY <2>1, <2>2, <2>3, CommonProperties, ReadAnswers
    <2> QED BY <2>4, <2>5, <2>6
  <1>3. Binary_Output_Read_Property(o, n, p, All) = Ack(Answered("bo", o[n], p))
    <2> DEFINE own == [present_value |-> << "enumerated", Binary_Output_Present_Value(o, n) >>,
                     polarity |-> << "enumerated", "normal" >>,
                     relinquish_default |-> << "enumerated", 0 >>,
                     active_text |-> << "string", "on" >>, inactive_text |-> << "string", "off" >>]
    <2>1. own["present_value"] = Answered("bo", o[n], "present_value")
      BY Tags, Answer DEF Shown, Binary_Output_Present_Value
    <2>2. own["relinquish_default"] = Answered("bo", o[n], "relinquish_default")
      BY Tags, Answer
    <2>3. "present_value" \in DOMAIN own /\ "relinquish_default" \in DOMAIN own OBVIOUS
    <2>4. Binary_Output_Read_Property(o, n, p, All) =
            Reading(Common("bo", n, Binary_Output_Name(n), o[n].oos) ++ own,
                    PriorityArray(o[n], "enumerated", 1), p, All)
      BY DEF Binary_Output_Read_Property, Common
    <2>5. TagOf("bo") = "enumerated" /\ ScaleOf("bo") = 1 BY Tags DEF ScaleOf
    <2> HIDE DEF own
    <2>6. Reading(Common("bo", n, Binary_Output_Name(n), o[n].oos) ++ own,
                  PriorityArray(o[n], TagOf("bo"), ScaleOf("bo")), p, All) = Ack(Answered("bo", o[n], p))
      BY <2>1, <2>2, <2>3, CommonProperties, ReadAnswers
    <2> QED BY <2>4, <2>5, <2>6
  <1>4. Binary_Value_Read_Property(o, n, p, All) = {Ack(Answered("bv", o[n], p))}
    <2> DEFINE own == [present_value |-> << "enumerated", Binary_Value_Present_Value(o, n) >>,
                     relinquish_default |-> << "enumerated", 0 >>]
    <2>1. own["present_value"] = Answered("bv", o[n], "present_value")
      BY Tags, Answer DEF Shown, Binary_Value_Present_Value
    <2>2. own["relinquish_default"] = Answered("bv", o[n], "relinquish_default")
      BY Tags, Answer
    <2>3. "present_value" \in DOMAIN own /\ "relinquish_default" \in DOMAIN own OBVIOUS
    <2>4. Binary_Value_Read_Property(o, n, p, All) =
            {Reading(Common("bv", n, Binary_Value_Name(n), o[n].oos) ++ own,
                    PriorityArray(o[n], "enumerated", 1), p, All)}
      <3>1. All \notin Priorities
        BY PropertiesAssumption DEF Priorities, BACNET_MAX_PRIORITY
      <3> QED BY <3>1, Zenon DEF Binary_Value_Read_Property, Common
    <2>5. TagOf("bv") = "enumerated" /\ ScaleOf("bv") = 1 BY Tags DEF ScaleOf
    <2> HIDE DEF own
    <2>6. Reading(Common("bv", n, Binary_Value_Name(n), o[n].oos) ++ own,
                  PriorityArray(o[n], TagOf("bv"), ScaleOf("bv")), p, All) = Ack(Answered("bv", o[n], p))
      BY <2>1, <2>2, <2>3, CommonProperties, ReadAnswers
    <2> QED BY <2>4, <2>5, <2>6
  <1>5. Multistate_Output_Read_Property(o, n, p, All) = Ack(Answered("mso", o[n], p))
    <2> DEFINE own == [present_value |-> << "unsigned", Multistate_Output_Present_Value(o, n) >>,
                     number_of_states |-> << "unsigned", MULTISTATE_NUMBER_OF_STATES >>,
                     relinquish_default |-> << "enumerated", 0 >>]
    <2>1. own["present_value"] = Answered("mso", o[n], "present_value")
      BY Tags, Answer DEF Shown, Multistate_Output_Present_Value
    <2>2. own["relinquish_default"] = Answered("mso", o[n], "relinquish_default")
      BY Tags, Answer
    <2>3. "present_value" \in DOMAIN own /\ "relinquish_default" \in DOMAIN own OBVIOUS
    <2>4. Multistate_Output_Read_Property(o, n, p, All) =
            Reading(Common("mso", n, Multistate_Output_Name(n), o[n].oos) ++ own,
                    PriorityArray(o[n], "unsigned", 1), p, All)
      BY DEF Multistate_Output_Read_Property, Common
    <2>5. TagOf("mso") = "unsigned" /\ ScaleOf("mso") = 1 BY Tags DEF ScaleOf
    <2> HIDE DEF own
    <2>6. Reading(Common("mso", n, Multistate_Output_Name(n), o[n].oos) ++ own,
                  PriorityArray(o[n], TagOf("mso"), ScaleOf("mso")), p, All) = Ack(Answered("mso", o[n], p))
      BY <2>1, <2>2, <2>3, CommonProperties, ReadAnswers
    <2> QED BY <2>4, <2>5, <2>6
  <1>6. Lighting_Output_Read_Property(o, n, p, All) = Ack(Answered("lo", o[n], p))
    <2> DEFINE own == [present_value |-> << "real", 10 * Lighting_Output_Present_Value(o, n) >>,
                     progress_value |-> << "real", 10 * Lighting_Output_Progress_Value(o, n) >>,
                     lighting_command |-> Lighting_Output_Encode_Lighting_Command(o[n].command),
                     units |-> << "enumerated", "percent" >>,
                     relinquish_default |-> << "real", 0 >>]
    <2>1. own["present_value"] = Answered("lo", o[n], "present_value")
      BY Tags, Answer DEF Shown, Lighting_Output_Present_Value
    <2>2. own["relinquish_default"] = Answered("lo", o[n], "relinquish_default")
      BY Tags, Answer
    <2>3. "present_value" \in DOMAIN own /\ "relinquish_default" \in DOMAIN own OBVIOUS
    <2>4. Lighting_Output_Read_Property(o, n, p, All) =
            Reading(Common("lo", n, Lighting_Output_Name(n), o[n].oos) ++ own,
                    PriorityArray(o[n], "real", 10), p, All)
      BY DEF Lighting_Output_Read_Property, Common
    <2>5. TagOf("lo") = "real" /\ ScaleOf("lo") = 10 BY Tags DEF ScaleOf
    <2> HIDE DEF own
    <2>6. Reading(Common("lo", n, Lighting_Output_Name(n), o[n].oos) ++ own,
                  PriorityArray(o[n], TagOf("lo"), ScaleOf("lo")), p, All) = Ack(Answered("lo", o[n], p))
      BY <2>1, <2>2, <2>3, CommonProperties, ReadAnswers
    <2> QED BY <2>4, <2>5, <2>6
  <1> QED BY <1>1, <1>2, <1>3, <1>4, <1>5, <1>6

-----------------------------------------------------------------------------
\* What a peer reads of the first object of a type in the table.
LEMMA FirstObjectRead ==
  ASSUME NEW T \in Commandable, Device_Objects_Find_Functions(T),
         NEW o, NEW time, NEW p \in Followed
  PROVE  handler_read_property(o, time, T, 0, p, All, FALSE, TRUE) = {Ack(Answered(T, o[T][0], p))}
  <1>1. Object_Read_Property(o, time, T, 0, p, All) = {Ack(Answered(T, o[T][0], p))}
    <2>1. CASE T = "ao" BY <2>1, OutputRead, ReadFunctions
    <2>2. CASE T = "av" BY <2>2, OutputRead, ReadFunctions
    <2>3. CASE T = "bo" BY <2>3, OutputRead, ReadFunctions
    <2>4. CASE T = "bv" BY <2>4, OutputRead, ReadFunctions
    <2>5. CASE T = "mso" BY <2>5, OutputRead, ReadFunctions
    <2>6. CASE T = "lo" BY <2>6, OutputRead, ReadFunctions
    <2> QED BY <2>1, <2>2, <2>3, <2>4, <2>5, <2>6 DEF Commandable
  <1>2. Object_Valid_Instance(o.device, T, 0) BY Counts DEF Object_Valid_Instance
  <1>3. Device_Read_Property(o, time, T, 0, p, All) = {Ack(Answered(T, o[T][0], p))}
    BY <1>1, <1>2 DEF Device_Read_Property
  <1> QED BY <1>3 DEF handler_read_property

\* The levels as slots of the promise.
SlotOf(T, v) == IF v = Null THEN -1 ELSE v * ScaleOf(T)

LEMMA LevelTypes ==
  ASSUME NEW T \in Commandable
  PROVE  /\ LevelsOf(T) \subseteq 0 .. 254 /\ ScaleOf(T) \in {1, 10} /\ TagOf(T) # "null"
         /\ \A v \in LevelsOf(T) \cup {Null} : (SlotOf(T, v) = -1) <=> v = Null
  <1>1. LevelsOf(T) \in {0 .. 100, BinaryPV, 0 .. MULTISTATE_NUMBER_OF_STATES}
    BY Zenon DEF LevelsOf, Commandable
  <1>2. LevelsOf(T) \subseteq 0 .. 254 BY <1>1 DEF BinaryPV, MULTISTATE_NUMBER_OF_STATES
  <1>3. TagOf(T) # "null" BY Tags DEF Commandable
  <1> QED BY <1>2, <1>3 DEF ScaleOf, SlotOf, Null

LEMMA SlotsOfLevels ==
  ASSUME NEW T \in Commandable, NEW x, x.level \in Levelled(T)
  PROVE  /\ Slots(Elements(T, x)) = [p \in Priorities |-> SlotOf(T, x.level[p])]
         /\ \A p \in Priorities : x.level[p] \in LevelsOf(T) \cup {Null}
         /\ \A p \in Priorities : (Slots(Elements(T, x))[p] = -1) <=> x.level[p] = Null
  <1>1. \A p \in Priorities : x.level[p] \in LevelsOf(T) \cup {Null} BY DEF Levelled
  <1>2. ASSUME NEW p \in Priorities
        PROVE  (IF Elements(T, x)[p][1] = "null" THEN -1 ELSE Elements(T, x)[p][2])
                  = SlotOf(T, x.level[p])
    BY LevelTypes DEF Elements, ElementOf, SlotOf
  <1>3. Slots(Elements(T, x)) = [p \in Priorities |-> SlotOf(T, x.level[p])]
    BY <1>2 DEF Slots
  <1> QED BY <1>1, <1>3, LevelTypes

\* The first slot that is commanded is the lowest number that is.
LEMMA WinnerShown ==
  ASSUME NEW T \in Commandable, NEW x, x.level \in Levelled(T)
  PROVE  Promise!Winner(Slots(Elements(T, x)), 0) = Shown(T, x)
  <1> DEFINE slots == Slots(Elements(T, x))
  <1>1. /\ \A p \in Priorities : x.level[p] \in LevelsOf(T) \cup {Null}
        /\ \A p \in Priorities : slots[p] = SlotOf(T, x.level[p])
        /\ \A p \in Priorities : slots[p] = -1 <=> x.level[p] = Null
    BY SlotsOfLevels
  <1> HIDE DEF slots
  <1>2. Promise!Slots = Priorities BY DEF Promise!Slots, Priorities, BACNET_MAX_PRIORITY
  <1>3. CASE Commands(x) = {}
    <2>1. \A p \in Promise!Slots : slots[p] = -1 BY <1>1, <1>2, <1>3 DEF Commands
    <2>2. Promise!Winner(slots, 0) = 0 BY <2>1 DEF Promise!Winner
    <2> QED BY <1>3, <2>2 DEF Shown, Effective, slots
  <1>4. CASE Commands(x) # {}
    <2>1. Commands(x) \in SUBSET Nat BY DEF Commands, Priorities, BACNET_MAX_PRIORITY
    <2>2. PICK h \in Commands(x) : \A q \in Commands(x) : h <= q BY <1>4, <2>1, LeastExists
    <2>3. \A g \in Commands(x) : (\A q \in Commands(x) : g <= q) => g = h BY <2>1, <2>2
    <2>4. Highest(x) = h BY <2>2, <2>3 DEF Highest
    <2>5. h \in Priorities /\ slots[h] # -1 BY <1>1, <2>2 DEF Commands
    <2>6. \A q \in 1 .. h - 1 : slots[q] = -1
      BY <1>1, <2>2, <2>5 DEF Commands, Priorities, BACNET_MAX_PRIORITY
    <2>7. ASSUME NEW p \in Promise!Slots, slots[p] # -1, \A q \in 1 .. p - 1 : slots[q] = -1
          PROVE  p = h
      <3>1. p \in Commands(x) BY <1>1, <1>2, <2>7 DEF Commands
      <3>2. h <= p BY <2>2, <3>1
      <3>3. h \notin 1 .. p - 1 BY <2>5, <2>7
      <3> QED BY <1>2, <2>5, <3>2, <3>3 DEF Priorities, BACNET_MAX_PRIORITY
    <2>8. (CHOOSE p \in Promise!Slots : slots[p] # -1 /\ \A q \in 1 .. p - 1 : slots[q] = -1) = h
      BY <1>2, <2>5, <2>6, <2>7
    <2>9. Promise!Winner(slots, 0) = slots[h] BY <1>2, <2>5, <2>8 DEF Promise!Winner
    <2>10. slots[h] = x.level[h] * ScaleOf(T) BY <1>1, <2>5 DEF SlotOf
    <2>11. x.level[h] \in 0 .. 254 BY <1>1, <2>5, LevelTypes
    <2> QED BY <1>4, <2>4, <2>9, <2>10, <2>11 DEF Shown, Effective, ScaleOf, slots
  <1> QED BY <1>3, <1>4

-----------------------------------------------------------------------------
(* What a write leaves and answers. *)
WithinBounds(value) ==
    /\ value[1] = "unsigned" => value[2] \in Nat
    /\ value[1] = "boolean" => value[2] \in BOOLEAN
Acceptable(T, value) == value[1] = TagOf(T) /\ value[2] \in 0 .. Limit(T)

CommandOutcome(T, x, wp, w) ==
    \/ /\ w.reply = SimpleAck /\ wp.priority # 6 /\ wp.value[1] = "null"
       /\ w.after[0].level = [x[0].level EXCEPT ![wp.priority] = Null]
    \/ /\ w.reply = SimpleAck /\ wp.priority # 6 /\ Acceptable(T, wp.value)
       /\ \E v \in LevelsOf(T) :
            /\ Kept(T, wp.value[2]) = SlotOf(T, v)
            /\ w.after[0].level = [x[0].level EXCEPT ![wp.priority] = v]
    \/ /\ w.reply = SimpleAck /\ wp.priority = 6 /\ wp.value[1] = "null"
       /\ w.after[0].level = x[0].level
    \/ /\ w.reply[1] = "error" /\ w.after[0].level = x[0].level
       /\ wp.priority = 6 \/ (wp.value[1] # "null" /\ ~Acceptable(T, wp.value))

Outcome(T, x, wp, w) ==
    /\ FirstOK(T, w.after)
    /\ IF wp.instance = 0 /\ wp.property = "present_value" THEN CommandOutcome(T, x, wp, w)
       ELSE w.after[0].level = x[0].level

LEMMA Limits ==
  /\ Limit("ao") = 1000 /\ Limit("av") = 1000 /\ Limit("lo") = 1000
  /\ Limit("bo") = 1 /\ Limit("bv") = 1 /\ Limit("mso") = 254
  /\ LevelsOf("ao") = 0 .. 100 /\ LevelsOf("av") = 0 .. 100 /\ LevelsOf("lo") = 0 .. 100
  /\ LevelsOf("bo") = BinaryPV /\ LevelsOf("bv") = BinaryPV
  /\ LevelsOf("mso") = 0 .. MULTISTATE_NUMBER_OF_STATES
  BY Zenon DEF Limit, LevelsOf

\* What the first object may be given at a priority.
MayHold(T, n, p, v) == n = 0 => v \in LevelsOf(T) \cup {Null} /\ (p = 6 => v = Null)

LEMMA CommandedLevel ==
  ASSUME NEW T, NEW x, FirstOK(T, x), NEW n, NEW p \in Priorities, NEW v, MayHold(T, n, p, v)
  PROVE  /\ FirstOK(T, Commanded(x, n, p, v))
         /\ n = 0 => Commanded(x, n, p, v)[0].level = [x[0].level EXCEPT ![p] = v]
         /\ n # 0 => Commanded(x, n, p, v)[0].level = x[0].level
  <1>1. 6 \in Priorities BY DEF Priorities, BACNET_MAX_PRIORITY
  <1>2. CASE n # 0 BY <1>2 DEF Commanded, FirstOK
  <1>3. CASE n = 0
    <2>1. /\ 0 \in DOMAIN Commanded(x, n, p, v) /\ "level" \in DOMAIN Commanded(x, n, p, v)[0]
          /\ Commanded(x, n, p, v)[0].level = [x[0].level EXCEPT ![p] = v]
      BY <1>3 DEF Commanded, FirstOK
    <2>2. [x[0].level EXCEPT ![p] = v] \in Levelled(T) BY <1>3 DEF FirstOK, Levelled, MayHold
    <2>3. [x[0].level EXCEPT ![p] = v][6] = Null BY <1>1, <1>3 DEF FirstOK, Levelled, MayHold
    <2> QED BY <1>3, <2>1, <2>2, <2>3 DEF FirstOK
  <1> QED BY <1>2, <1>3

LEMMA ServiceKeepsLevels ==
  ASSUME NEW T, NEW x, FirstOK(T, x), NEW wp
  PROVE  /\ FirstOK(T, OutOfServiceWritten(x, wp).after)
         /\ OutOfServiceWritten(x, wp).after[0].level = x[0].level
  BY DEF OutOfServiceWritten, Done, Refused, FirstOK

\* av.c, bo.c, bv.c, mso.c
LEMMA CommandWrittenOutcome ==
  ASSUME NEW T \in Commandable, NEW x, FirstOK(T, x), NEW wp, wp.priority \in Priorities,
         wp.property = "present_value", NEW settable \in BOOLEAN, NEW stored,
         wp.instance = 0 /\ wp.value[1] = TagOf(T) =>
            /\ settable <=> wp.value[2] \in 0 .. Limit(T)
            /\ settable => stored \in LevelsOf(T) /\ Kept(T, wp.value[2]) = SlotOf(T, stored)
  PROVE  Outcome(T, x, wp, CommandWritten(x, wp, TagOf(T), settable, stored))
  <1>0. PICK w : w = CommandWritten(x, wp, TagOf(T), settable, stored) OBVIOUS
  <1> SUFFICES Outcome(T, x, wp, w) BY <1>0
  <1>1. SimpleAck = << "ack", "simple" >> BY DEF SimpleAck, Ack
  <1>2. TagOf(T) # "null" BY LevelTypes
  <1>3. CASE wp.value[1] = TagOf(T) /\ MayCommand(wp.priority) /\ settable
    <2>1. w = Done(Commanded(x, wp.instance, wp.priority, stored)) BY <1>0, <1>3 DEF CommandWritten
    <2>2. w.reply = SimpleAck /\ w.after = Commanded(x, wp.instance, wp.priority, stored)
      BY <2>1 DEF Done
    <2>3. wp.priority # 6 BY <1>3 DEF MayCommand
    <2>4. /\ FirstOK(T, w.after)
          /\ wp.instance = 0 => w.after[0].level = [x[0].level EXCEPT ![wp.priority] = stored]
          /\ wp.instance # 0 => w.after[0].level = x[0].level
      <3>1. MayHold(T, wp.instance, wp.priority, stored) BY <1>3, <2>3 DEF MayHold
      <3>2. FirstOK(T, Commanded(x, wp.instance, wp.priority, stored)) BY <3>1, CommandedLevel
      <3>3. FirstOK(T, w.after) BY <2>2, <3>2
      <3> QED BY <2>2, <3>3 DEF Commanded, FirstOK
    <2>5. CASE wp.instance = 0
      <3>1. /\ w.reply = SimpleAck /\ wp.priority # 6 /\ Acceptable(T, wp.value)
            /\ stored \in LevelsOf(T) /\ Kept(T, wp.value[2]) = SlotOf(T, stored)
            /\ w.after[0].level = [x[0].level EXCEPT ![wp.priority] = stored]
        BY <1>3, <2>2, <2>3, <2>4, <2>5 DEF Acceptable
      <3>2. CommandOutcome(T, x, wp, w) BY <3>1 DEF CommandOutcome
      <3> QED BY <2>4, <2>5, <3>2 DEF Outcome
    <2>6. CASE wp.instance # 0 BY <2>4, <2>6 DEF Outcome
    <2> QED BY <2>5, <2>6
  <1>4. CASE wp.value[1] = TagOf(T) /\ ~(MayCommand(wp.priority) /\ settable)
    <2>1. w.reply[1] = "error" /\ w.after = x BY <1>0, <1>4 DEF CommandWritten, Refused, Error
    <2>2. wp.priority = 6 \/ ~settable BY <1>4 DEF MayCommand
    <2> QED BY <1>2, <1>4, <2>1, <2>2 DEF Outcome, CommandOutcome, Acceptable
  <1>5. CASE wp.value[1] # TagOf(T) /\ wp.value[1] # "null"
    <2>1. w.reply[1] = "error" /\ w.after = x
      BY <1>0, <1>5 DEF CommandWritten, WPValidateArgType, Refused, Error
    <2> QED BY <1>5, <2>1 DEF Outcome, CommandOutcome, Acceptable
  <1>6. CASE wp.value[1] # TagOf(T) /\ wp.value[1] = "null"
    <2>1. w = Done(Commanded(x, wp.instance, wp.priority, Null))
      BY <1>0, <1>6 DEF CommandWritten, WPValidateArgType
    <2>2. w.reply = SimpleAck /\ w.after = Commanded(x, wp.instance, wp.priority, Null)
      BY <2>1 DEF Done
    <2>3. /\ FirstOK(T, w.after)
          /\ wp.instance = 0 => w.after[0].level = [x[0].level EXCEPT ![wp.priority] = Null]
          /\ wp.instance # 0 => w.after[0].level = x[0].level
      <3>1. MayHold(T, wp.instance, wp.priority, Null) BY DEF MayHold
      <3>2. FirstOK(T, Commanded(x, wp.instance, wp.priority, Null)) BY <3>1, CommandedLevel
      <3>3. FirstOK(T, w.after) BY <2>2, <3>2
      <3> QED BY <2>2, <3>3 DEF Commanded, FirstOK
    <2>4. wp.priority = 6 => [x[0].level EXCEPT ![wp.priority] = Null] = x[0].level
      BY DEF FirstOK, Levelled
    <2>5. CASE wp.instance = 0
      <3>1. CommandOutcome(T, x, wp, w) BY <1>6, <2>2, <2>3, <2>4, <2>5 DEF CommandOutcome
      <3> QED BY <2>3, <2>5, <3>1 DEF Outcome
    <2>6. CASE wp.instance # 0 BY <2>3, <2>6 DEF Outcome
    <2> QED BY <2>5, <2>6
  <1> QED BY <1>3, <1>4, <1>5, <1>6

LEMMA WholeLevels ==
  ASSUME NEW v \in Percent
  PROVE  Whole(v) \in 0 .. 100 /\ v - (v % 10) = Whole(v) * 10
  BY DEF Percent, Whole

LEMMA KeptLevel ==
  ASSUME NEW T \in {"ao", "av", "lo"}, NEW v \in Percent
  PROVE  Whole(v) \in LevelsOf(T) /\ Kept(T, v) = SlotOf(T, Whole(v))
  <1>1. Kept(T, v) = v - (v % 10) /\ ScaleOf(T) = 10 BY DEF Kept, ScaleOf
  <1>2. SlotOf(T, Whole(v)) = Whole(v) * 10 BY <1>1, WholeLevels DEF SlotOf, Null
  <1> QED BY <1>1, <1>2, WholeLevels, Limits

\* Writes of other properties than the present value.
LEMMA OtherWrite ==
  ASSUME NEW T, NEW x, FirstOK(T, x), NEW wp, wp.property # "present_value", NEW w,
         w = OutOfServiceWritten(x, wp) \/ (\E code : w = Refused(x, code))
  PROVE  Outcome(T, x, wp, w)
  <1>1. CASE w = OutOfServiceWritten(x, wp)
    BY <1>1, ServiceKeepsLevels DEF Outcome
  <1>2. CASE \E code : w = Refused(x, code)
    <2>1. w.after = x BY <1>2 DEF Refused
    <2> QED BY <2>1 DEF Outcome
  <1> QED BY <1>1, <1>2

LEMMA ValueWrite ==
  ASSUME NEW x, NEW wp, wp.priority \in Priorities, WithinBounds(wp.value)
  PROVE  /\ FirstOK("av", x) => Outcome("av", x, wp, Analog_Value_Write_Property(x, wp))
         /\ FirstOK("bo", x) => Outcome("bo", x, wp, Binary_Output_Write_Property(x, wp))
         /\ FirstOK("bv", x) => Outcome("bv", x, wp, Binary_Value_Write_Property(x, wp))
         /\ FirstOK("mso", x) => Outcome("mso", x, wp, Multistate_Output_Write_Property(x, wp))
  <1> DEFINE v == wp.value[2]
  <1>1. CASE wp.property # "present_value"
    <2>1. /\ \/ Analog_Value_Write_Property(x, wp) = OutOfServiceWritten(x, wp)
             \/ Analog_Value_Write_Property(x, wp) = Refused(x, "write_access_denied")
          /\ \/ Binary_Output_Write_Property(x, wp) = OutOfServiceWritten(x, wp)
             \/ Binary_Output_Write_Property(x, wp) = Refused(x, "write_access_denied")
          /\ \/ Binary_Value_Write_Property(x, wp) = OutOfServiceWritten(x, wp)
             \/ Binary_Value_Write_Property(x, wp) = Refused(x, "write_access_denied")
          /\ \/ Multistate_Output_Write_Property(x, wp) = OutOfServiceWritten(x, wp)
             \/ Multistate_Output_Write_Property(x, wp) = Refused(x, "write_access_denied")
      BY <1>1, Zenon DEF Analog_Value_Write_Property, Binary_Output_Write_Property,
             Binary_Value_Write_Property, Multistate_Output_Write_Property
    <2> QED BY <1>1, <2>1, OtherWrite
  <1>2. CASE wp.property = "present_value"
    <2>1. /\ Analog_Value_Write_Property(x, wp) =
                CommandWritten(x, wp, "real", v \in Percent, Whole(v))
          /\ Binary_Output_Write_Property(x, wp) =
                CommandWritten(x, wp, "enumerated", v \in BinaryPV, v)
          /\ Binary_Value_Write_Property(x, wp) =
                CommandWritten(x, wp, "enumerated", v \in BinaryPV, v)
          /\ Multistate_Output_Write_Property(x, wp) =
                CommandWritten(x, wp, "unsigned", v <= MULTISTATE_NUMBER_OF_STATES, v)
      BY <1>2, Zenon DEF Analog_Value_Write_Property, Binary_Output_Write_Property,
             Binary_Value_Write_Property, Multistate_Output_Write_Property
    <2>2. FirstOK("av", x) => Outcome("av", x, wp, Analog_Value_Write_Property(x, wp))
      <3> SUFFICES ASSUME FirstOK("av", x)
                   PROVE  Outcome("av", x, wp, CommandWritten(x, wp, "real", v \in Percent, Whole(v)))
        BY <2>1
      <3>1. v \in Percent <=> v \in 0 .. Limit("av") BY Limits DEF Percent
      <3>2. v \in Percent => Whole(v) \in LevelsOf("av") /\ Kept("av", v) = SlotOf("av", Whole(v))
        BY KeptLevel
      <3>3. "av" \in Commandable /\ TagOf("av") = "real" BY Tags DEF Commandable
      <3>4. (v \in Percent) \in BOOLEAN OBVIOUS
      <3>5. Outcome("av", x, wp, CommandWritten(x, wp, TagOf("av"), v \in Percent, Whole(v)))
        BY <1>2, <3>1, <3>2, <3>3, <3>4, CommandWrittenOutcome
      <3> QED BY <3>3, <3>5
    <2>3. FirstOK("bo", x) => Outcome("bo", x, wp, Binary_Output_Write_Property(x, wp))
      <3> SUFFICES ASSUME FirstOK("bo", x)
                   PROVE  Outcome("bo", x, wp, CommandWritten(x, wp, "enumerated", v \in BinaryPV, v))
        BY <2>1
      <3>1. v \in BinaryPV <=> v \in 0 .. Limit("bo") BY Limits DEF BinaryPV
      <3>2. v \in BinaryPV => v \in LevelsOf("bo") /\ Kept("bo", v) = SlotOf("bo", v)
        BY Limits DEF Kept, SlotOf, ScaleOf, Null, BinaryPV
      <3>3. "bo" \in Commandable /\ TagOf("bo") = "enumerated" BY Tags DEF Commandable
      <3>4. (v \in BinaryPV) \in BOOLEAN OBVIOUS
      <3>5. Outcome("bo", x, wp, CommandWritten(x, wp, TagOf("bo"), v \in BinaryPV, v))
        BY <1>2, <3>1, <3>2, <3>3, <3>4, CommandWrittenOutcome
      <3> QED BY <3>3, <3>5
    <2>4. FirstOK("bv", x) => Outcome("bv", x, wp, Binary_Value_Write_Property(x, wp))
      <3> SUFFICES ASSUME FirstOK("bv", x)
                   PROVE  Outcome("bv", x, wp, CommandWritten(x, wp, "enumerated", v \in BinaryPV, v))
        BY <2>1
      <3>1. v \in BinaryPV <=> v \in 0 .. Limit("bv") BY Limits DEF BinaryPV
      <3>2. v \in BinaryPV => v \in LevelsOf("bv") /\ Kept("bv", v) = SlotOf("bv", v)
        BY Limits DEF Kept, SlotOf, ScaleOf, Null, BinaryPV
      <3>3. "bv" \in Commandable /\ TagOf("bv") = "enumerated" BY Tags DEF Commandable
      <3>4. (v \in BinaryPV) \in BOOLEAN OBVIOUS
      <3>5. Outcome("bv", x, wp, CommandWritten(x, wp, TagOf("bv"), v \in BinaryPV, v))
        BY <1>2, <3>1, <3>2, <3>3, <3>4, CommandWrittenOutcome
      <3> QED BY <3>3, <3>5
    <2>5. FirstOK("mso", x) => Outcome("mso", x, wp, Multistate_Output_Write_Property(x, wp))
      <3> DEFINE settable == v <= MULTISTATE_NUMBER_OF_STATES
      <3> SUFFICES ASSUME FirstOK("mso", x)
                   PROVE  Outcome("mso", x, wp, CommandWritten(x, wp, "unsigned", settable, v))
        BY <2>1
      <3>1. "mso" \in Commandable /\ TagOf("mso") = "unsigned" BY Tags DEF Commandable
      <3>2. wp.value[1] = TagOf("mso") =>
               /\ settable <=> v \in 0 .. Limit("mso")
               /\ settable => v \in LevelsOf("mso") /\ Kept("mso", v) = SlotOf("mso", v)
        BY <3>1, Limits DEF WithinBounds, MULTISTATE_NUMBER_OF_STATES, Kept, SlotOf, ScaleOf, Null
      <3>3. settable \in BOOLEAN OBVIOUS
      <3> HIDE DEF settable
      <3>5. Outcome("mso", x, wp, CommandWritten(x, wp, TagOf("mso"), settable, v))
        BY <1>2, <3>1, <3>2, <3>3, CommandWrittenOutcome
      <3> QED BY <3>1, <3>5
    <2> QED BY <2>2, <2>3, <2>4, <2>5
  <1> QED BY <1>1, <1>2

\* ao.c and lo.c set and relinquish by functions of their own.
LEMMA OwnCommand ==
  ASSUME NEW T \in {"ao", "lo"}, NEW x, FirstOK(T, x), NEW wp, wp.priority \in Priorities,
         wp.property = "present_value", NEW w,
         \/ /\ wp.value[1] = "real" /\ wp.priority # 6 /\ wp.value[2] \in Percent
            /\ w = Done(Commanded(x, wp.instance, wp.priority, Whole(wp.value[2])))
         \/ /\ wp.value[1] = "null" /\ wp.priority # 6
            /\ w = Done(Commanded(x, wp.instance, wp.priority, Null))
         \/ /\ \E code : w = Refused(x, code)
            /\ \/ wp.instance # 0 \/ wp.priority = 6 \/ wp.value[1] \notin {"real", "null"}
               \/ wp.value[1] = "real" /\ wp.value[2] \notin Percent
  PROVE  Outcome(T, x, wp, w)
  <1>1. TagOf(T) = "real" /\ SimpleAck = << "ack", "simple" >> BY Tags DEF SimpleAck, Ack
  <1>2. Percent = 0 .. Limit(T)
    <2>1. Limit(T) = 1000 BY Limits
    <2> QED BY <2>1 DEF Percent
  <1>3. CASE /\ wp.value[1] = "real" /\ wp.priority # 6 /\ wp.value[2] \in Percent
             /\ w = Done(Commanded(x, wp.instance, wp.priority, Whole(wp.value[2])))
    <2>1. PICK v : v = Whole(wp.value[2]) OBVIOUS
    <2>2. v \in LevelsOf(T) /\ Kept(T, wp.value[2]) = SlotOf(T, v) BY <1>3, <2>1, KeptLevel
    <2>3. w.reply = SimpleAck /\ w.after = Commanded(x, wp.instance, wp.priority, v)
      BY <1>3, <2>1 DEF Done
    <2>4. MayHold(T, wp.instance, wp.priority, v) BY <1>3, <2>2 DEF MayHold
    <2>5. /\ FirstOK(T, w.after)
          /\ wp.instance = 0 => w.after[0].level = [x[0].level EXCEPT ![wp.priority] = v]
          /\ wp.instance # 0 => w.after[0].level = x[0].level
      <3>1. FirstOK(T, Commanded(x, wp.instance, wp.priority, v)) BY <2>4, CommandedLevel
      <3>2. FirstOK(T, w.after) BY <2>3, <3>1
      <3> QED BY <2>3, <3>2 DEF Commanded, FirstOK
    <2>6. CASE wp.instance = 0
      <3>1. CommandOutcome(T, x, wp, w)
        BY <1>1, <1>2, <1>3, <2>2, <2>3, <2>5, <2>6 DEF CommandOutcome, Acceptable
      <3> QED BY <2>5, <2>6, <3>1 DEF Outcome
    <2>7. CASE wp.instance # 0 BY <2>5, <2>7 DEF Outcome
    <2> QED BY <2>6, <2>7
  <1>4. CASE /\ wp.value[1] = "null" /\ wp.priority # 6
             /\ w = Done(Commanded(x, wp.instance, wp.priority, Null))
    <2>1. w.reply = SimpleAck /\ w.after = Commanded(x, wp.instance, wp.priority, Null)
      BY <1>4 DEF Done
    <2>2. /\ FirstOK(T, w.after)
          /\ wp.instance = 0 => w.after[0].level = [x[0].level EXCEPT ![wp.priority] = Null]
          /\ wp.instance # 0 => w.after[0].level = x[0].level
      <3>1. MayHold(T, wp.instance, wp.priority, Null) BY DEF MayHold
      <3>2. FirstOK(T, Commanded(x, wp.instance, wp.priority, Null)) BY <3>1, CommandedLevel
      <3>3. FirstOK(T, w.after) BY <2>1, <3>2
      <3> QED BY <2>1, <3>3 DEF Commanded, FirstOK
    <2>3. CASE wp.instance = 0
      <3>1. CommandOutcome(T, x, wp, w) BY <1>4, <2>1, <2>2, <2>3 DEF CommandOutcome
      <3> QED BY <2>2, <2>3, <3>1 DEF Outcome
    <2>4. CASE wp.instance # 0 BY <2>2, <2>4 DEF Outcome
    <2> QED BY <2>3, <2>4
  <1>5. CASE /\ \E code : w = Refused(x, code)
             /\ \/ wp.instance # 0 \/ wp.priority = 6 \/ wp.value[1] \notin {"real", "null"}
                \/ wp.value[1] = "real" /\ wp.value[2] \notin Percent
    <2>1. w.reply[1] = "error" /\ w.after = x BY <1>5 DEF Refused, Error
    <2> QED BY <1>1, <1>2, <1>5, <2>1 DEF Outcome, CommandOutcome, Acceptable
  <1> QED BY <1>3, <1>4, <1>5

LEMMA AnalogOutputWrite ==
  ASSUME NEW x, FirstOK("ao", x), NEW wp, wp.priority \in Priorities,
         wp.instance \in Analog_Output_Instances
  PROVE  Outcome("ao", x, wp, Analog_Output_Write_Property(x, wp))
  <1> DEFINE n == wp.instance
             p == wp.priority
             v == wp.value[2]
  <1>0. PICK w : w = Analog_Output_Write_Property(x, wp) OBVIOUS
  <1> SUFFICES Outcome("ao", x, wp, w) BY <1>0
  <1>1. CASE wp.property # "present_value"
    <2>1. w = OutOfServiceWritten(x, wp) \/ w = Refused(x, "write_access_denied")
      BY <1>0, <1>1, Zenon DEF Analog_Output_Write_Property
    <2> QED BY <1>1, <2>1, OtherWrite
  <1>2. CASE wp.property = "present_value" /\ wp.value[1] = "real"
    <2>1. w = IF p = 6 THEN Refused(x, "write_access_denied")
              ELSE Analog_Output_Present_Value_Set(x, n, v, p)
      BY <1>0, <1>2, Zenon DEF Analog_Output_Write_Property
    <2>2. CASE p = 6
      <3>1. w = Refused(x, "write_access_denied") BY <2>1, <2>2
      <3> QED BY <1>2, <2>2, <3>1, OwnCommand
    <2>3. CASE p # 6 /\ v \in Percent
      <3>1. w = Done(Commanded(x, n, p, Whole(v)))
        BY <2>1, <2>3 DEF Analog_Output_Present_Value_Set, MayCommand
      <3> QED BY <1>2, <2>3, <3>1, OwnCommand
    <2>4. CASE p # 6 /\ v \notin Percent
      <3>1. w = Refused(x, "value_out_of_range")
        BY <2>1, <2>4 DEF Analog_Output_Present_Value_Set
      <3> QED BY <1>2, <2>4, <3>1, OwnCommand
    <2> QED BY <2>2, <2>3, <2>4
  <1>3. CASE wp.property = "present_value" /\ wp.value[1] # "real"
    <2>1. w = IF wp.value[1] = "null" THEN Analog_Output_Present_Value_Relinquish(x, n, p)
              ELSE Refused(x, "invalid_data_type")
      BY <1>0, <1>3, Zenon DEF Analog_Output_Write_Property, WPValidateArgType
    <2>2. CASE wp.value[1] = "null" /\ p # 6
      <3>1. w = Done(Commanded(x, n, p, Null))
        BY <2>1, <2>2 DEF Analog_Output_Present_Value_Relinquish, MayCommand
      <3> QED BY <1>3, <2>2, <3>1, OwnCommand
    <2>3. CASE wp.value[1] = "null" /\ p = 6
      <3>1. w = Refused(x, "value_out_of_range")
        BY <2>1, <2>3 DEF Analog_Output_Present_Value_Relinquish, MayCommand
      <3> QED BY <1>3, <2>3, <3>1, OwnCommand
    <2>4. CASE wp.value[1] # "null"
      <3>1. w = Refused(x, "invalid_data_type") BY <2>1, <2>4
      <3> QED BY <1>3, <2>4, <3>1, OwnCommand
    <2> QED BY <2>2, <2>3, <2>4
  <1> QED BY <1>1, <1>2, <1>3

LEMMA LightingOutputWrite ==
  ASSUME NEW x, FirstOK("lo", x), NEW wp, wp.priority \in Priorities
  PROVE  Outcome("lo", x, wp, Lighting_Output_Write_Property(x, wp))
  <1> DEFINE n == wp.instance
             p == wp.priority
             v == wp.value[2]
  <1>0. PICK w : w = Lighting_Output_Write_Property(x, wp) OBVIOUS
  <1> SUFFICES Outcome("lo", x, wp, w) BY <1>0
  <1>1. CASE wp.property # "present_value"
    <2>1. \/ w = OutOfServiceWritten(x, wp) \/ w = Refused(x, "write_access_denied")
          \/ w = Refused(x, "stale")
      BY <1>0, <1>1, Zenon
      DEF Lighting_Output_Write_Property, Lighting_Output_Decode_Lighting_Command
    <2> QED BY <1>1, <2>1, OtherWrite
  <1>2. CASE wp.property = "present_value" /\ p = 6 /\ wp.value[1] \in {"real", "null"}
    <2>1. w = Refused(x, "write_access_denied")
      BY <1>0, <1>2, Zenon DEF Lighting_Output_Write_Property
    <2> QED BY <1>2, <2>1, OwnCommand
  <1>3. CASE wp.property = "present_value" /\ p # 6 /\ wp.value[1] = "real"
    <2>1. w = Lighting_Output_Present_Value_Set(x, n, v, p)
      BY <1>0, <1>3, Zenon DEF Lighting_Output_Write_Property
    <2>2. CASE v \in Percent
      <3>1. w = Done(Commanded(x, n, p, Whole(v)))
        BY <1>3, <2>1, <2>2 DEF Lighting_Output_Present_Value_Set, MayCommand
      <3> QED BY <1>3, <2>2, <3>1, OwnCommand
    <2>3. CASE v \notin Percent
      <3>1. w = Refused(x, "value_out_of_range")
        BY <2>1, <2>3 DEF Lighting_Output_Present_Value_Set
      <3> QED BY <1>3, <2>3, <3>1, OwnCommand
    <2> QED BY <2>2, <2>3
  <1>4. CASE wp.property = "present_value" /\ p # 6 /\ wp.value[1] = "null"
    <2>1. w = Lighting_Output_Present_Value_Relinquish(x, n, p)
      BY <1>0, <1>4, Zenon DEF Lighting_Output_Write_Property
    <2>2. w = Done(Commanded(x, n, p, Null))
      BY <1>4, <2>1 DEF Lighting_Output_Present_Value_Relinquish, MayCommand
    <2> QED BY <1>4, <2>2, OwnCommand
  <1>5. CASE wp.property = "present_value" /\ wp.value[1] \notin {"real", "null"}
    <2>1. w = Refused(x, "invalid_data_type")
      BY <1>0, <1>5, Zenon DEF Lighting_Output_Write_Property
    <2> QED BY <1>5, <2>1, OwnCommand
  <1> QED BY <1>1, <1>2, <1>3, <1>4, <1>5

\* The write function of each type, in the table of device.c.
LEMMA WriteFunctions ==
  ASSUME NEW o, NEW time, NEW wp
  PROVE  /\ wp.type = "ao" => Object_Write_Property(o, time, wp) = Analog_Output_Write_Property(o.ao, wp)
         /\ wp.type = "av" => Object_Write_Property(o, time, wp) = Analog_Value_Write_Property(o.av, wp)
         /\ wp.type = "bo" => Object_Write_Property(o, time, wp) = Binary_Output_Write_Property(o.bo, wp)
         /\ wp.type = "bv" => Object_Write_Property(o, time, wp) = Binary_Value_Write_Property(o.bv, wp)
         /\ wp.type = "mso" => Object_Write_Property(o, time, wp) = Multistate_Output_Write_Property(o.mso, wp)
         /\ wp.type = "lo" => Object_Write_Property(o, time, wp) = Lighting_Output_Write_Property(o.lo, wp)
         /\ wp.type = "lc" => Object_Write_Property(o, time, wp) = Load_Control_Write_Property(o.lc, wp)
  <1>1. CASE wp.type = "ao" BY <1>1, Zenon DEF Object_Write_Property
  <1>2. CASE wp.type = "av" BY <1>2, Zenon DEF Object_Write_Property
  <1>3. CASE wp.type = "bo" BY <1>3, Zenon DEF Object_Write_Property
  <1>4. CASE wp.type = "bv" BY <1>4, Zenon DEF Object_Write_Property
  <1>5. CASE wp.type = "mso" BY <1>5, Zenon DEF Object_Write_Property
  <1>6. CASE wp.type = "lo" BY <1>6, Zenon DEF Object_Write_Property
  <1>7. CASE wp.type = "lc" BY <1>7, Zenon DEF Object_Write_Property
  <1> QED BY <1>1, <1>2, <1>3, <1>4, <1>5, <1>6, <1>7

LEMMA OutputWrite ==
  ASSUME NEW T \in Commandable, NEW o, FirstOK(T, o[T]), NEW wp, wp.type = T,
         wp.priority \in Priorities, wp.instance \in Numbers(T), WithinBounds(wp.value), NEW time
  PROVE  Outcome(T, o[T], wp, Object_Write_Property(o, time, wp))
  <1>1. CASE T = "ao"
    <2>1. wp.instance \in Analog_Output_Instances
      BY <1>1 DEF Numbers, Extent, Analog_Output_Instances
    <2> QED BY <1>1, <2>1, WriteFunctions, AnalogOutputWrite
  <1>2. CASE T = "av" BY <1>2, WriteFunctions, ValueWrite
  <1>3. CASE T = "bo" BY <1>3, WriteFunctions, ValueWrite
  <1>4. CASE T = "bv" BY <1>4, WriteFunctions, ValueWrite
  <1>5. CASE T = "mso" BY <1>5, WriteFunctions, ValueWrite
  <1>6. CASE T = "lo" BY <1>6, WriteFunctions, LightingOutputWrite
  <1> QED BY <1>1, <1>2, <1>3, <1>4, <1>5, <1>6 DEF Commandable

\* What WriteProperty does to the first object of a type.
LEMMA ServiceOutcome ==
  ASSUME NEW T \in Commandable, Device_Objects_Find_Functions(T), NEW o, T \in DOMAIN o,
         FirstOK(T, o[T]), NEW wp, WithinBounds(wp.value), NEW time, NEW segmented, NEW w,
         w = handler_write_property(o, time, wp, segmented)
  PROVE  /\ DOMAIN w.after = DOMAIN o /\ FirstOK(T, w.after[T])
         /\ IF IsCommand(wp, T) /\ w.reply[1] # "abort"
            THEN /\ wp.priority \in Priorities
                 /\ CommandOutcome(T, o[T], wp, [reply |-> w.reply, after |-> w.after[T]])
            ELSE w.after[T][0].level = o[T][0].level
  <1>1. CASE w.after = o /\ (w.reply[1] = "abort" \/ ~IsCommand(wp, T))
    BY <1>1
  <1>2. CASE segmented \/ wp.priority \notin Priorities
    <2>1. w.after = o /\ w.reply[1] = "abort" BY <1>2 DEF handler_write_property, Abort
    <2> QED BY <1>1, <2>1
  <1>3. CASE ~segmented /\ wp.priority \in Priorities
    <2>1. w = Device_Write_Property(o, time, wp) BY <1>3 DEF handler_write_property
    <2>2. CASE ~Device_Objects_Find_Functions(wp.type)
      <3>1. w.after = o BY <2>1, <2>2 DEF Device_Write_Property, Refused
      <3>2. ~IsCommand(wp, T) BY <2>2 DEF IsCommand
      <3> QED BY <1>1, <3>1, <3>2
    <2>3. CASE /\ Device_Objects_Find_Functions(wp.type)
               /\ ~Object_Valid_Instance(o.device, wp.type, wp.instance)
      <3>1. w.after = o BY <2>1, <2>3 DEF Device_Write_Property, Refused
      <3>2. Object_Valid_Instance(o.device, T, 0) BY Counts DEF Object_Valid_Instance
      <3>3. ~IsCommand(wp, T) BY <2>3, <3>2 DEF IsCommand
      <3> QED BY <1>1, <3>1, <3>3
    <2>4. CASE /\ Device_Objects_Find_Functions(wp.type)
               /\ Object_Valid_Instance(o.device, wp.type, wp.instance)
      <3>1. PICK written : written = Object_Write_Property(o, time, wp) OBVIOUS
      <3>2. w = [reply |-> written.reply, after |-> [o EXCEPT ![wp.type] = written.after]]
        BY <2>1, <2>4, <3>1 DEF Device_Write_Property
      <3>3. w.reply = written.reply /\ w.after = [o EXCEPT ![wp.type] = written.after] BY <3>2
      <3>4. CASE wp.type # T
        <4>1. DOMAIN w.after = DOMAIN o /\ w.after[T] = o[T] BY <3>3, <3>4
        <4>2. ~IsCommand(wp, T) BY <3>4 DEF IsCommand
        <4> QED BY <4>1, <4>2
      <3>5. CASE wp.type = T
        <4>1. DOMAIN w.after = DOMAIN o /\ w.after[T] = written.after BY <3>3, <3>5
        <4>2. wp.instance \in Numbers(T)
          <5>1. T # "device" BY DEF Commandable
          <5> QED BY <2>4, <3>5, <5>1, Counts DEF Object_Valid_Instance
        <4>3. Outcome(T, o[T], wp, written) BY <1>3, <3>1, <3>5, <4>2, OutputWrite
        <4>4. FirstOK(T, w.after[T]) BY <4>1, <4>3 DEF Outcome
        <4>5. CASE wp.instance = 0 /\ wp.property = "present_value"
          <5>1. CommandOutcome(T, o[T], wp, written) BY <4>3, <4>5 DEF Outcome
          <5>2. CommandOutcome(T, o[T], wp, [reply |-> w.reply, after |-> w.after[T]])
            BY <5>1, <3>3, <4>1 DEF CommandOutcome
          <5>3. IsCommand(wp, T) /\ w.reply[1] # "abort"
            BY <3>3, <3>5, <4>5, <5>1 DEF IsCommand, CommandOutcome, SimpleAck, Ack
          <5> QED BY <1>3, <4>1, <4>4, <5>2, <5>3
        <4>6. CASE ~(wp.instance = 0 /\ wp.property = "present_value")
          <5>1. w.after[T][0].level = o[T][0].level BY <4>1, <4>3, <4>6 DEF Outcome
          <5>2. ~IsCommand(wp, T) BY <4>6 DEF IsCommand
          <5> QED BY <4>1, <4>4, <5>1, <5>2
        <4> QED BY <4>5, <4>6
      <3> QED BY <3>4, <3>5
    <2> QED BY <2>2, <2>3, <2>4
  <1> QED BY <1>2, <1>3

-----------------------------------------------------------------------------
(* The fields that are written and read. *)
Writable == Commandable \cup {"bi", "msi", "lsp", "lc", "tl"}
Fields(T) ==
    CASE T \in Commandable -> {"level", "oos"}
      [] T = "bi" -> {"value", "oos", "changed", "polarity"}
      [] T = "msi" -> {"value", "oos"}
      [] T = "lsp" -> {"mode", "oos"}
      [] T = "lc" -> {"state", "enable", "request", "requestWritten", "start", "startWritten",
                      "duration", "window", "levels"}
      [] T = "tl" -> {"enable", "stopWhenFull", "start", "stop", "type", "interval",
                      "aligned", "offset", "trigger", "source"}

\* An object has what is written of its type.
Intact(T, r) ==
    /\ Fields(T) \subseteq DOMAIN r
    /\ T \in Commandable => Priorities \subseteq DOMAIN r.level
    /\ T = "lc" => 1 .. MAX_SHED_LEVELS \subseteq DOMAIN r.levels
Indices(T) == Object_Instances(Device_Start, T)
Shaped(T, x) ==
    /\ x = [n \in DOMAIN x |-> x[n]]
    /\ \A n \in Indices(T) : n \in DOMAIN x /\ Intact(T, x[n])

LEMMA FieldsOfEach ==
  /\ \A T \in Commandable : Fields(T) = {"level", "oos"}
  /\ Fields("bi") = {"value", "oos", "changed", "polarity"}
  /\ Fields("msi") = {"value", "oos"} /\ Fields("lsp") = {"mode", "oos"}
  /\ Fields("lc") = {"state", "enable", "request", "requestWritten", "start", "startWritten",
                     "duration", "window", "levels"}
  /\ Fields("tl") = {"enable", "stopWhenFull", "start", "stop", "type", "interval",
                     "aligned", "offset", "trigger", "source"}
  <1>1. ASSUME NEW T \in Commandable PROVE Fields(T) = {"level", "oos"}
    <2>1. T \notin {"bi", "msi", "lsp", "lc", "tl"} BY DEF Commandable
    <2> QED BY <2>1, Zenon DEF Fields
  <1>2. \A T \in {"bi", "msi", "lsp", "lc", "tl"} : T \notin Commandable BY DEF Commandable
  <1> QED BY <1>1, <1>2, Zenon DEF Fields

-----------------------------------------------------------------------------
(* Load controls: each is in one of its states, and what they command is *)
(* priority 4 of the analog outputs.                                     *)
LoadStates == {"inactive", "pending", "compliant", "non_compliant"}
LoadFields == {"state", "enable", "request", "requestWritten", "start", "startWritten",
               "duration", "window", "levels"}
LoadOK(load) ==
    /\ LoadFields \subseteq DOMAIN load /\ 1 .. MAX_SHED_LEVELS \subseteq DOMAIN load.levels
    /\ load.state \in LoadStates /\ load.enable \in BOOLEAN
LoadsOK(lc) ==
    /\ lc = [n \in DOMAIN lc |-> lc[n]]
    /\ \A n \in Load_Control_Instances : n \in DOMAIN lc /\ LoadOK(lc[n])

LEMMA LoadsShaped ==
  ASSUME NEW lc, LoadsOK(lc)
  PROVE  Shaped("lc", lc)
  <1>1. "lc" \notin Commandable /\ Fields("lc") = LoadFields
    BY FieldsOfEach DEF Commandable, LoadFields
  <1>2. Indices("lc") = Load_Control_Instances BY Zenon DEF Indices, Object_Instances
  <1> QED BY <1>1, <1>2 DEF LoadsOK, LoadOK, Shaped, Intact

LEMMA LoadReplaced ==
  ASSUME NEW lc, LoadsOK(lc), NEW n, NEW load,
         n \in Load_Control_Instances => LoadOK(load)
  PROVE  LoadsOK([lc EXCEPT ![n] = load])
  BY DEF LoadsOK

LEMMA LoadWritten ==
  ASSUME NEW lc, LoadsOK(lc), NEW wp, NEW tag, NEW load,
         wp.instance \in Load_Control_Instances /\ wp.value[1] = tag => LoadOK(load)
  PROVE  LoadsOK(Written(lc, wp, tag, load).after)
  <1>1. CASE wp.value[1] = tag
    <2>1. Written(lc, wp, tag, load).after = [lc EXCEPT ![wp.instance] = load]
      BY <1>1 DEF Written, WPValidateArgType, Done
    <2> QED BY <1>1, <2>1, LoadReplaced
  <1>2. CASE wp.value[1] # tag
    BY <1>2 DEF Written, WPValidateArgType, Refused
  <1> QED BY <1>1, <1>2

LEMMA LoadWrite ==
  ASSUME NEW lc, LoadsOK(lc), NEW wp, WithinBounds(wp.value)
  PROVE  LoadsOK(Load_Control_Write_Property(lc, wp).after)
  <1> DEFINE n == wp.instance
             load == lc[n]
             v == wp.value[2]
  <1>0. PICK w : w = Load_Control_Write_Property(lc, wp) OBVIOUS
  <1>a. n \in Load_Control_Instances => LoadOK(load) BY DEF LoadsOK
  <1> SUFFICES LoadsOK(w.after) BY <1>0
  <1>1. CASE wp.property = "requested_shed_level"
    <2>1. w = IF wp.value[1] \in {"percent", "level", "amount"}
              THEN Done([lc EXCEPT ![n].request = wp.value, ![n].requestWritten = TRUE])
              ELSE Refused(lc, "invalid_data_type")
      BY <1>0, <1>1, Zenon DEF Load_Control_Write_Property
    <2>2. w.after \in {lc, [lc EXCEPT ![n].request = wp.value, ![n].requestWritten = TRUE]}
      BY <2>1 DEF Done, Refused
    <2>3. LoadsOK([lc EXCEPT ![n].request = wp.value, ![n].requestWritten = TRUE])
      <3>1. n \in Load_Control_Instances =>
                LoadOK([load EXCEPT !.request = wp.value, !.requestWritten = TRUE])
        BY <1>a DEF LoadOK
      <3>2. LoadsOK([lc EXCEPT ![n] = [load EXCEPT !.request = wp.value, !.requestWritten = TRUE]])
        BY <3>1, LoadReplaced
      <3>3. [lc EXCEPT ![n].request = wp.value, ![n].requestWritten = TRUE]
                = [lc EXCEPT ![n] = [load EXCEPT !.request = wp.value, !.requestWritten = TRUE]]
        OBVIOUS
      <3> QED BY <3>2, <3>3
    <2> QED BY <2>2, <2>3
  <1>2. CASE wp.property = "start_time"
    <2>1. w = Written(lc, wp, "datetime", [load EXCEPT !.start = v, !.startWritten = TRUE])
      BY <1>0, <1>2, Zenon DEF Load_Control_Write_Property
    <2>2. n \in Load_Control_Instances => LoadOK([load EXCEPT !.start = v, !.startWritten = TRUE])
      BY <1>a DEF LoadOK
    <2> QED BY <2>1, <2>2, LoadWritten
  <1>3. CASE wp.property = "shed_duration"
    <2>1. w = Written(lc, wp, "unsigned", [load EXCEPT !.duration = v, !.requestWritten = TRUE])
      BY <1>0, <1>3, Zenon DEF Load_Control_Write_Property
    <2>2. n \in Load_Control_Instances => LoadOK([load EXCEPT !.duration = v, !.requestWritten = TRUE])
      BY <1>a DEF LoadOK
    <2> QED BY <2>1, <2>2, LoadWritten
  <1>4. CASE wp.property = "duty_window"
    <2>1. w = Written(lc, wp, "unsigned", [load EXCEPT !.window = v, !.requestWritten = TRUE])
      BY <1>0, <1>4, Zenon DEF Load_Control_Write_Property
    <2>2. n \in Load_Control_Instances => LoadOK([load EXCEPT !.window = v, !.requestWritten = TRUE])
      BY <1>a DEF LoadOK
    <2> QED BY <2>1, <2>2, LoadWritten
  <1>5. CASE wp.property = "shed_levels"
    <2>1. w = ShedLevelWritten(lc, wp)
      BY <1>0, <1>5, Zenon DEF Load_Control_Write_Property
    <2>2. w.after \in {lc, [lc EXCEPT ![n].levels[wp.index] = v]}
      BY <2>1 DEF ShedLevelWritten, Done, Refused
    <2>3. LoadsOK([lc EXCEPT ![n].levels[wp.index] = v]) BY DEF LoadsOK, LoadOK
    <2> QED BY <2>2, <2>3
  <1>6. CASE wp.property = "enable"
    <2>1. w = Written(lc, wp, "boolean", [load EXCEPT !.enable = v])
      BY <1>0, <1>6, Zenon DEF Load_Control_Write_Property
    <2>2. wp.value[1] = "boolean" => v \in BOOLEAN BY DEF WithinBounds
    <2>3. n \in Load_Control_Instances /\ v \in BOOLEAN => LoadOK([load EXCEPT !.enable = v])
      BY <1>a DEF LoadOK
    <2> QED BY <2>1, <2>2, <2>3, LoadWritten
  <1>7. CASE wp.property \notin {"requested_shed_level", "start_time", "shed_duration",
                                 "duty_window", "shed_levels", "enable"}
    <2>1. w = Refused(lc, "write_access_denied")
      BY <1>0, <1>7, Zenon DEF Load_Control_Write_Property
    <2> QED BY <2>1 DEF Refused
  <1> QED BY <1>1, <1>2, <1>3, <1>4, <1>5, <1>6, <1>7

LEMMA ServiceKeepsLoads ==
  ASSUME NEW o, "lc" \in DOMAIN o, LoadsOK(o.lc), NEW wp, WithinBounds(wp.value), NEW time,
         NEW segmented, NEW w, w = handler_write_property(o, time, wp, segmented)
  PROVE  DOMAIN w.after = DOMAIN o /\ LoadsOK(w.after.lc)
  <1>1. CASE w.after = o BY <1>1
  <1>2. CASE w.after = [o EXCEPT ![wp.type] = Object_Write_Property(o, time, wp).after]
    <2>1. CASE wp.type # "lc" BY <1>2, <2>1
    <2>2. CASE wp.type = "lc"
      <3>1. w.after.lc = Load_Control_Write_Property(o.lc, wp).after
        BY <1>2, <2>2, WriteFunctions
      <3> QED BY <1>2, <3>1, LoadWrite
    <2> QED BY <2>1, <2>2
  <1>3. \/ w.after = o
        \/ w.after = [o EXCEPT ![wp.type] = Object_Write_Property(o, time, wp).after]
    BY DEF handler_write_property, Device_Write_Property, Refused
  <1> QED BY <1>1, <1>2, <1>3

Shifted(ao, after) ==
    /\ FirstOK("ao", after)
    /\ Shaped("ao", ao) => Shaped("ao", after)
    /\ \A q \in Priorities \ {4} : after[0].level[q] = ao[0].level[q]
StepOK(ao, s) == LoadOK(s.load) /\ Shifted(ao, s.ao)

LEMMA ShiftedOnce ==
  ASSUME NEW ao, FirstOK("ao", ao), NEW n, NEW v \in LevelsOf("ao") \cup {Null}
  PROVE  Shifted(ao, Commanded(ao, n, 4, v))
  <1>1. 4 \in Priorities BY DEF Priorities, BACNET_MAX_PRIORITY
  <1>2. FirstOK("ao", Commanded(ao, n, 4, v))
    <2>1. MayHold("ao", n, 4, v) BY DEF MayHold
    <2> QED BY <1>1, <2>1, CommandedLevel
  <1>3. ASSUME NEW q \in Priorities \ {4}
        PROVE  Commanded(ao, n, 4, v)[0].level[q] = ao[0].level[q]
    BY <1>1, <1>3 DEF Commanded, FirstOK, Levelled
  <1>4. ASSUME Shaped("ao", ao) PROVE Shaped("ao", Commanded(ao, n, 4, v))
    <2>1. PICK y : y = Commanded(ao, n, 4, v) OBVIOUS
    <2>2. y = [ao EXCEPT ![n] = [ao[n] EXCEPT !.level = [ao[n].level EXCEPT ![4] = v]]]
      BY <2>1 DEF Commanded
    <2>3. ASSUME NEW m \in Indices("ao") PROVE m \in DOMAIN y /\ Intact("ao", y[m])
      <3>1. m \in DOMAIN ao /\ Intact("ao", ao[m]) BY <1>4 DEF Shaped
      <3>2. m \in DOMAIN y /\ DOMAIN y[m] = DOMAIN ao[m]
            /\ ("level" \in DOMAIN ao[m] => DOMAIN y[m].level = DOMAIN ao[m].level)
        BY <2>2, <3>1
      <3> QED BY <3>1, <3>2, FieldsOfEach DEF Intact, Commandable
    <2>4. y = [m \in DOMAIN y |-> y[m]] BY <2>2
    <2> QED BY <2>1, <2>3, <2>4 DEF Shaped
  <1> QED BY <1>2, <1>3, <1>4 DEF Shifted

LEMMA ShiftedByLoads ==
  ASSUME NEW ao, FirstOK("ao", ao), NEW n, NEW value
  PROVE  /\ Shifted(ao, ao)
         /\ Shifted(ao, Analog_Output_Present_Value_Set(ao, n, value, 4).after)
         /\ Shifted(ao, Analog_Output_Present_Value_Relinquish(ao, n, 4).after)
  <1>1. Shifted(ao, ao) BY DEF Shifted
  <1>2. Shifted(ao, Analog_Output_Present_Value_Relinquish(ao, n, 4).after)
    <2>1. Shifted(ao, Commanded(ao, n, 4, Null)) BY ShiftedOnce
    <2> QED BY <1>1, <2>1 DEF Analog_Output_Present_Value_Relinquish, Done, Refused
  <1>3. Shifted(ao, Analog_Output_Present_Value_Set(ao, n, value, 4).after)
    <2>1. CASE value \in Percent
      <3>1. Whole(value) \in LevelsOf("ao") BY <2>1, KeptLevel
      <3>2. Shifted(ao, Commanded(ao, n, 4, Whole(value))) BY <3>1, ShiftedOnce
      <3> QED BY <1>1, <3>2 DEF Analog_Output_Present_Value_Set, Done, Refused
    <2>2. CASE value \notin Percent
      BY <1>1, <2>2 DEF Analog_Output_Present_Value_Set, Refused
    <2> QED BY <2>1, <2>2
  <1> QED BY <1>1, <1>2, <1>3

LEMMA ShedSteps ==
  ASSUME NEW load, LoadOK(load), NEW ao, FirstOK("ao", ao), NEW n,
         NEW state \in LoadStates
  PROVE  /\ StepOK(ao, Step(load, ao)) /\ StepOK(ao, Step(Goes(load, state), ao))
         /\ StepOK(ao, Step(CannotMeetShed(load), ao))
         /\ StepOK(ao, Step(ReconfigurePending(load), ao))
         /\ StepOK(ao, Step(Goes(ReconfigurePending(load), state), ao))
         /\ StepOK(ao, Sheds(load, ao, n))
         /\ StepOK(ao, Step(Goes(load, state), Analog_Output_Present_Value_Relinquish(ao, n, 4).after))
  <1>1. /\ LoadOK(Goes(load, state)) /\ LoadOK(CannotMeetShed(load))
        /\ LoadOK(ReconfigurePending(load)) /\ LoadOK(Goes(ReconfigurePending(load), state))
    BY DEF LoadOK, LoadStates, Goes, CannotMeetShed, ReconfigurePending
  <1>2. StepOK(ao, Sheds(load, ao, n))
    <2>1. LoadOK([load EXCEPT !.state = "compliant", !.expected = load.request, !.actual = load.request])
      BY DEF LoadOK, LoadStates
    <2> QED BY <2>1, ShiftedByLoads DEF Sheds, Step, StepOK
  <1> QED BY <1>1, <1>2, ShiftedByLoads DEF Step, StepOK

LEMMA PendingOK ==
  ASSUME NEW load, LoadOK(load), NEW ao, FirstOK("ao", ao), NEW n, NEW time
  PROVE  StepOK(ao, ShedRequestPending(load, ao, n, time))
  <1> DEFINE asked   == [load EXCEPT !.requestWritten = FALSE]
             started == [asked EXCEPT !.startWritten = FALSE]
  <1>1. LoadOK(asked) /\ LoadOK(started) BY DEF LoadOK
  <1>2. "inactive" \in LoadStates BY DEF LoadStates
  <1>3. ShedRequestPending(load, ao, n, time) \in
            {Step(Goes(asked, "inactive"), ao), Step(Goes(started, "inactive"), ao),
             Step(ReconfigurePending(started), ao), Step(started, ao),
             Sheds(started, ao, n), Step(CannotMeetShed(started), ao)}
    BY DEF ShedRequestPending
  <1> HIDE DEF asked, started
  <1> QED BY <1>1, <1>2, <1>3, ShedSteps

LEMMA SteppedOK ==
  ASSUME NEW load, LoadOK(load), NEW ao, FirstOK("ao", ao), NEW n, NEW time
  PROVE  StepOK(ao, Stepped(load, ao, n, time))
  <1>1. {"inactive", "pending"} \subseteq LoadStates BY DEF LoadStates
  <1>2. CASE ~load.enable
    <2>1. Stepped(load, ao, n, time) = Step(Goes(load, "inactive"), ao)
      BY <1>2, Zenon DEF Stepped
    <2> QED BY <1>1, <2>1, ShedSteps
  <1>3. CASE load.enable /\ load.state = "pending"
    <2>1. Stepped(load, ao, n, time) = ShedRequestPending(load, ao, n, time)
      BY <1>3, Zenon DEF Stepped
    <2> QED BY <2>1, PendingOK
  <1>4. CASE load.enable /\ load.state = "non_compliant"
    <2>1. Stepped(load, ao, n, time) = ShedNonCompliant(load, ao, n, time)
      BY <1>4, Zenon DEF Stepped
    <2>2. ShedNonCompliant(load, ao, n, time) \in
            {Step(Goes(load, "inactive"), ao), Step(Goes(load, "pending"), ao),
             Sheds(load, ao, n), Step(load, ao)}
      BY DEF ShedNonCompliant
    <2> QED BY <1>1, <2>1, <2>2, ShedSteps
  <1>5. CASE load.enable /\ load.state = "compliant"
    <2>1. Stepped(load, ao, n, time) = ShedCompliant(load, ao, n, time)
      BY <1>5, Zenon DEF Stepped
    <2>2. ShedCompliant(load, ao, n, time) \in
            {Step(Goes(load, "inactive"), Analog_Output_Present_Value_Relinquish(ao, n, 4).after),
             Step(Goes(load, "pending"), ao), Step(CannotMeetShed(load), ao), Step(load, ao)}
      BY DEF ShedCompliant
    <2> QED BY <1>1, <2>1, <2>2, ShedSteps
  <1>6. CASE load.enable /\ load.state = "inactive"
    <2>1. Stepped(load, ao, n, time) = ShedInactive(load, ao) BY <1>6, Zenon DEF Stepped
    <2>2. ShedInactive(load, ao) \in
            {Step(Goes(ReconfigurePending(load), "pending"), ao), Step(load, ao)}
      BY DEF ShedInactive
    <2> QED BY <1>1, <2>1, <2>2, ShedSteps
  <1> QED BY <1>2, <1>3, <1>4, <1>5, <1>6 DEF LoadOK, LoadStates

\* Of the loads and outputs that one load leaves, and that all of them leave.
LoadsStepOK(ao, s) == LoadsOK(s.lc) /\ Shifted(ao, s.ao)

LEMMA MachineOK ==
  ASSUME NEW lc, LoadsOK(lc), NEW ao, FirstOK("ao", ao), NEW n \in Load_Control_Instances, NEW time
  PROVE  LoadsStepOK(ao, Load_Control_State_Machine(lc, ao, n, time))
  <1>1. PICK s : s = Stepped(lc[n], ao, n, time) OBVIOUS
  <1>2. LoadOK(lc[n]) BY DEF LoadsOK
  <1>3. LoadOK(s.load) /\ Shifted(ao, s.ao) BY <1>1, <1>2, SteppedOK DEF StepOK
  <1>4. LoadsOK([lc EXCEPT ![n] = s.load]) BY <1>3, LoadReplaced
  <1>5. PICK moved : moved = [lc EXCEPT ![n] = s.load] OBVIOUS
  <1>6. LoadsOK([moved EXCEPT ![0].start = Wild])
    <2>1. 0 \in Load_Control_Instances => LoadOK([moved[0] EXCEPT !.start = Wild])
      BY <1>4, <1>5 DEF LoadsOK, LoadOK
    <2>2. LoadsOK([moved EXCEPT ![0] = [moved[0] EXCEPT !.start = Wild]])
      BY <1>4, <1>5, <2>1, LoadReplaced
    <2>3. [moved EXCEPT ![0].start = Wild] = [moved EXCEPT ![0] = [moved[0] EXCEPT !.start = Wild]]
      OBVIOUS
    <2> QED BY <2>2, <2>3
  <1>7. PICK r : r = Load_Control_State_Machine(lc, ao, n, time) OBVIOUS
  <1>8. \/ r = [lc |-> [moved EXCEPT ![0].start = Wild], ao |-> s.ao]
        \/ r = [lc |-> moved, ao |-> s.ao]
    BY <1>1, <1>5, <1>7, Zenon DEF Load_Control_State_Machine
  <1>9. r.ao = s.ao /\ r.lc \in {moved, [moved EXCEPT ![0].start = Wild]} BY <1>8
  <1>10. LoadsOK(r.lc) BY <1>4, <1>5, <1>6, <1>9
  <1> QED BY <1>3, <1>7, <1>9, <1>10 DEF LoadsStepOK

LEMMA ShiftedTwice ==
  ASSUME NEW ao, NEW middle, Shifted(ao, middle), NEW after, Shifted(middle, after)
  PROVE  Shifted(ao, after)
  BY DEF Shifted

\* The loads in turn, as a function of how many have been.
Turns(g, lc, ao, time, last) ==
    g = [n \in -1 .. last |->
            IF n = -1 THEN [lc |-> lc, ao |-> ao]
            ELSE Load_Control_State_Machine(g[n - 1].lc, g[n - 1].ao, n, time)]

LEMMA TurnsExist ==
  ASSUME NEW lc, NEW ao, NEW time, NEW last \in Nat
  PROVE  \E g : Turns(g, lc, ao, time, last)
  <1> DEFINE Bad == {m \in Nat : ~ \E g : Turns(g, lc, ao, time, m - 1)}
             Next(s, n) == Load_Control_State_Machine(s.lc, s.ao, n, time)
  <1>1. \E g : Turns(g, lc, ao, time, -1)
    <2> DEFINE g == [n \in -1 .. -1 |-> [lc |-> lc, ao |-> ao]]
    <2>1. Turns(g, lc, ao, time, -1) BY DEF Turns
    <2> QED BY <2>1
  <1>2. ASSUME NEW m \in Nat, NEW g, Turns(g, lc, ao, time, m - 1)
        PROVE  \E h : Turns(h, lc, ao, time, m)
    <2> DEFINE h == [n \in -1 .. m |->
                        IF n = -1 THEN [lc |-> lc, ao |-> ao] ELSE Next(g[n - 1], n)]
    <2>1. ASSUME NEW n \in -1 .. m - 1 PROVE h[n] = g[n]
      <3>1. g[n] = IF n = -1 THEN [lc |-> lc, ao |-> ao] ELSE Next(g[n - 1], n)
        BY <1>2 DEF Turns
      <3> QED BY <3>1
    <2>2. h = [n \in -1 .. m |->
                  IF n = -1 THEN [lc |-> lc, ao |-> ao] ELSE Next(h[n - 1], n)]
      <3>1. ASSUME NEW n \in -1 .. m, n # -1 PROVE g[n - 1] = h[n - 1]
        <4>1. n - 1 \in -1 .. m - 1 BY <3>1
        <4> QED BY <2>1, <4>1
      <3> QED BY <3>1
    <2>3. Turns(h, lc, ao, time, m) BY <2>2 DEF Turns
    <2> QED BY <2>3
  <1>3. Bad = {}
    <2> SUFFICES ASSUME Bad # {} PROVE FALSE OBVIOUS
    <2>1. PICK m \in Bad : \A k \in Bad : m <= k BY LeastExists
    <2>2. m # 0 BY <1>1
    <2>3. m - 1 \in Nat /\ ~(m - 1 \in Bad) BY <2>1, <2>2
    <2>4. PICK g : Turns(g, lc, ao, time, m - 1 - 1) BY <2>3
    <2>5. \E h : Turns(h, lc, ao, time, m - 1) BY <2>3, <2>4, <1>2
    <2> QED BY <2>5
  <1>4. last + 1 \in Nat /\ (last + 1) - 1 = last OBVIOUS
  <1> QED BY <1>3, <1>4

LEMMA HandlerOK ==
  ASSUME NEW lc, LoadsOK(lc), NEW ao, FirstOK("ao", ao), NEW time
  PROVE  LoadsStepOK(ao, Load_Control_State_Machine_Handler(lc, ao, time))
  <1> DEFINE last == MAX_LOAD_CONTROLS - 1
             f    == CHOOSE g : Turns(g, lc, ao, time, last)
  <1>1. last \in Nat BY LoadControlAssumption, OutputsAssumption
  <1>2. Turns(f, lc, ao, time, last) BY <1>1, TurnsExist
  <1>3. Load_Control_State_Machine_Handler(lc, ao, time) = f[last]
    BY DEF Load_Control_State_Machine_Handler, Turns
  <1> HIDE DEF f
  <1> DEFINE Bad == {m \in Nat : m - 1 <= last /\ ~LoadsStepOK(ao, f[m - 1])}
  <1>4. Bad = {}
    <2> SUFFICES ASSUME Bad # {} PROVE FALSE OBVIOUS
    <2>1. PICK m \in Bad : \A k \in Bad : m <= k BY LeastExists
    <2>2. m # 0
      <3>1. f[-1] = [lc |-> lc, ao |-> ao] BY <1>1, <1>2 DEF Turns
      <3>2. LoadsStepOK(ao, f[-1]) BY <3>1, ShiftedByLoads DEF LoadsStepOK
      <3> QED BY <3>2
    <2>3. PICK n \in Nat : n = m - 1 BY <2>2
    <2>4. n <= last /\ n - 1 <= last /\ ~LoadsStepOK(ao, f[n]) BY <2>3, <1>1
    <2>5. LoadsStepOK(ao, f[n - 1])
      <3>1. ~(n \in Bad) BY <2>1, <2>3
      <3> QED BY <2>4, <3>1
    <2>6. f[n] = Load_Control_State_Machine(f[n - 1].lc, f[n - 1].ao, n, time)
      BY <1>1, <1>2, <2>4 DEF Turns
    <2>7. n \in Load_Control_Instances BY <1>1, <2>4 DEF Load_Control_Instances
    <2>8. LoadsStepOK(f[n - 1].ao, f[n])
      <3>1. LoadsOK(f[n - 1].lc) /\ FirstOK("ao", f[n - 1].ao)
        BY <2>5 DEF LoadsStepOK, Shifted
      <3>2. LoadsStepOK(f[n - 1].ao,
                        Load_Control_State_Machine(f[n - 1].lc, f[n - 1].ao, n, time))
        BY <2>7, <3>1, MachineOK
      <3> QED BY <2>6, <3>2
    <2> QED BY <2>4, <2>5, <2>8, ShiftedTwice DEF LoadsStepOK
  <1>5. last + 1 \in Nat /\ (last + 1) - 1 = last BY <1>1
  <1> QED BY <1>3, <1>4, <1>5

-----------------------------------------------------------------------------
(* The promise, step by step. *)
OutputsInv ==
    /\ {"ao", "lc"} \subseteq DOMAIN objects /\ LoadsOK(objects.lc)
    /\ Device_Objects_Find_Functions(served) /\ Device_Objects_Find_Functions(Watched)
    /\ Watched \in Commandable =>
            Watched \in DOMAIN objects /\ FirstOK(Watched, objects[Watched])

\* The slots of the promise, and the last request, as the objects have them.
Seen(T, level) == [p \in Priorities |-> SlotOf(T, level[p])]
AskOf(T, wp, reply) ==
    IF IsCommand(wp, T) /\ reply[1] # "abort"
    THEN << wp.priority,
            IF wp.value[1] = "null" THEN -1
            ELSE IF Acceptable(T, wp.value) THEN Kept(T, wp.value[2]) ELSE -2,
            reply[1] = "ack" >>
    ELSE << 0, -1, FALSE >>

LEMMA ReadFirst ==
  ASSUME NEW T \in Commandable, Device_Objects_Find_Functions(T), NEW o, NEW time, NEW p \in Followed
  PROVE  (CHOOSE reply \in handler_read_property(o, time, T, 0, p, All, FALSE, TRUE) : TRUE)[2]
            = Answered(T, o[T][0], p)
  <1>1. handler_read_property(o, time, T, 0, p, All, FALSE, TRUE) = {Ack(Answered(T, o[T][0], p))}
    BY FirstObjectRead
  <1>2. PICK r : r = Ack(Answered(T, o[T][0], p)) OBVIOUS
  <1>3. (CHOOSE reply \in {r} : TRUE) = r OBVIOUS
  <1>4. r[2] = Answered(T, o[T][0], p) BY <1>2 DEF Ack
  <1> QED BY <1>1, <1>2, <1>3, <1>4

LEMMA View ==
  OutputsInv /\ Watched \in Commandable =>
    /\ SlotsRead = Seen(Watched, objects[Watched][0].level)
    /\ ValueRead = Promise!Winner(SlotsRead, DefaultRead) /\ DefaultRead = 0
    /\ LastAsked = AskOf(Watched, exchange.wp, exchange.reply)
  <1> SUFFICES ASSUME OutputsInv, Watched \in Commandable
               PROVE  /\ SlotsRead = Seen(Watched, objects[Watched][0].level)
                      /\ ValueRead = Promise!Winner(SlotsRead, DefaultRead) /\ DefaultRead = 0
                      /\ LastAsked = AskOf(Watched, exchange.wp, exchange.reply)
    OBVIOUS
  <1>1. PICK T : T = Watched OBVIOUS
  <1>2. PICK x : x = objects[T][0] OBVIOUS
  <1>3. /\ T \in Commandable /\ Device_Objects_Find_Functions(T)
        /\ x.level \in Levelled(T)
    BY <1>1, <1>2 DEF OutputsInv, FirstOK
  <1>4. ASSUME NEW p \in Followed PROVE ReadOf(T, 0, p, All)[2] = Answered(T, x, p)
    BY <1>2, <1>3, ReadFirst DEF ReadOf, Reads
  <1>5. /\ ReadOf(T, 0, "priority_array", All)[2] = Elements(T, x)
        /\ ReadOf(T, 0, "present_value", All)[2] = << TagOf(T), Shown(T, x) >>
        /\ ReadOf(T, 0, "relinquish_default", All)[2][2] = 0
    BY <1>4, Answer DEF Followed
  <1>6. SlotsRead = Slots(Elements(T, x)) BY <1>1, <1>3, <1>5 DEF SlotsRead
  <1>7. SlotsRead = Seen(T, x.level) BY <1>3, <1>6, SlotsOfLevels DEF Seen
  <1>8. ValueRead = Shown(T, x) /\ DefaultRead = 0
    BY <1>1, <1>3, <1>5 DEF ValueRead, DefaultRead
  <1>9. ValueRead = Promise!Winner(SlotsRead, DefaultRead) BY <1>3, <1>6, <1>8, WinnerShown
  <1>10. LastAsked = AskOf(T, exchange.wp, exchange.reply)
    BY <1>1, <1>3, <1>5 DEF LastAsked, AskOf, Asked, Takes, Acceptable
  <1> QED BY <1>1, <1>2, <1>7, <1>8, <1>9, <1>10

LEMMA ViewNext ==
  OutputsInv' /\ (Watched \in Commandable)' =>
    /\ SlotsRead' = Seen(Watched', objects'[Watched'][0].level)
    /\ ValueRead' = Promise!Winner(SlotsRead', DefaultRead') /\ DefaultRead' = 0
    /\ LastAsked' = AskOf(Watched', exchange'.wp, exchange'.reply)
  <1>1. (OutputsInv /\ Watched \in Commandable =>
            /\ SlotsRead = Seen(Watched, objects[Watched][0].level)
            /\ ValueRead = Promise!Winner(SlotsRead, DefaultRead) /\ DefaultRead = 0
            /\ LastAsked = AskOf(Watched, exchange.wp, exchange.reply))'
    BY View, PTL
  <1> QED BY <1>1

LEMMA SeenChanged ==
  ASSUME NEW T \in Commandable, NEW level \in Levelled(T), NEW p \in Priorities,
         NEW v \in LevelsOf(T) \cup {Null}
  PROVE  Seen(T, [level EXCEPT ![p] = v]) = [Seen(T, level) EXCEPT ![p] = SlotOf(T, v)]
  <1>1. ASSUME NEW q \in Priorities
        PROVE  SlotOf(T, [level EXCEPT ![p] = v][q])
                 = IF q = p THEN SlotOf(T, v) ELSE SlotOf(T, level[q])
    BY DEF Levelled
  <1> QED BY <1>1 DEF Seen

\* A command that was answered, as the promise has it.
Answering(before, slots, asked) ==
    \/ /\ asked[1] # 6 /\ asked[2] # -2 /\ asked = << asked[1], asked[2], TRUE >>
       /\ slots = [before EXCEPT ![asked[1]] = asked[2]]
    \/ /\ asked[1] = 6 \/ asked[2] = -2
       /\ asked = << asked[1], asked[2], FALSE >> /\ slots = before
    \/ asked = << 6, -1, TRUE >> /\ slots = before

LEMMA CommandAnswered ==
  ASSUME NEW T \in Commandable, NEW x, FirstOK(T, x), NEW after, NEW wp, NEW reply,
         wp.priority \in Priorities, IsCommand(wp, T), reply[1] # "abort",
         CommandOutcome(T, x, wp, [reply |-> reply, after |-> after]),
         NEW before, before = Seen(T, x[0].level), NEW slots, slots = Seen(T, after[0].level),
         NEW asked, asked = AskOf(T, wp, reply)
  PROVE  Answering(before, slots, asked)
  <1> DEFINE p == wp.priority
             w == [reply |-> reply, after |-> after]
             v == IF wp.value[1] = "null" THEN -1
                  ELSE IF Acceptable(T, wp.value) THEN Kept(T, wp.value[2]) ELSE -2
  <1>1. asked = << p, v, reply[1] = "ack" >> BY DEF AskOf
  <1>2. asked[1] = p /\ asked[2] = v BY <1>1
  <1>3. x[0].level \in Levelled(T) BY DEF FirstOK
  <1>4. CASE /\ reply = SimpleAck /\ p # 6 /\ wp.value[1] = "null"
             /\ after[0].level = [x[0].level EXCEPT ![p] = Null]
    <2>1. SlotOf(T, Null) = -1 BY DEF SlotOf
    <2>2. slots = [before EXCEPT ![p] = -1] BY <1>3, <1>4, <2>1, SeenChanged
    <2>3. v = -1 /\ asked = << p, v, TRUE >> BY <1>1, <1>4 DEF SimpleAck, Ack
    <2>4. asked[1] = p /\ asked[2] = -1 /\ asked = << p, -1, TRUE >> BY <1>2, <2>3
    <2>5. asked[1] # 6 /\ asked[2] # -2 BY <1>4, <2>4
    <2>6. asked = << asked[1], asked[2], TRUE >> BY <2>4
    <2>7. slots = [before EXCEPT ![asked[1]] = asked[2]] BY <2>2, <2>4
    <2> QED BY <2>5, <2>6, <2>7 DEF Answering
  <1>5. CASE /\ reply = SimpleAck /\ p # 6 /\ Acceptable(T, wp.value)
             /\ \E u \in LevelsOf(T) :
                    /\ Kept(T, wp.value[2]) = SlotOf(T, u)
                    /\ after[0].level = [x[0].level EXCEPT ![p] = u]
    <2>1. PICK u \in LevelsOf(T) : /\ Kept(T, wp.value[2]) = SlotOf(T, u)
                                   /\ after[0].level = [x[0].level EXCEPT ![p] = u]
      BY <1>5
    <2>2. slots = [before EXCEPT ![p] = SlotOf(T, u)] BY <1>3, <2>1, SeenChanged
    <2>3. wp.value[1] # "null" BY <1>5, LevelTypes DEF Acceptable
    <2>4. v = SlotOf(T, u) /\ asked = << p, v, TRUE >>
      BY <1>1, <1>5, <2>1, <2>3 DEF SimpleAck, Ack
    <2>5. SlotOf(T, u) # -2 BY <2>1, LevelTypes DEF SlotOf
    <2> QED BY <1>2, <1>5, <2>2, <2>4, <2>5 DEF Answering
  <1>6. CASE /\ reply = SimpleAck /\ p = 6 /\ wp.value[1] = "null"
             /\ after[0].level = x[0].level
    BY <1>1, <1>6 DEF SimpleAck, Ack, Answering
  <1>7. CASE /\ reply[1] = "error" /\ after[0].level = x[0].level
             /\ p = 6 \/ (wp.value[1] # "null" /\ ~Acceptable(T, wp.value))
    <2>1. v = -2 \/ p = 6 BY <1>7
    <2>2. asked = << p, v, FALSE >> BY <1>1, <1>7
    <2> QED BY <1>2, <1>7, <2>1, <2>2 DEF Answering
  <1> QED BY <1>4, <1>5, <1>6, <1>7 DEF CommandOutcome

NothingAsked == << 0, -1, FALSE >>

LEMMA NotAsked ==
  ASSUME NEW T
  PROVE  /\ T \in Commandable => AskOf(T, NoExchange.wp, NoExchange.reply) = NothingAsked
         /\ \A wp, reply : ~(IsCommand(wp, T) /\ reply[1] # "abort") =>
                AskOf(T, wp, reply) = NothingAsked
  BY DEF NoExchange, NoRequest, AskOf, IsCommand, NothingAsked, Commandable

\* A step that leaves the outputs and the last request as they were, that is
\* about something else, or that is a command.
LEMMA PromiseKept ==
  ASSUME OutputsInv, OutputsInv', served' = served,
         NEW T, T = Watched,
         T \in Commandable =>
            \/ exchange' = exchange /\ objects'[T][0].level = objects[T][0].level
            \/ /\ AskOf(T, exchange'.wp, exchange'.reply) = NothingAsked
               /\ \A q \in Priorities \ {4} : objects'[T][0].level[q] = objects[T][0].level[q]
            \/ Answering(Seen(T, objects[T][0].level), Seen(T, objects'[T][0].level),
                         AskOf(T, exchange'.wp, exchange'.reply))
  PROVE  [Promise!CommandNext]_(Promise!cVars)
  <1>1. Watched' = T BY DEF Watched
  <1>2. CASE T \notin Commandable
    <2>1. SlotsRead' = SlotsRead BY <1>1, <1>2 DEF SlotsRead
    <2>2. ValueRead' = ValueRead /\ DefaultRead' = DefaultRead
      BY <1>1, <1>2 DEF ValueRead, DefaultRead
    <2>3. LastAsked' = LastAsked BY <1>1, <1>2 DEF LastAsked
    <2> QED BY <2>1, <2>2, <2>3 DEF Promise!cVars
  <1>3. CASE T \in Commandable
    <2>1. /\ SlotsRead = Seen(T, objects[T][0].level)
          /\ ValueRead = Promise!Winner(SlotsRead, DefaultRead) /\ DefaultRead = 0
          /\ LastAsked = AskOf(T, exchange.wp, exchange.reply)
      BY <1>3, View
    <2>2. /\ SlotsRead' = Seen(T, objects'[T][0].level)
          /\ ValueRead' = Promise!Winner(SlotsRead', DefaultRead') /\ DefaultRead' = 0
          /\ LastAsked' = AskOf(T, exchange'.wp, exchange'.reply)
      BY <1>1, <1>3, ViewNext
    <2>3. DefaultRead' = DefaultRead /\ ValueRead' = Promise!Winner(SlotsRead', DefaultRead)
      BY <2>1, <2>2
    <2>4. CASE exchange' = exchange /\ objects'[T][0].level = objects[T][0].level
      <3>1. SlotsRead' = SlotsRead /\ LastAsked' = LastAsked BY <2>1, <2>2, <2>4
      <3>2. ValueRead' = ValueRead BY <2>1, <2>3, <3>1
      <3> QED BY <2>3, <3>1, <3>2 DEF Promise!cVars
    <2>5. CASE /\ AskOf(T, exchange'.wp, exchange'.reply) = NothingAsked
               /\ \A q \in Priorities \ {4} : objects'[T][0].level[q] = objects[T][0].level[q]
      <3>1. LastAsked' = << 0, -1, FALSE >> BY <2>2, <2>5 DEF NothingAsked
      <3>2. DOMAIN SlotsRead' = Promise!Slots
        BY <2>2 DEF Seen, Promise!Slots, Priorities, BACNET_MAX_PRIORITY
      <3>3. \A q \in Promise!Slots \ {4} : SlotsRead'[q] = SlotsRead[q]
        BY <2>1, <2>2, <2>5 DEF Seen, Promise!Slots, Priorities, BACNET_MAX_PRIORITY
      <3>4. Promise!DeviceCommands
        BY <3>1, <3>2, <3>3 DEF Promise!DeviceCommands, Promise!DeviceSlots
      <3> QED BY <2>3, <3>4 DEF Promise!CommandNext
    <2>6. CASE Answering(Seen(T, objects[T][0].level), Seen(T, objects'[T][0].level),
                         AskOf(T, exchange'.wp, exchange'.reply))
      <3>1. Answering(SlotsRead, SlotsRead', LastAsked') BY <2>1, <2>2, <2>6
      <3>2. CASE /\ LastAsked'[1] # 6 /\ LastAsked'[2] # -2
                 /\ LastAsked' = << LastAsked'[1], LastAsked'[2], TRUE >>
                 /\ SlotsRead' = [SlotsRead EXCEPT ![LastAsked'[1]] = LastAsked'[2]]
        <4>1. Promise!Taken(LastAsked'[1], LastAsked'[2])
          BY <3>2 DEF Promise!Taken, Promise!Reserved
        <4> QED BY <2>3, <4>1 DEF Promise!CommandNext
      <3>3. CASE /\ LastAsked'[1] = 6 \/ LastAsked'[2] = -2
                 /\ LastAsked' = << LastAsked'[1], LastAsked'[2], FALSE >>
                 /\ SlotsRead' = SlotsRead
        <4>1. Promise!Declined(LastAsked'[1], LastAsked'[2])
          BY <3>3 DEF Promise!Declined, Promise!Reserved
        <4> QED BY <2>3, <4>1 DEF Promise!CommandNext
      <3>4. CASE LastAsked' = << 6, -1, TRUE >> /\ SlotsRead' = SlotsRead
        <4>1. Promise!NothingToEmpty BY <3>4 DEF Promise!NothingToEmpty, Promise!Reserved
        <4> QED BY <2>3, <4>1 DEF Promise!CommandNext
      <3> QED BY <3>1, <3>2, <3>3, <3>4 DEF Answering
    <2> QED BY <1>3, <2>4, <2>5, <2>6
  <1> QED BY <1>2, <1>3

LEMMA InTable ==
  ASSUME \E k \in DOMAIN Object_Table : served = Object_Table[k]
  PROVE  Device_Objects_Find_Functions(served) /\ Device_Objects_Find_Functions(Watched)
  <1>1. CASE served # "lc" BY <1>1 DEF Watched, Device_Objects_Find_Functions
  <1>2. CASE served = "lc"
    <2>1. 3 \in DOMAIN Object_Table /\ Object_Table[3] = "ao" BY DEF Object_Table
    <2> QED BY <1>2, <2>1 DEF Watched, Device_Objects_Find_Functions
  <1> QED BY <1>1, <1>2

LEMMA UnsetOK ==
  ASSUME NEW T \in Commandable, NEW x, 0 \in DOMAIN x, "level" \in DOMAIN x[0],
         x[0].level = Relinquished
  PROVE  FirstOK(T, x)
  BY DEF FirstOK, Relinquished, Levelled, Priorities, BACNET_MAX_PRIORITY

LEMMA OutputsInit == DeviceServerInit => OutputsInv /\ Promise!CommandInit
  <1> SUFFICES ASSUME DeviceServerInit PROVE OutputsInv /\ Promise!CommandInit OBVIOUS
  <1>1. objects = Device_Init /\ exchange = NoExchange
        /\ \E k \in DOMAIN Object_Table : served = Object_Table[k]
    BY DEF DeviceServerInit
  <1>2. /\ {"ao", "lc"} \cup Commandable \subseteq DOMAIN objects
        /\ objects.lc = Load_Control_Init
    BY <1>1 DEF Device_Init, Commandable
  <1>3. LoadsOK(objects.lc)
    <2>1. ASSUME NEW n \in Load_Control_Instances
          PROVE  n \in DOMAIN Load_Control_Init /\ LoadOK(Load_Control_Init[n])
      BY DEF Load_Control_Init, LoadOK, LoadStates, LoadFields
    <2>2. Load_Control_Init = [n \in DOMAIN Load_Control_Init |-> Load_Control_Init[n]]
      BY DEF Load_Control_Init
    <2> QED BY <1>2, <2>1, <2>2 DEF LoadsOK
  <1>4. ASSUME NEW T \in Commandable
        PROVE  FirstOK(T, objects[T]) /\ objects[T][0].level = Relinquished
    <2>1. 0 \in Numbers(T) BY Counts
    <2>2. 0 \in DOMAIN objects[T] /\ "level" \in DOMAIN objects[T][0]
          /\ objects[T][0].level = Relinquished
      <3>1. CASE T = "ao" BY <1>1, <2>1, <3>1
        DEF Device_Init, Analog_Output_Init, Analog_Output_Instances, Numbers, Extent, Unset
      <3>2. CASE T = "av" BY <1>1, <2>1, <3>2
        DEF Device_Init, Analog_Value_Init, Analog_Value_Instances, Numbers, Extent, Unset
      <3>3. CASE T = "bo" BY <1>1, <2>1, <3>3
        DEF Device_Init, Binary_Output_Init, Binary_Output_Instances, Numbers, Extent, Unset
      <3>4. CASE T = "bv" BY <1>1, <2>1, <3>4
        DEF Device_Init, Binary_Value_Init, Binary_Value_Instances, Numbers, Extent, Unset
      <3>5. CASE T = "mso" BY <1>1, <2>1, <3>5
        DEF Device_Init, Multistate_Output_Init, Multistate_Output_Instances, Numbers, Extent, Unset
      <3>6. CASE T = "lo" BY <1>1, <2>1, <3>6
        DEF Device_Init, Lighting_Output_Init, Lighting_Output_Instances, Numbers, Extent
      <3> QED BY <3>1, <3>2, <3>3, <3>4, <3>5, <3>6 DEF Commandable
    <2> QED BY <2>2, UnsetOK
  <1>5. OutputsInv BY <1>1, <1>2, <1>3, <1>4, InTable DEF OutputsInv
  <1>6. CASE Watched \notin Commandable
    <2>1. SlotsRead = [p \in Promise!Slots |-> -1]
      BY <1>6 DEF SlotsRead, Promise!Slots, Priorities, BACNET_MAX_PRIORITY
    <2>2. ValueRead = DefaultRead /\ LastAsked = << 0, -1, FALSE >>
      BY <1>6 DEF ValueRead, DefaultRead, LastAsked
    <2> QED BY <1>5, <2>1, <2>2 DEF Promise!CommandInit
  <1>7. CASE Watched \in Commandable
    <2>1. /\ SlotsRead = Seen(Watched, objects[Watched][0].level)
          /\ ValueRead = Promise!Winner(SlotsRead, DefaultRead) /\ DefaultRead = 0
          /\ LastAsked = AskOf(Watched, exchange.wp, exchange.reply)
      BY <1>5, <1>7, View
    <2>2. SlotsRead = [p \in Promise!Slots |-> -1]
      BY <1>4, <1>7, <2>1 DEF Seen, SlotOf, Relinquished, Promise!Slots, Priorities, BACNET_MAX_PRIORITY
    <2>3. ValueRead = DefaultRead BY <2>1, <2>2 DEF Promise!Winner
    <2>4. LastAsked = << 0, -1, FALSE >> BY <1>1, <1>7, <2>1, NotAsked DEF NothingAsked
    <2> QED BY <1>5, <2>2, <2>3, <2>4 DEF Promise!CommandInit
  <1> QED BY <1>6, <1>7

LEMMA WriteKeeps ==
  ASSUME OutputsInv, NEW wp, WithinBounds(wp.value), NEW segmented, Answers(wp, segmented)
  PROVE  OutputsInv' /\ [Promise!CommandNext]_(Promise!cVars)
  <1>1. PICK w : w = handler_write_property(objects, now, wp, segmented) OBVIOUS
  <1>2. /\ objects' = w.after /\ exchange' = [wp |-> wp, reply |-> w.reply]
        /\ served' = served
    BY <1>1 DEF Answers
  <1>3. PICK T : T = Watched OBVIOUS
  <1>4. Watched' = T BY <1>2, <1>3 DEF Watched
  <1>5. DOMAIN w.after = DOMAIN objects /\ LoadsOK(w.after.lc)
    BY <1>1, ServiceKeepsLoads DEF OutputsInv
  <1>6. CASE T \notin Commandable
    <2>1. OutputsInv' BY <1>2, <1>3, <1>4, <1>5, <1>6 DEF OutputsInv, Device_Objects_Find_Functions
    <2> QED BY <1>2, <1>3, <1>6, <2>1, PromiseKept
  <1>7. CASE T \in Commandable
    <2>1. PICK x : x = objects[T] OBVIOUS
    <2>2. PICK after : after = w.after[T] OBVIOUS
    <2>3. Device_Objects_Find_Functions(T) /\ T \in DOMAIN objects /\ FirstOK(T, x)
      BY <1>3, <1>7, <2>1 DEF OutputsInv
    <2>4. /\ FirstOK(T, after)
          /\ IF IsCommand(wp, T) /\ w.reply[1] # "abort"
             THEN /\ wp.priority \in Priorities
                  /\ CommandOutcome(T, x, wp, [reply |-> w.reply, after |-> after])
             ELSE after[0].level = x[0].level
      BY <1>1, <1>7, <2>1, <2>2, <2>3, ServiceOutcome
    <2>5. OutputsInv'
      BY <1>2, <1>3, <1>4, <1>5, <1>7, <2>2, <2>3, <2>4 DEF OutputsInv, Device_Objects_Find_Functions
    <2>6. objects'[T] = after /\ objects[T] = x /\ exchange'.wp = wp /\ exchange'.reply = w.reply
      BY <1>2, <2>1, <2>2
    <2>7. CASE IsCommand(wp, T) /\ w.reply[1] # "abort"
      <3>1. Answering(Seen(T, x[0].level), Seen(T, after[0].level), AskOf(T, wp, w.reply))
        BY <1>7, <2>3, <2>4, <2>7, CommandAnswered
      <3> QED BY <1>2, <1>3, <2>5, <2>6, <3>1, PromiseKept
    <2>8. CASE ~(IsCommand(wp, T) /\ w.reply[1] # "abort")
      <3>1. AskOf(T, wp, w.reply) = NothingAsked BY <2>8, NotAsked
      <3>2. after[0].level = x[0].level BY <2>4, <2>8
      <3> QED BY <1>2, <1>3, <2>5, <2>6, <3>1, <3>2, PromiseKept
    <2> QED BY <2>7, <2>8
  <1> QED BY <1>6, <1>7

LEMMA LoadsKeep ==
  ASSUME OutputsInv, Load_Control_Task
  PROVE  OutputsInv' /\ [Promise!CommandNext]_(Promise!cVars)
  <1>1. PICK s : s = Load_Control_State_Machine_Handler(objects.lc, objects.ao, now' - lag) OBVIOUS
  <1>2. /\ objects' = [objects EXCEPT !.lc = s.lc, !.ao = s.ao]
        /\ served = "lc" /\ served' = served /\ exchange' = NoExchange
    BY <1>1 DEF Load_Control_Task
  <1>3. Watched = "ao" /\ Watched' = "ao" /\ "ao" \in Commandable
    BY <1>2 DEF Watched, Commandable
  <1>4. LoadsOK(objects.lc) /\ FirstOK("ao", objects.ao) BY <1>3 DEF OutputsInv
  <1>5. LoadsOK(s.lc) /\ Shifted(objects.ao, s.ao)
    BY <1>1, <1>4, HandlerOK DEF LoadsStepOK
  <1>6. objects'.lc = s.lc /\ objects'.ao = s.ao /\ DOMAIN objects' = DOMAIN objects
    BY <1>2 DEF OutputsInv
  <1>7. OutputsInv'
    BY <1>2, <1>3, <1>5, <1>6 DEF OutputsInv, Shifted, Device_Objects_Find_Functions
  <1>8. AskOf("ao", exchange'.wp, exchange'.reply) = NothingAsked BY <1>2, <1>3, NotAsked
  <1>9. \A q \in Priorities \ {4} : objects'["ao"][0].level[q] = objects["ao"][0].level[q]
    BY <1>5, <1>6 DEF Shifted
  <1> QED BY <1>2, <1>3, <1>7, <1>8, <1>9, PromiseKept

\* Steps that change neither an output nor a load control.
LEMMA OthersKeep ==
  ASSUME OutputsInv, served' = served, DOMAIN objects' = DOMAIN objects,
         \A T \in Commandable \cup {"lc"} : objects'[T] = objects[T],
         exchange' = exchange \/ exchange' = NoExchange
  PROVE  OutputsInv' /\ [Promise!CommandNext]_(Promise!cVars)
  <1>1. PICK T : T = Watched OBVIOUS
  <1>2. Watched' = T BY <1>1 DEF Watched
  <1>3. OutputsInv' BY <1>1, <1>2 DEF OutputsInv, Device_Objects_Find_Functions
  <1>4. T \in Commandable => objects'[T][0].level = objects[T][0].level OBVIOUS
  <1>5. exchange' = NoExchange /\ T \in Commandable =>
            AskOf(T, exchange'.wp, exchange'.reply) = NothingAsked
    BY NotAsked
  <1> QED BY <1>1, <1>3, <1>4, <1>5, PromiseKept

LEMMA OtherTypeKeeps ==
  ASSUME OutputsInv, served' = served, exchange' = exchange,
         NEW t, t \notin Commandable \cup {"lc"}, NEW v, objects' = [objects EXCEPT ![t] = v]
  PROVE  OutputsInv' /\ [Promise!CommandNext]_(Promise!cVars)
  <1>1. \A T \in Commandable \cup {"lc"} : objects'[T] = objects[T] OBVIOUS
  <1>2. DOMAIN objects' = DOMAIN objects OBVIOUS
  <1> QED BY <1>1, <1>2, OthersKeep

LEMMA OutputsNext ==
  OutputsInv /\ [DeviceServerNext]_deviceVars => OutputsInv' /\ [Promise!CommandNext]_(Promise!cVars)
  <1> SUFFICES ASSUME OutputsInv, [DeviceServerNext]_deviceVars
               PROVE  OutputsInv' /\ [Promise!CommandNext]_(Promise!cVars)
    OBVIOUS
  <1>0. \A t \in {"file", "tl", "ai", "bi", "msi", "device"} : t \notin Commandable \cup {"lc"}
    BY DEF Commandable
  <1>1. CASE WriteProperty
    <2>1. PICK wp \in Requests[served] : Answers(wp, FALSE) BY <1>1 DEF WriteProperty
    <2>2. PICK k \in DOMAIN Object_Table : Object_Table[k] = served
      BY DEF OutputsInv, Device_Objects_Find_Functions
    <2>3. WithinBounds(wp.value) BY <2>1, <2>2, RequestsAssumption DEF WithinBounds, Decoded
    <2> QED BY <2>1, <2>3, WriteKeeps
  <1>2. CASE WriteSegmented
    <2>1. WithinBounds(NoRequest.value) BY DEF WithinBounds, NoRequest
    <2> QED BY <1>2, <2>1, WriteKeeps DEF WriteSegmented
  <1>3. CASE AtomicWriteFile
    <2>1. PICK v : objects' = [objects EXCEPT !.file = v] BY <1>3 DEF AtomicWriteFile
    <2> QED BY <1>0, <1>3, <2>1, OtherTypeKeeps DEF AtomicWriteFile
  <1>4. CASE Load_Control_Task BY <1>4, LoadsKeep
  <1>5. CASE Trend_Log_Task
    <2>1. PICK v : objects' = [objects EXCEPT !.tl = v] BY <1>5 DEF Trend_Log_Task
    <2> QED BY <1>0, <1>5, <2>1, OtherTypeKeeps DEF Trend_Log_Task
  <1>6. CASE Analog_Input_Moves
    <2>1. PICK v : objects' = [objects EXCEPT !.ai = v] BY <1>6 DEF Analog_Input_Moves
    <2> QED BY <1>0, <1>6, <2>1, OtherTypeKeeps DEF Analog_Input_Moves
  <1>7. CASE Binary_Input_Moves
    <2>1. PICK v : objects' = [objects EXCEPT !.bi = v] BY <1>7 DEF Binary_Input_Moves
    <2> QED BY <1>0, <1>7, <2>1, OtherTypeKeeps DEF Binary_Input_Moves
  <1>8. CASE Multistate_Input_Named
    <2>1. PICK v : objects' = [objects EXCEPT !.msi = v] BY <1>8 DEF Multistate_Input_Named
    <2> QED BY <1>0, <1>8, <2>1, OtherTypeKeeps DEF Multistate_Input_Named
  <1>9. CASE System_Status_Moves
    <2>1. PICK v : objects' = [objects EXCEPT !.device = v] BY <1>9 DEF System_Status_Moves
    <2> QED BY <1>0, <1>9, <2>1, OtherTypeKeeps DEF System_Status_Moves
  <1>10. CASE ClockTick BY <1>10, OthersKeep DEF ClockTick
  <1>11. CASE UNCHANGED deviceVars BY <1>11, OthersKeep DEF deviceVars
  <1> QED BY <1>1, <1>2, <1>3, <1>4, <1>5, <1>6, <1>7, <1>8, <1>9, <1>10, <1>11
      DEF DeviceServerNext

\* Whatever requests are made, in whatever order and at whatever priorities, and
\* whatever the load controls do meanwhile: the first object of every commandable
\* type shows the command of the lowest number in force, keeps every command
\* that it acknowledged until another takes its slot, and lets a request that it
\* refuses change nothing.
THEOREM CommandsTheorem == DeviceServerSpec => CommandsObeyed
  <1>1. OutputsInv /\ [DeviceServerNext]_deviceVars => [Promise!CommandNext]_(Promise!cVars)
    BY OutputsNext
  <1>2. OutputsInv /\ [DeviceServerNext]_deviceVars => OutputsInv' BY OutputsNext
  <1> QED BY OutputsInit, <1>1, <1>2, PTL
      DEF DeviceServerSpec, CommandsObeyed, Promise!CommandSpec

-----------------------------------------------------------------------------
(* What is written is read: every type that takes a write, every property. *)
LEMMA SomeInstances ==
  ASSUME NEW T \in Writable, NEW d
  PROVE  Object_Instances(d, T) = Indices(T) /\ T # "device" /\ T \in Types
  <1>1. CASE T \in Commandable
    <2>1. Object_Instances(d, T) = Numbers(T) /\ Object_Instances(Device_Start, T) = Numbers(T)
      BY <1>1, Counts
    <2> QED BY <1>1, <2>1 DEF Indices, Commandable, Types
  <1>2. CASE T = "bi" BY <1>2, Zenon DEF Object_Instances, Indices, Types
  <1>3. CASE T = "msi" BY <1>3, Zenon DEF Object_Instances, Indices, Types
  <1>4. CASE T = "lsp" BY <1>4, Zenon DEF Object_Instances, Indices, Types
  <1>5. CASE T = "lc" BY <1>5, Zenon DEF Object_Instances, Indices, Types
  <1>6. CASE T = "tl" BY <1>6, Zenon DEF Object_Instances, Indices, Types
  <1> QED BY <1>1, <1>2, <1>3, <1>4, <1>5, <1>6 DEF Writable

-----------------------------------------------------------------------------
(* What is read of an object, by its own fields. *)
Everywhere == {"object_identifier", "object_name", "object_type", "description"}
OfService == {"status_flags", "event_state", "out_of_service"}

LEMMA EachHas ==
  ASSUME NEW T, NEW n, NEW name, NEW flagged, DOMAIN flagged = OfService
  PROVE  /\ DOMAIN (Identified(T, n, name) ++ Described(name)) = Everywhere
         /\ DOMAIN (Identified(T, n, name) ++ Described(name) ++ flagged)
                = Everywhere \cup OfService
         /\ (Identified(T, n, name) ++ Described(name) ++ flagged)["out_of_service"]
                = flagged["out_of_service"]
  <1>1. /\ DOMAIN Identified(T, n, name) = {"object_identifier", "object_name", "object_type"}
        /\ DOMAIN Described(name) = {"description"}
    BY DEF Identified, Described
  <1>2. PICK both : both = Identified(T, n, name) ++ Described(name) OBVIOUS
  <1>3. DOMAIN both = Everywhere BY <1>1, <1>2 DEF ++, Everywhere
  <1>4. DOMAIN (both ++ flagged) = Everywhere \cup OfService BY <1>1, <1>3 DEF ++
  <1>5. (both ++ flagged)["out_of_service"] = flagged["out_of_service"]
    BY <1>1, <1>3, Merged DEF Everywhere, OfService
  <1> QED BY <1>2, <1>3, <1>4, <1>5

LEMMA FlagsDown ==
  ASSUME NEW oos
  PROVE  /\ DOMAIN Flagged(oos, FALSE) = OfService
         /\ Flagged(oos, FALSE)["out_of_service"] = << "boolean", oos >>
  BY DEF Flagged, OfService

\* A property of the type's own, and the one that they share.
LEMMA OwnRead ==
  ASSUME NEW common, NEW own, NEW arrays, NEW p, p \in DOMAIN own, p \notin DOMAIN common,
         p \notin DOMAIN arrays
  PROVE  Reading(common ++ own, arrays, p, All) = Ack(own[p])
  <1>1. p \in DOMAIN (common ++ own) /\ (common ++ own)[p] = own[p] BY OwnProperty
  <1> QED BY <1>1, ScalarRead

LEMMA CommonRead ==
  ASSUME NEW common, NEW own, NEW arrays, NEW p, p \in DOMAIN common, p \notin DOMAIN arrays
  PROVE  Reading(common ++ own, arrays, p, All) = Ack(common[p])
  <1>1. p \in DOMAIN (common ++ own) /\ (common ++ own)[p] = common[p] BY Merged
  <1> QED BY <1>1, ScalarRead

LEMMA ServiceRead ==
  ASSUME NEW T, NEW n, NEW name, NEW oos, NEW flagged, NEW own, NEW arrays,
         DOMAIN flagged = OfService, flagged["out_of_service"] = << "boolean", oos >>,
         "out_of_service" \notin DOMAIN arrays
  PROVE  Reading(Identified(T, n, name) ++ Described(name) ++ flagged ++ own, arrays,
                 "out_of_service", All) = Ack(<< "boolean", oos >>)
  <1>1. PICK common : common = Identified(T, n, name) ++ Described(name) ++ flagged
    OBVIOUS
  <1>2. "out_of_service" \in DOMAIN common /\ common["out_of_service"] = << "boolean", oos >>
    BY <1>1, EachHas DEF OfService
  <1>3. Reading(common ++ own, arrays, "out_of_service", All) = Ack(common["out_of_service"])
    BY <1>2, CommonRead
  <1> QED BY <1>1, <1>2, <1>3

-----------------------------------------------------------------------------
(* That an object keeps what was written, said by what is read of it. *)
IndexRead(wp) == IF wp.property = "shed_levels" THEN wp.index ELSE All
Holds(T, r, wp) ==
    \/ Forgotten(wp)
    \/ \A o, time : o[T][wp.instance] = r =>
          IF T \in Commandable /\ wp.property = "present_value"
          THEN \E slots : /\ slots[wp.priority] = Expected(wp)
                          /\ Object_Read_Property(o, time, T, wp.instance, "priority_array", All)
                                = {Ack(slots)}
          ELSE Object_Read_Property(o, time, T, wp.instance, wp.property, IndexRead(wp))
                  = {Ack(Expected(wp))}

\* A write is refused, or one object is replaced by one that keeps the value.
Result(T, x, wp, w) ==
    \/ \E code : w = Refused(x, code)
    \/ \E r : /\ Intact(T, r) /\ Holds(T, r, wp)
              /\ w = Done([x EXCEPT ![wp.instance] = r])

\* Values that are kept as they are.
LEMMA ExpectedAsWritten ==
  ASSUME NEW wp, wp.property \in {"out_of_service", "mode", "polarity", "requested_shed_level",
            "start_time", "shed_duration", "duty_window", "shed_levels", "enable",
            "stop_when_full", "logging_type", "stop_time", "align_intervals", "trigger",
            "object_identifier", "system_status", "object_name", "location", "description",
            "model_name"}
  PROVE  Expected(wp) = wp.value
  BY Zenon DEF Expected

LEMMA ExpectedCommand ==
  ASSUME NEW wp, wp.property = "present_value"
  PROVE  Expected(wp) = IF wp.value[1] = "real" THEN << "real", Kept(wp.type, wp.value[2]) >> ELSE wp.value
  <1>1. CASE wp.value[1] = "real" BY <1>1, Zenon DEF Expected
  <1>2. CASE wp.value[1] # "real" BY <1>2, Zenon DEF Expected
  <1> QED BY <1>1, <1>2

-----------------------------------------------------------------------------
(* Commandable objects *)
LEMMA ServiceReadAll ==
  ASSUME NEW T \in Commandable, NEW o, NEW time, NEW n
  PROVE  Object_Read_Property(o, time, T, n, "out_of_service", All)
            = {Ack(<< "boolean", o[T][n].oos >>)}
  <1> DEFINE p == "out_of_service"
             x == o[T]
  <1>0. \A y, tag, scale : p \notin DOMAIN PriorityArray(y, tag, scale) BY DEF PriorityArray
  <1>1. CASE T = "ao"
    <2> DEFINE own ==
               [present_value |-> << "real", 10 * Analog_Output_Present_Value(x, n) >>,
                units |-> << "enumerated", "percent" >>, relinquish_default |-> << "real", 0 >>]
    <2>1. PICK flagged : flagged = Flagged(x[n].oos, FALSE) OBVIOUS
    <2>2. DOMAIN flagged = OfService /\ flagged["out_of_service"] = << "boolean", x[n].oos >>
      BY <2>1, FlagsDown
    <2>3. Analog_Output_Read_Property(x, n, p, All) =
            Reading(Identified("ao", n, Analog_Output_Name(n)) ++ Described(Analog_Output_Name(n))
                    ++ flagged ++ own, PriorityArray(x[n], "real", 10), p, All)
      BY <2>1 DEF Analog_Output_Read_Property
    <2> HIDE DEF own
    <2>4. Analog_Output_Read_Property(x, n, p, All) = Ack(<< "boolean", x[n].oos >>)
      BY <1>0, <2>2, <2>3, ServiceRead
    <2> QED BY <1>1, <2>4, ReadFunctions
  <1>2. CASE T = "av"
    <2> DEFINE own ==
               [present_value |-> << "real", 10 * Analog_Value_Present_Value(x, n) >>,
                units |-> << "enumerated", "percent" >>, relinquish_default |-> << "real", 0 >>]
    <2>1. PICK flagged : flagged = Flagged(x[n].oos, FALSE) OBVIOUS
    <2>2. DOMAIN flagged = OfService /\ flagged["out_of_service"] = << "boolean", x[n].oos >>
      BY <2>1, FlagsDown
    <2>3. Analog_Value_Read_Property(x, n, p, All) =
            Reading(Identified("av", n, Analog_Value_Name(n)) ++ Described(Analog_Value_Name(n))
                    ++ flagged ++ own, PriorityArray(x[n], "real", 10), p, All)
      BY <2>1 DEF Analog_Value_Read_Property
    <2> HIDE DEF own
    <2>4. Analog_Value_Read_Property(x, n, p, All) = Ack(<< "boolean", x[n].oos >>)
      BY <1>0, <2>2, <2>3, ServiceRead
    <2> QED BY <1>2, <2>4, ReadFunctions
  <1>3. CASE T = "bo"
    <2> DEFINE own ==
               [present_value |-> << "enumerated", Binary_Output_Present_Value(x, n) >>,
                polarity |-> << "enumerated", "normal" >>,
                relinquish_default |-> << "enumerated", 0 >>,
                active_text |-> << "string", "on" >>, inactive_text |-> << "string", "off" >>]
    <2>1. PICK flagged : flagged = Flagged(x[n].oos, FALSE) OBVIOUS
    <2>2. DOMAIN flagged = OfService /\ flagged["out_of_service"] = << "boolean", x[n].oos >>
      BY <2>1, FlagsDown
    <2>3. Binary_Output_Read_Property(x, n, p, All) =
            Reading(Identified("bo", n, Binary_Output_Name(n)) ++ Described(Binary_Output_Name(n))
                    ++ flagged ++ own, PriorityArray(x[n], "enumerated", 1), p, All)
      BY <2>1 DEF Binary_Output_Read_Property
    <2> HIDE DEF own
    <2>4. Binary_Output_Read_Property(x, n, p, All) = Ack(<< "boolean", x[n].oos >>)
      BY <1>0, <2>2, <2>3, ServiceRead
    <2> QED BY <1>3, <2>4, ReadFunctions
  <1>4. CASE T = "bv"
    <2> DEFINE own ==
               [present_value |-> << "enumerated", Binary_Value_Present_Value(x, n) >>,
                relinquish_default |-> << "enumerated", 0 >>]
    <2>1. PICK flagged : flagged = Flagged(x[n].oos, FALSE) OBVIOUS
    <2>2. DOMAIN flagged = OfService /\ flagged["out_of_service"] = << "boolean", x[n].oos >>
      BY <2>1, FlagsDown
    <2>3. Binary_Value_Read_Property(x, n, p, All) =
            {Reading(Identified("bv", n, Binary_Value_Name(n)) ++ Described(Binary_Value_Name(n))
                    ++ flagged ++ own, PriorityArray(x[n], "enumerated", 1), p, All)}
      BY <2>1, Zenon DEF Binary_Value_Read_Property
    <2> HIDE DEF own
    <2>4. Binary_Value_Read_Property(x, n, p, All) = {Ack(<< "boolean", x[n].oos >>)}
      BY <1>0, <2>2, <2>3, ServiceRead
    <2> QED BY <1>4, <2>4, ReadFunctions
  <1>5. CASE T = "mso"
    <2> DEFINE own ==
               [present_value |-> << "unsigned", Multistate_Output_Present_Value(x, n) >>,
                number_of_states |-> << "unsigned", MULTISTATE_NUMBER_OF_STATES >>,
                relinquish_default |-> << "enumerated", 0 >>]
    <2>1. PICK flagged : flagged = Flagged(x[n].oos, FALSE) OBVIOUS
    <2>2. DOMAIN flagged = OfService /\ flagged["out_of_service"] = << "boolean", x[n].oos >>
      BY <2>1, FlagsDown
    <2>3. Multistate_Output_Read_Property(x, n, p, All) =
            Reading(Identified("mso", n, Multistate_Output_Name(n)) ++ Described(Multistate_Output_Name(n))
                    ++ flagged ++ own, PriorityArray(x[n], "unsigned", 1), p, All)
      BY <2>1 DEF Multistate_Output_Read_Property
    <2> HIDE DEF own
    <2>4. Multistate_Output_Read_Property(x, n, p, All) = Ack(<< "boolean", x[n].oos >>)
      BY <1>0, <2>2, <2>3, ServiceRead
    <2> QED BY <1>5, <2>4, ReadFunctions
  <1>6. CASE T = "lo"
    <2> DEFINE own ==
               [present_value |-> << "real", 10 * Lighting_Output_Present_Value(x, n) >>,
                progress_value |-> << "real", 10 * Lighting_Output_Progress_Value(x, n) >>,
                lighting_command |-> Lighting_Output_Encode_Lighting_Command(x[n].command),
                units |-> << "enumerated", "percent" >>,
                relinquish_default |-> << "real", 0 >>]
    <2>1. PICK flagged : flagged = Flagged(x[n].oos, FALSE) OBVIOUS
    <2>2. DOMAIN flagged = OfService /\ flagged["out_of_service"] = << "boolean", x[n].oos >>
      BY <2>1, FlagsDown
    <2>3. Lighting_Output_Read_Property(x, n, p, All) =
            Reading(Identified("lo", n, Lighting_Output_Name(n)) ++ Described(Lighting_Output_Name(n))
                    ++ flagged ++ own, PriorityArray(x[n], "real", 10), p, All)
      BY <2>1 DEF Lighting_Output_Read_Property
    <2> HIDE DEF own
    <2>4. Lighting_Output_Read_Property(x, n, p, All) = Ack(<< "boolean", x[n].oos >>)
      BY <1>0, <2>2, <2>3, ServiceRead
    <2> QED BY <1>6, <2>4, ReadFunctions
  <1> QED BY <1>1, <1>2, <1>3, <1>4, <1>5, <1>6 DEF Commandable

LEMMA SlotsReadAll ==
  ASSUME NEW T \in Commandable, NEW o, NEW time, NEW n
  PROVE  Object_Read_Property(o, time, T, n, "priority_array", All) = {Ack(Elements(T, o[T][n]))}
  <1>0. "priority_array" \in Followed BY DEF Followed
  <1>1. CASE T = "ao" BY <1>0, <1>1, OutputRead, ReadFunctions, Answer
  <1>2. CASE T = "av" BY <1>0, <1>2, OutputRead, ReadFunctions, Answer
  <1>3. CASE T = "bo" BY <1>0, <1>3, OutputRead, ReadFunctions, Answer
  <1>4. CASE T = "bv" BY <1>0, <1>4, OutputRead, ReadFunctions, Answer
  <1>5. CASE T = "mso" BY <1>0, <1>5, OutputRead, ReadFunctions, Answer
  <1>6. CASE T = "lo" BY <1>0, <1>6, OutputRead, ReadFunctions, Answer
  <1> QED BY <1>1, <1>2, <1>3, <1>4, <1>5, <1>6 DEF Commandable

\* The slot of a command has what was commanded.
LEMMA CommandHolds ==
  ASSUME NEW T \in Commandable, NEW x, Shaped(T, x), NEW wp, wp.type = T, Decoded(wp),
         wp.instance \in Indices(T), wp.property = "present_value", wp.priority \in Priorities,
         NEW v, \/ v = Null /\ wp.value[1] = "null"
                \/ /\ wp.value[1] = TagOf(T) /\ v \in LevelsOf(T)
                   /\ Kept(T, wp.value[2]) = SlotOf(T, v)
  PROVE  Result(T, x, wp, Done(Commanded(x, wp.instance, wp.priority, v)))
  <1> DEFINE n == wp.instance
             p == wp.priority
  <1>1. PICK r : r = [x[n] EXCEPT !.level[p] = v] OBVIOUS
  <1>2. n \in DOMAIN x /\ "level" \in DOMAIN x[n] /\ Priorities \subseteq DOMAIN x[n].level
    BY FieldsOfEach DEF Shaped, Intact
  <1>3. Commanded(x, n, p, v) = [x EXCEPT ![n] = r] BY <1>1 DEF Commanded
  <1>4. r.level[p] = v /\ DOMAIN r = DOMAIN x[n] /\ DOMAIN r.level = DOMAIN x[n].level
    BY <1>1, <1>2
  <1>5. Intact(T, r)
    <2>1. Intact(T, x[n]) BY DEF Shaped
    <2>2. T # "lc" BY DEF Commandable
    <2> QED BY <1>4, <2>1, <2>2 DEF Intact
  <1>6. ElementOf(v, TagOf(T), ScaleOf(T)) = Expected(wp)
    <2>1. CASE v = Null /\ wp.value[1] = "null"
      <3>1. wp.value = << "null", 0 >> BY <2>1 DEF Decoded
      <3> QED BY <2>1, <3>1, ExpectedCommand DEF ElementOf
    <2>2. CASE /\ wp.value[1] = TagOf(T) /\ v \in LevelsOf(T)
               /\ Kept(T, wp.value[2]) = SlotOf(T, v)
      <3>1. v # Null /\ SlotOf(T, v) = v * ScaleOf(T) BY <2>2, LevelTypes DEF SlotOf, Null
      <3>2. ElementOf(v, TagOf(T), ScaleOf(T)) = << TagOf(T), Kept(T, wp.value[2]) >>
        BY <2>2, <3>1 DEF ElementOf
      <3>3. wp.value[1] # "real" => Kept(T, wp.value[2]) = wp.value[2]
        BY <2>2, Tags DEF Kept, Commandable
      <3>4. wp.value = << TagOf(T), wp.value[2] >> BY <2>2 DEF Decoded
      <3> QED BY <2>2, <3>2, <3>3, <3>4, ExpectedCommand
    <2> QED BY <2>1, <2>2
  <1>7. ASSUME NEW o, NEW time, o[T][n] = r
        PROVE  \E slots : /\ slots[p] = Expected(wp)
                          /\ Object_Read_Property(o, time, T, n, "priority_array", All) = {Ack(slots)}
    <2>1. Elements(T, r)[p] = Expected(wp) BY <1>4, <1>6 DEF Elements
    <2> QED BY <1>7, <2>1, SlotsReadAll
  <1>8. Holds(T, r, wp) BY <1>7 DEF Holds
  <1> QED BY <1>3, <1>5, <1>8 DEF Result

LEMMA ServiceWritten ==
  ASSUME NEW T \in Commandable \cup {"msi", "lsp"}, NEW x, Shaped(T, x), NEW wp, Decoded(wp),
         wp.instance \in Indices(T), wp.property = "out_of_service",
         \A o, time : Object_Read_Property(o, time, T, wp.instance, "out_of_service", All)
                        = {Ack(<< "boolean", o[T][wp.instance].oos >>)}
  PROVE  Result(T, x, wp, OutOfServiceWritten(x, wp))
  <1> DEFINE n == wp.instance
  <1>1. CASE wp.value[1] # "boolean"
    BY <1>1 DEF OutOfServiceWritten, WPValidateArgType, Result
  <1>2. CASE wp.value[1] = "boolean"
    <2>1. PICK r : r = [x[n] EXCEPT !.oos = wp.value[2]] OBVIOUS
    <2>2. n \in DOMAIN x /\ Intact(T, x[n]) /\ "oos" \in DOMAIN x[n]
      BY FieldsOfEach DEF Shaped, Intact, Commandable
    <2>3. OutOfServiceWritten(x, wp) = Done([x EXCEPT ![n] = r])
      BY <1>2, <2>1 DEF OutOfServiceWritten, WPValidateArgType
    <2>4. /\ r.oos = wp.value[2] /\ DOMAIN r = DOMAIN x[n]
          /\ T \in Commandable => r.level = x[n].level
      BY <2>1, <2>2, FieldsOfEach DEF Intact
    <2>5. Intact(T, r) BY <2>2, <2>4 DEF Intact, Commandable
    <2>6. Expected(wp) = << "boolean", r.oos >> BY <1>2, <2>4, ExpectedAsWritten DEF Decoded
    <2>7. Holds(T, r, wp) BY <2>6 DEF Holds, IndexRead
    <2> QED BY <2>3, <2>5, <2>7 DEF Result
  <1> QED BY <1>1, <1>2

LEMMA OutputService ==
  ASSUME NEW T \in Commandable, NEW x, Shaped(T, x), NEW wp, Decoded(wp),
         wp.instance \in Indices(T), wp.property # "present_value", NEW w,
         \/ wp.property = "out_of_service" /\ w = OutOfServiceWritten(x, wp)
         \/ \E code : w = Refused(x, code)
  PROVE  Result(T, x, wp, w)
  <1>1. CASE wp.property = "out_of_service" /\ w = OutOfServiceWritten(x, wp)
    BY <1>1, ServiceReadAll, ServiceWritten
  <1>2. CASE \E code : w = Refused(x, code) BY <1>2 DEF Result
  <1> QED BY <1>1, <1>2

LEMMA CommandWrittenResult ==
  ASSUME NEW T \in Commandable, NEW x, Shaped(T, x), NEW wp, wp.type = T, Decoded(wp),
         wp.instance \in Indices(T), wp.property = "present_value", wp.priority \in Priorities,
         NEW settable \in BOOLEAN, NEW stored,
         wp.value[1] = TagOf(T) /\ settable =>
            stored \in LevelsOf(T) /\ Kept(T, wp.value[2]) = SlotOf(T, stored)
  PROVE  Result(T, x, wp, CommandWritten(x, wp, TagOf(T), settable, stored))
  <1>0. PICK w : w = CommandWritten(x, wp, TagOf(T), settable, stored) OBVIOUS
  <1>1. CASE wp.value[1] = TagOf(T) /\ settable /\ MayCommand(wp.priority)
    <2>1. w = Done(Commanded(x, wp.instance, wp.priority, stored)) BY <1>0, <1>1 DEF CommandWritten
    <2> QED BY <1>0, <1>1, <2>1, CommandHolds
  <1>2. CASE wp.value[1] # TagOf(T) /\ wp.value[1] = "null"
    <2>1. w = Done(Commanded(x, wp.instance, wp.priority, Null))
      BY <1>0, <1>2 DEF CommandWritten, WPValidateArgType
    <2> QED BY <1>0, <1>2, <2>1, CommandHolds
  <1>3. CASE /\ ~(wp.value[1] = TagOf(T) /\ settable /\ MayCommand(wp.priority))
             /\ ~(wp.value[1] # TagOf(T) /\ wp.value[1] = "null")
    <2>1. \E code : w = Refused(x, code) BY <1>0, <1>3 DEF CommandWritten, WPValidateArgType
    <2> QED BY <1>0, <2>1 DEF Result
  <1> QED BY <1>1, <1>2, <1>3

LEMMA Analog_Value_Result ==
  ASSUME NEW x, Shaped("av", x), NEW wp, wp.type = "av", Decoded(wp),
         wp.instance \in Indices("av"), wp.priority \in Priorities
  PROVE  Result("av", x, wp, Analog_Value_Write_Property(x, wp))
  <1>1. CASE wp.property # "present_value"
    <2>1. \/ /\ wp.property = "out_of_service"
             /\ Analog_Value_Write_Property(x, wp) = OutOfServiceWritten(x, wp)
          \/ Analog_Value_Write_Property(x, wp) = Refused(x, "write_access_denied")
      BY <1>1, Zenon DEF Analog_Value_Write_Property
    <2> QED BY <1>1, <2>1, OutputService DEF Commandable
  <1>2. CASE wp.property = "present_value"
    <2> DEFINE v == wp.value[2]
               settable == v \in Percent
    <2>1. "av" \in Commandable /\ TagOf("av") = "real" BY Tags DEF Commandable
    <2>2. Analog_Value_Write_Property(x, wp) = CommandWritten(x, wp, TagOf("av"), settable, Whole(v))
      BY <1>2, <2>1, Zenon DEF Analog_Value_Write_Property
    <2>3. wp.value[1] = TagOf("av") /\ settable =>
            Whole(v) \in LevelsOf("av") /\ Kept("av", v) = SlotOf("av", Whole(v))
      BY KeptLevel
    <2>4. settable \in BOOLEAN OBVIOUS
    <2> HIDE DEF settable
    <2>5. Result("av", x, wp, CommandWritten(x, wp, TagOf("av"), settable, Whole(v)))
      BY <1>2, <2>1, <2>3, <2>4, CommandWrittenResult
    <2> QED BY <2>2, <2>5
  <1> QED BY <1>1, <1>2

LEMMA Binary_Output_Result ==
  ASSUME NEW x, Shaped("bo", x), NEW wp, wp.type = "bo", Decoded(wp),
         wp.instance \in Indices("bo"), wp.priority \in Priorities
  PROVE  Result("bo", x, wp, Binary_Output_Write_Property(x, wp))
  <1>1. CASE wp.property # "present_value"
    <2>1. \/ /\ wp.property = "out_of_service"
             /\ Binary_Output_Write_Property(x, wp) = OutOfServiceWritten(x, wp)
          \/ Binary_Output_Write_Property(x, wp) = Refused(x, "write_access_denied")
      BY <1>1, Zenon DEF Binary_Output_Write_Property
    <2> QED BY <1>1, <2>1, OutputService DEF Commandable
  <1>2. CASE wp.property = "present_value"
    <2> DEFINE v == wp.value[2]
               settable == v \in BinaryPV
    <2>1. "bo" \in Commandable /\ TagOf("bo") = "enumerated" BY Tags DEF Commandable
    <2>2. Binary_Output_Write_Property(x, wp) = CommandWritten(x, wp, TagOf("bo"), settable, v)
      BY <1>2, <2>1, Zenon DEF Binary_Output_Write_Property
    <2>3. wp.value[1] = TagOf("bo") /\ settable =>
            v \in LevelsOf("bo") /\ Kept("bo", v) = SlotOf("bo", v)
      BY Limits DEF Kept, SlotOf, ScaleOf, Null, BinaryPV
    <2>4. settable \in BOOLEAN OBVIOUS
    <2> HIDE DEF settable
    <2>5. Result("bo", x, wp, CommandWritten(x, wp, TagOf("bo"), settable, v))
      BY <1>2, <2>1, <2>3, <2>4, CommandWrittenResult
    <2> QED BY <2>2, <2>5
  <1> QED BY <1>1, <1>2

LEMMA Binary_Value_Result ==
  ASSUME NEW x, Shaped("bv", x), NEW wp, wp.type = "bv", Decoded(wp),
         wp.instance \in Indices("bv"), wp.priority \in Priorities
  PROVE  Result("bv", x, wp, Binary_Value_Write_Property(x, wp))
  <1>1. CASE wp.property # "present_value"
    <2>1. \/ /\ wp.property = "out_of_service"
             /\ Binary_Value_Write_Property(x, wp) = OutOfServiceWritten(x, wp)
          \/ Binary_Value_Write_Property(x, wp) = Refused(x, "write_access_denied")
      BY <1>1, Zenon DEF Binary_Value_Write_Property
    <2> QED BY <1>1, <2>1, OutputService DEF Commandable
  <1>2. CASE wp.property = "present_value"
    <2> DEFINE v == wp.value[2]
               settable == v \in BinaryPV
    <2>1. "bv" \in Commandable /\ TagOf("bv") = "enumerated" BY Tags DEF Commandable
    <2>2. Binary_Value_Write_Property(x, wp) = CommandWritten(x, wp, TagOf("bv"), settable, v)
      BY <1>2, <2>1, Zenon DEF Binary_Value_Write_Property
    <2>3. wp.value[1] = TagOf("bv") /\ settable =>
            v \in LevelsOf("bv") /\ Kept("bv", v) = SlotOf("bv", v)
      BY Limits DEF Kept, SlotOf, ScaleOf, Null, BinaryPV
    <2>4. settable \in BOOLEAN OBVIOUS
    <2> HIDE DEF settable
    <2>5. Result("bv", x, wp, CommandWritten(x, wp, TagOf("bv"), settable, v))
      BY <1>2, <2>1, <2>3, <2>4, CommandWrittenResult
    <2> QED BY <2>2, <2>5
  <1> QED BY <1>1, <1>2

LEMMA Multistate_Output_Result ==
  ASSUME NEW x, Shaped("mso", x), NEW wp, wp.type = "mso", Decoded(wp),
         wp.instance \in Indices("mso"), wp.priority \in Priorities
  PROVE  Result("mso", x, wp, Multistate_Output_Write_Property(x, wp))
  <1>1. CASE wp.property # "present_value"
    <2>1. \/ /\ wp.property = "out_of_service"
             /\ Multistate_Output_Write_Property(x, wp) = OutOfServiceWritten(x, wp)
          \/ Multistate_Output_Write_Property(x, wp) = Refused(x, "write_access_denied")
      BY <1>1, Zenon DEF Multistate_Output_Write_Property
    <2> QED BY <1>1, <2>1, OutputService DEF Commandable
  <1>2. CASE wp.property = "present_value"
    <2> DEFINE v == wp.value[2]
               settable == v <= MULTISTATE_NUMBER_OF_STATES
    <2>1. "mso" \in Commandable /\ TagOf("mso") = "unsigned" BY Tags DEF Commandable
    <2>2. Multistate_Output_Write_Property(x, wp) = CommandWritten(x, wp, TagOf("mso"), settable, v)
      BY <1>2, <2>1, Zenon DEF Multistate_Output_Write_Property
    <2>3. wp.value[1] = TagOf("mso") /\ settable =>
            v \in LevelsOf("mso") /\ Kept("mso", v) = SlotOf("mso", v)
      BY <2>1, Limits DEF Decoded, MULTISTATE_NUMBER_OF_STATES, Kept, SlotOf, ScaleOf, Null
    <2>4. settable \in BOOLEAN OBVIOUS
    <2> HIDE DEF settable
    <2>5. Result("mso", x, wp, CommandWritten(x, wp, TagOf("mso"), settable, v))
      BY <1>2, <2>1, <2>3, <2>4, CommandWrittenResult
    <2> QED BY <2>2, <2>5
  <1> QED BY <1>1, <1>2

\* ao.c and lo.c again set and relinquish by functions of their own.
LEMMA OwnResult ==
  ASSUME NEW T \in {"ao", "lo"}, NEW x, Shaped(T, x), NEW wp, wp.type = T, Decoded(wp),
         wp.instance \in Indices(T), wp.property = "present_value", wp.priority \in Priorities,
         NEW w,
         \/ /\ wp.value[1] = "real" /\ wp.value[2] \in Percent
            /\ w = Done(Commanded(x, wp.instance, wp.priority, Whole(wp.value[2])))
         \/ wp.value[1] = "null" /\ w = Done(Commanded(x, wp.instance, wp.priority, Null))
         \/ \E code : w = Refused(x, code)
  PROVE  Result(T, x, wp, w)
  <1>1. T \in Commandable /\ TagOf(T) = "real" BY Tags DEF Commandable
  <1>2. CASE /\ wp.value[1] = "real" /\ wp.value[2] \in Percent
             /\ w = Done(Commanded(x, wp.instance, wp.priority, Whole(wp.value[2])))
    <2>1. PICK v : v = Whole(wp.value[2]) OBVIOUS
    <2>2. v \in LevelsOf(T) /\ Kept(T, wp.value[2]) = SlotOf(T, v) BY <1>2, <2>1, KeptLevel
    <2> QED BY <1>1, <1>2, <2>1, <2>2, CommandHolds
  <1>3. CASE wp.value[1] = "null" /\ w = Done(Commanded(x, wp.instance, wp.priority, Null))
    BY <1>1, <1>3, CommandHolds
  <1>4. CASE \E code : w = Refused(x, code) BY <1>4 DEF Result
  <1> QED BY <1>2, <1>3, <1>4

LEMMA Analog_Output_Result ==
  ASSUME NEW x, Shaped("ao", x), NEW wp, wp.type = "ao", Decoded(wp),
         wp.instance \in Indices("ao"), wp.priority \in Priorities
  PROVE  Result("ao", x, wp, Analog_Output_Write_Property(x, wp))
  <1> DEFINE n == wp.instance
             p == wp.priority
             v == wp.value[2]
  <1>0. PICK w : w = Analog_Output_Write_Property(x, wp) OBVIOUS
  <1>1. CASE wp.property # "present_value"
    <2>1. \/ wp.property = "out_of_service" /\ w = OutOfServiceWritten(x, wp)
          \/ w = Refused(x, "write_access_denied")
      BY <1>0, <1>1, Zenon DEF Analog_Output_Write_Property
    <2> QED BY <1>0, <1>1, <2>1, OutputService DEF Commandable
  <1>2. CASE wp.property = "present_value" /\ wp.value[1] = "real"
    <2>1. w = IF p = 6 THEN Refused(x, "write_access_denied")
              ELSE Analog_Output_Present_Value_Set(x, n, v, p)
      BY <1>0, <1>2, Zenon DEF Analog_Output_Write_Property
    <2>2. \/ v \in Percent /\ w = Done(Commanded(x, n, p, Whole(v)))
          \/ \E code : w = Refused(x, code)
      BY <2>1 DEF Analog_Output_Present_Value_Set
    <2> QED BY <1>0, <1>2, <2>2, OwnResult
  <1>3. CASE wp.property = "present_value" /\ wp.value[1] # "real"
    <2>1. w = IF wp.value[1] = "null" THEN Analog_Output_Present_Value_Relinquish(x, n, p)
              ELSE Refused(x, "invalid_data_type")
      BY <1>0, <1>3, Zenon DEF Analog_Output_Write_Property, WPValidateArgType
    <2>2. \/ wp.value[1] = "null" /\ w = Done(Commanded(x, n, p, Null))
          \/ \E code : w = Refused(x, code)
      BY <2>1 DEF Analog_Output_Present_Value_Relinquish
    <2> QED BY <1>0, <1>3, <2>2, OwnResult
  <1> QED BY <1>1, <1>2, <1>3

LEMMA Lighting_Output_Result ==
  ASSUME NEW x, Shaped("lo", x), NEW wp, wp.type = "lo", Decoded(wp),
         wp.instance \in Indices("lo"), wp.priority \in Priorities
  PROVE  Result("lo", x, wp, Lighting_Output_Write_Property(x, wp))
  <1> DEFINE n == wp.instance
             p == wp.priority
             v == wp.value[2]
  <1>0. PICK w : w = Lighting_Output_Write_Property(x, wp) OBVIOUS
  <1>1. CASE wp.property # "present_value"
    <2>1. \/ wp.property = "out_of_service" /\ w = OutOfServiceWritten(x, wp)
          \/ w = Refused(x, "write_access_denied") \/ w = Refused(x, "stale")
      BY <1>0, <1>1, Zenon
      DEF Lighting_Output_Write_Property, Lighting_Output_Decode_Lighting_Command
    <2> QED BY <1>0, <1>1, <2>1, OutputService DEF Commandable
  <1>2. CASE wp.property = "present_value" /\ p = 6 /\ wp.value[1] \in {"real", "null"}
    <2>1. w = Refused(x, "write_access_denied")
      BY <1>0, <1>2, Zenon DEF Lighting_Output_Write_Property
    <2> QED BY <1>0, <2>1 DEF Result
  <1>3. CASE wp.property = "present_value" /\ p # 6 /\ wp.value[1] = "real"
    <2>1. w = Lighting_Output_Present_Value_Set(x, n, v, p)
      BY <1>0, <1>3, Zenon DEF Lighting_Output_Write_Property
    <2>2. \/ v \in Percent /\ w = Done(Commanded(x, n, p, Whole(v)))
          \/ \E code : w = Refused(x, code)
      BY <2>1 DEF Lighting_Output_Present_Value_Set
    <2> QED BY <1>0, <1>3, <2>2, OwnResult
  <1>4. CASE wp.property = "present_value" /\ p # 6 /\ wp.value[1] = "null"
    <2>1. w = Lighting_Output_Present_Value_Relinquish(x, n, p)
      BY <1>0, <1>4, Zenon DEF Lighting_Output_Write_Property
    <2>2. \/ w = Done(Commanded(x, n, p, Null)) \/ \E code : w = Refused(x, code)
      BY <2>1 DEF Lighting_Output_Present_Value_Relinquish
    <2> QED BY <1>0, <1>4, <2>2, OwnResult
  <1>5. CASE wp.property = "present_value" /\ wp.value[1] \notin {"real", "null"}
    <2>1. w = Refused(x, "invalid_data_type")
      BY <1>0, <1>5, Zenon DEF Lighting_Output_Write_Property
    <2> QED BY <1>0, <2>1 DEF Result
  <1> QED BY <1>1, <1>2, <1>3, <1>4, <1>5

-----------------------------------------------------------------------------
(* Inputs and life safety points *)
LEMMA OtherReadFunctions ==
  ASSUME NEW o, NEW time, NEW n, NEW p, NEW i
  PROVE  /\ Object_Read_Property(o, time, "bi", n, p, i) = {Binary_Input_Read_Property(o.bi, n, p, i)}
         /\ Object_Read_Property(o, time, "msi", n, p, i) = {Multistate_Input_Read_Property(o.msi, n, p, i)}
         /\ Object_Read_Property(o, time, "lsp", n, p, i) = {Life_Safety_Point_Read_Property(o.lsp, n, p, i)}
         /\ Object_Read_Property(o, time, "lc", n, p, i) = {Load_Control_Read_Property(o.lc, n, p, i)}
         /\ Object_Read_Property(o, time, "tl", n, p, i) = {Trend_Log_Read_Property(o.tl, n, p, i)}
         /\ Object_Read_Property(o, time, "device", n, p, i) = {Device_Read_Property_Local(o, time, p, i)}
  BY Zenon DEF Object_Read_Property

LEMMA NotCommandable == \A T \in {"bi", "msi", "lsp", "lc", "tl", "device"} : T \notin Commandable
  BY DEF Commandable

\* The flags of binary inputs tell whether they are out of service.
LEMMA FlagsUp ==
  ASSUME NEW oos
  PROVE  \E flagged : /\ flagged = Flagged(oos, oos) /\ DOMAIN flagged = OfService
                      /\ flagged["out_of_service"] = << "boolean", oos >>
  <1>1. PICK flagged : flagged = Flagged(oos, oos) OBVIOUS
  <1>2. DOMAIN flagged = OfService /\ flagged["out_of_service"] = << "boolean", oos >>
    BY <1>1 DEF Flagged, OfService
  <1> QED BY <1>1, <1>2

\* That reading a property of a type gives a field.
ReadsField(T, n, p, tag, f) ==
    \A o, time : Object_Read_Property(o, time, T, n, p, All) = {Ack(<< tag, o[T][n][f] >>)}

LEMMA BinaryInputRead ==
  ASSUME NEW n
  PROVE  /\ ReadsField("bi", n, "out_of_service", "boolean", "oos")
         /\ ReadsField("bi", n, "present_value", "enumerated", "value")
         /\ ReadsField("bi", n, "polarity", "enumerated", "polarity")
  <1> SUFFICES ASSUME NEW o, NEW time, NEW bi, bi = o["bi"]
               PROVE  /\ Object_Read_Property(o, time, "bi", n, "out_of_service", All)
                            = {Ack(<< "boolean", bi[n].oos >>)}
                      /\ Object_Read_Property(o, time, "bi", n, "present_value", All)
                            = {Ack(<< "enumerated", bi[n].value >>)}
                      /\ Object_Read_Property(o, time, "bi", n, "polarity", All)
                            = {Ack(<< "enumerated", bi[n].polarity >>)}
    BY DEF ReadsField
  <1> DEFINE own == [present_value |-> << "enumerated", bi[n].value >>,
                     polarity |-> << "enumerated", Binary_Input_Polarity(bi, n) >>]
  <1>1. PICK flagged : /\ flagged = Flagged(bi[n].oos, bi[n].oos) /\ DOMAIN flagged = OfService
                       /\ flagged["out_of_service"] = << "boolean", bi[n].oos >>
    BY FlagsUp
  <1>2. PICK common : common = Identified("bi", n, Binary_Input_Name(n))
                                ++ Described(Binary_Input_Name(n)) ++ flagged
    OBVIOUS
  <1>3. ASSUME NEW p
        PROVE  Object_Read_Property(o, time, "bi", n, p, All)
                  = {Reading(common ++ own, NoArrays, p, All)}
    <2>1. Binary_Input_Read_Property(bi, n, p, All) = Reading(common ++ own, NoArrays, p, All)
      BY <1>1, <1>2 DEF Binary_Input_Read_Property
    <2> QED BY <2>1, OtherReadFunctions
  <1>4. /\ DOMAIN own = {"present_value", "polarity"}
        /\ own["present_value"] = << "enumerated", bi[n].value >>
        /\ own["polarity"] = << "enumerated", bi[n].polarity >>
    BY DEF Binary_Input_Polarity
  <1> HIDE DEF own
  <1>5. \A p : p \notin DOMAIN NoArrays BY DEF NoArrays
  <1>6. Reading(common ++ own, NoArrays, "out_of_service", All) = Ack(<< "boolean", bi[n].oos >>)
    BY <1>1, <1>2, <1>5, ServiceRead
  <1>7. DOMAIN common = Everywhere \cup OfService BY <1>1, <1>2, EachHas
  <1>8. \A p \in DOMAIN own : p \notin DOMAIN common BY <1>4, <1>7 DEF Everywhere, OfService
  <1>9. \A p \in DOMAIN own : Reading(common ++ own, NoArrays, p, All) = Ack(own[p])
    BY <1>5, <1>8, OwnRead
  <1> QED BY <1>3, <1>4, <1>6, <1>9

\* One field of an object is given the value.
LEMMA FieldWritten ==
  ASSUME NEW T \in {"bi", "msi", "lsp", "lc", "tl"}, NEW x, Shaped(T, x), NEW wp,
         wp.instance \in Indices(T), wp.property # "shed_levels", NEW r,
         DOMAIN r = DOMAIN x[wp.instance], T = "lc" => r.levels = x[wp.instance].levels,
         NEW tag, NEW f, ReadsField(T, wp.instance, wp.property, tag, f),
         Expected(wp) = << tag, r[f] >>, NEW w, w = Done([x EXCEPT ![wp.instance] = r])
  PROVE  Result(T, x, wp, w)
  <1>1. Intact(T, x[wp.instance]) BY DEF Shaped
  <1>2. Intact(T, r) BY <1>1, NotCommandable DEF Intact
  <1>3. ASSUME NEW o, NEW time, o[T][wp.instance] = r
        PROVE  Object_Read_Property(o, time, T, wp.instance, wp.property, IndexRead(wp))
                  = {Ack(Expected(wp))}
    <2>1. IndexRead(wp) = All BY DEF IndexRead
    <2> QED BY <1>3, <2>1 DEF ReadsField
  <1>4. Holds(T, r, wp) BY <1>3, NotCommandable DEF Holds
  <1> QED BY <1>2, <1>4 DEF Result

LEMMA Binary_Input_Result ==
  ASSUME NEW x, Shaped("bi", x), NEW wp, Decoded(wp), wp.instance \in Indices("bi")
  PROVE  Result("bi", x, wp, Binary_Input_Write_Property(x, wp))
  <1> DEFINE n == wp.instance
             v == wp.value[2]
  <1>0. PICK w : w = Binary_Input_Write_Property(x, wp) OBVIOUS
  <1>1. /\ n \in DOMAIN x /\ "value" \in DOMAIN x[n] /\ "oos" \in DOMAIN x[n]
        /\ "polarity" \in DOMAIN x[n] /\ "changed" \in DOMAIN x[n]
    BY FieldsOfEach DEF Shaped, Intact
  <1>2. CASE \E code : w = Refused(x, code) BY <1>0, <1>2 DEF Result
  <1>3. CASE wp.property = "present_value" /\ wp.value[1] = "enumerated"
    <2>1. w = IF v <= MAX_BINARY_PV THEN Done(Binary_Input_Present_Value_Set(x, n, v))
              ELSE Refused(x, "value_out_of_range")
      BY <1>0, <1>3, Zenon DEF Binary_Input_Write_Property, WPValidateArgType
    <2>2. CASE w = Done(Binary_Input_Present_Value_Set(x, n, v))
      <3>1. PICK r : r = Binary_Input_Present_Value_Set(x, n, v)[n] OBVIOUS
      <3>2. /\ Binary_Input_Present_Value_Set(x, n, v) = [x EXCEPT ![n] = r]
            /\ DOMAIN r = DOMAIN x[n] /\ r.value = v
        BY <1>1, <3>1 DEF Binary_Input_Present_Value_Set
      <3>3. Expected(wp) = << "enumerated", v >> BY <1>3, ExpectedCommand DEF Decoded
      <3> QED BY <1>0, <1>3, <2>2, <3>2, <3>3, BinaryInputRead, FieldWritten
    <2> QED BY <1>2, <2>1, <2>2
  <1>4. CASE wp.property = "polarity" /\ wp.value[1] = "enumerated"
    <2>1. w = IF v < MAX_POLARITY THEN Done(Binary_Input_Polarity_Set(x, n, v))
              ELSE Refused(x, "value_out_of_range")
      BY <1>0, <1>4, Zenon DEF Binary_Input_Write_Property, WPValidateArgType
    <2>2. CASE w = Done(Binary_Input_Polarity_Set(x, n, v))
      <3>1. PICK r : r = Binary_Input_Polarity_Set(x, n, v)[n] OBVIOUS
      <3>2. /\ Binary_Input_Polarity_Set(x, n, v) = [x EXCEPT ![n] = r]
            /\ DOMAIN r = DOMAIN x[n] /\ r.polarity = v
        BY <1>1, <3>1 DEF Binary_Input_Polarity_Set
      <3>3. Expected(wp) = << "enumerated", v >> BY <1>4, ExpectedAsWritten DEF Decoded
      <3> QED BY <1>0, <1>4, <2>2, <3>2, <3>3, BinaryInputRead, FieldWritten
    <2> QED BY <1>2, <2>1, <2>2
  <1>5. CASE wp.property = "out_of_service"
    <2>1. w = IF wp.value[1] = "boolean" THEN Done(Binary_Input_Out_Of_Service_Set(x, n, v))
              ELSE Refused(x, "invalid_data_type")
      BY <1>0, <1>5, Zenon DEF Binary_Input_Write_Property, WPValidateArgType
    <2>2. CASE wp.value[1] = "boolean" /\ w = Done(Binary_Input_Out_Of_Service_Set(x, n, v))
      <3>1. PICK r : r = Binary_Input_Out_Of_Service_Set(x, n, v)[n] OBVIOUS
      <3>2. /\ Binary_Input_Out_Of_Service_Set(x, n, v) = [x EXCEPT ![n] = r]
            /\ DOMAIN r = DOMAIN x[n] /\ r.oos = v
        BY <1>1, <3>1 DEF Binary_Input_Out_Of_Service_Set
      <3>3. Expected(wp) = << "boolean", v >> BY <1>5, <2>2, ExpectedAsWritten DEF Decoded
      <3> QED BY <1>0, <1>5, <2>2, <3>2, <3>3, BinaryInputRead, FieldWritten
    <2> QED BY <1>2, <2>1, <2>2
  <1>6. CASE wp.property \in {"present_value", "polarity"} /\ wp.value[1] # "enumerated"
    <2>1. w = Refused(x, "invalid_data_type")
      BY <1>0, <1>6, Zenon DEF Binary_Input_Write_Property, WPValidateArgType
    <2> QED BY <1>2, <2>1
  <1>7. CASE wp.property \notin {"present_value", "polarity", "out_of_service"}
    <2>1. w = Refused(x, "write_access_denied")
      BY <1>0, <1>7, Zenon DEF Binary_Input_Write_Property
    <2> QED BY <1>2, <2>1
  <1> QED BY <1>3, <1>4, <1>5, <1>6, <1>7

LEMMA MultistateInputRead ==
  ASSUME NEW n
  PROVE  /\ ReadsField("msi", n, "out_of_service", "boolean", "oos")
         /\ ReadsField("msi", n, "present_value", "unsigned", "value")
  <1> SUFFICES ASSUME NEW o, NEW time, NEW msi, msi = o["msi"]
               PROVE  /\ Object_Read_Property(o, time, "msi", n, "out_of_service", All)
                            = {Ack(<< "boolean", msi[n].oos >>)}
                      /\ Object_Read_Property(o, time, "msi", n, "present_value", All)
                            = {Ack(<< "unsigned", msi[n].value >>)}
    BY DEF ReadsField
  <1> DEFINE own == [present_value |-> << "unsigned", msi[n].value >>,
                     number_of_states |-> << "unsigned", NUMBER_OF_STATES >>]
             arrays == [state_text |-> [s \in 1 .. NUMBER_OF_STATES |->
                                          << "string", Multistate_Input_State_Text(msi, n, s) >>]]
  <1>1. PICK flagged : flagged = Flagged(msi[n].oos, FALSE) OBVIOUS
  <1>2. DOMAIN flagged = OfService /\ flagged["out_of_service"] = << "boolean", msi[n].oos >>
    BY <1>1, FlagsDown
  <1>3. PICK common : common = Identified("msi", n, Multistate_Input_Name(msi, n))
                                ++ Described(Multistate_Input_Description(msi, n)) ++ flagged
    OBVIOUS
  <1>4. ASSUME NEW p \in {"out_of_service", "present_value"}
        PROVE  Object_Read_Property(o, time, "msi", n, p, All)
                  = {Reading(common ++ own, arrays, p, All)}
    <2>1. p # "state_text" OBVIOUS
    <2>2. PICK answer : answer = Reading(common ++ own, arrays, p, All) OBVIOUS
    <2>3. Multistate_Input_Read_Property(msi, n, p, All) = answer
      BY <1>1, <1>3, <2>1, <2>2 DEF Multistate_Input_Read_Property
    <2>4. Object_Read_Property(o, time, "msi", n, p, All) = {answer}
      BY <2>3, OtherReadFunctions
    <2> QED BY <2>2, <2>4
  <1>5. "present_value" \in DOMAIN own /\ own["present_value"] = << "unsigned", msi[n].value >>
    OBVIOUS
  <1>6. DOMAIN arrays = {"state_text"} OBVIOUS
  <1> HIDE DEF own, arrays
  <1>7. DOMAIN common = Everywhere \cup OfService /\ common["out_of_service"] = << "boolean", msi[n].oos >>
    <2>1. PICK name : name = Multistate_Input_Description(msi, n) OBVIOUS
    <2>2. PICK id : id = Identified("msi", n, Multistate_Input_Name(msi, n)) OBVIOUS
    <2>3. DOMAIN id = {"object_identifier", "object_name", "object_type"} BY <2>2 DEF Identified
    <2>4. DOMAIN Described(name) = {"description"} BY DEF Described
    <2>5. PICK both : both = id ++ Described(name) OBVIOUS
    <2>6. DOMAIN both = Everywhere BY <2>3, <2>4, <2>5 DEF ++, Everywhere
    <2>7. common = both ++ flagged BY <1>3, <2>1, <2>2, <2>5
    <2>8. DOMAIN common = Everywhere \cup OfService BY <1>2, <2>6, <2>7 DEF ++
    <2>9. common["out_of_service"] = flagged["out_of_service"]
      BY <1>2, <2>6, <2>7, Merged DEF Everywhere, OfService
    <2> QED BY <1>2, <2>8, <2>9
  <1>8. Reading(common ++ own, arrays, "out_of_service", All) = Ack(common["out_of_service"])
    BY <1>6, <1>7, CommonRead DEF OfService
  <1>9. Reading(common ++ own, arrays, "present_value", All) = Ack(own["present_value"])
    BY <1>5, <1>6, <1>7, OwnRead DEF Everywhere, OfService
  <1> QED BY <1>4, <1>5, <1>7, <1>8, <1>9

LEMMA Multistate_Input_Result ==
  ASSUME NEW x, Shaped("msi", x), NEW wp, Decoded(wp), wp.instance \in Indices("msi")
  PROVE  Result("msi", x, wp, Multistate_Input_Write_Property(x, wp))
  <1> DEFINE n == wp.instance
             v == wp.value[2]
  <1>0. PICK w : w = Multistate_Input_Write_Property(x, wp) OBVIOUS
  <1>1. n \in DOMAIN x /\ "value" \in DOMAIN x[n] BY FieldsOfEach DEF Shaped, Intact
  <1>2. CASE \E code : w = Refused(x, code) BY <1>0, <1>2 DEF Result
  <1>3. CASE wp.property = "present_value"
    <2>1. \/ \E code : w = Refused(x, code)
          \/ wp.value[1] = "unsigned" /\ w = Multistate_Input_Present_Value_Set(x, n, v)
      BY <1>0, <1>3, Zenon DEF Multistate_Input_Write_Property, WPValidateArgType
    <2>2. CASE wp.value[1] = "unsigned" /\ w = Multistate_Input_Present_Value_Set(x, n, v)
      <3>1. PICK r : r = [x[n] EXCEPT !.value = v] OBVIOUS
      <3>2. \/ w = Done([x EXCEPT ![n] = r]) \/ \E code : w = Refused(x, code)
        BY <2>2, <3>1 DEF Multistate_Input_Present_Value_Set
      <3>3. DOMAIN r = DOMAIN x[n] /\ r.value = v BY <1>1, <3>1
      <3>4. Expected(wp) = << "unsigned", v >> BY <1>3, <2>2, ExpectedCommand DEF Decoded
      <3> QED BY <1>0, <1>2, <1>3, <3>2, <3>3, <3>4, MultistateInputRead, FieldWritten
    <2> QED BY <1>2, <2>1, <2>2
  <1>4. CASE wp.property = "out_of_service"
    <2>1. w = OutOfServiceWritten(x, wp) BY <1>0, <1>4, Zenon DEF Multistate_Input_Write_Property
    <2>2. \A o, time : Object_Read_Property(o, time, "msi", n, "out_of_service", All)
                          = {Ack(<< "boolean", o["msi"][n].oos >>)}
      BY MultistateInputRead DEF ReadsField
    <2> QED BY <1>0, <1>4, <2>1, <2>2, ServiceWritten
  <1>5. CASE wp.property \notin {"present_value", "out_of_service"}
    <2>1. w = Refused(x, "write_access_denied")
      BY <1>0, <1>5, Zenon DEF Multistate_Input_Write_Property
    <2> QED BY <1>2, <2>1
  <1> QED BY <1>3, <1>4, <1>5

LEMMA LifeSafetyRead ==
  ASSUME NEW n
  PROVE  /\ ReadsField("lsp", n, "out_of_service", "boolean", "oos")
         /\ ReadsField("lsp", n, "mode", "enumerated", "mode")
  <1> SUFFICES ASSUME NEW o, NEW time, NEW lsp, lsp = o["lsp"]
               PROVE  /\ Object_Read_Property(o, time, "lsp", n, "out_of_service", All)
                            = {Ack(<< "boolean", lsp[n].oos >>)}
                      /\ Object_Read_Property(o, time, "lsp", n, "mode", All)
                            = {Ack(<< "enumerated", lsp[n].mode >>)}
    BY DEF ReadsField
  <1> DEFINE own ==
               [present_value |-> << "enumerated", Life_Safety_Point_Present_Value(lsp, n) >>,
                reliability |-> << "enumerated", "no_fault_detected" >>,
                mode |-> << "enumerated", lsp[n].mode >>,
                accepted_modes |-> << "enumerated", 0 .. MAX_LIFE_SAFETY_MODE - 1 >>,
                silenced |-> << "enumerated", lsp[n].silenced >>,
                operation_expected |-> << "enumerated", lsp[n].operation >>]
  <1>1. PICK flagged : flagged = Flagged(lsp[n].oos, FALSE) OBVIOUS
  <1>2. DOMAIN flagged = OfService /\ flagged["out_of_service"] = << "boolean", lsp[n].oos >>
    BY <1>1, FlagsDown
  <1>3. PICK common : common = Identified("lsp", n, Life_Safety_Point_Name(n))
                                ++ Described(Life_Safety_Point_Name(n)) ++ flagged
    OBVIOUS
  <1>4. ASSUME NEW p
        PROVE  Object_Read_Property(o, time, "lsp", n, p, All)
                  = {Reading(common ++ own, NoArrays, p, All)}
    <2>1. Life_Safety_Point_Read_Property(lsp, n, p, All) = Reading(common ++ own, NoArrays, p, All)
      BY <1>1, <1>3 DEF Life_Safety_Point_Read_Property
    <2> QED BY <2>1, OtherReadFunctions
  <1>5. "mode" \in DOMAIN own /\ own["mode"] = << "enumerated", lsp[n].mode >> OBVIOUS
  <1> HIDE DEF own
  <1>6. \A p : p \notin DOMAIN NoArrays BY DEF NoArrays
  <1>7. Reading(common ++ own, NoArrays, "out_of_service", All) = Ack(<< "boolean", lsp[n].oos >>)
    BY <1>2, <1>3, <1>6, ServiceRead
  <1>8. DOMAIN common = Everywhere \cup OfService BY <1>2, <1>3, EachHas
  <1>9. Reading(common ++ own, NoArrays, "mode", All) = Ack(own["mode"])
    BY <1>5, <1>6, <1>8, OwnRead DEF Everywhere, OfService
  <1> QED BY <1>4, <1>5, <1>7, <1>9

LEMMA Life_Safety_Point_Result ==
  ASSUME NEW x, Shaped("lsp", x), NEW wp, Decoded(wp), wp.instance \in Indices("lsp")
  PROVE  Result("lsp", x, wp, Life_Safety_Point_Write_Property(x, wp))
  <1> DEFINE n == wp.instance
             v == wp.value[2]
  <1>0. PICK w : w = Life_Safety_Point_Write_Property(x, wp) OBVIOUS
  <1>1. n \in DOMAIN x /\ "mode" \in DOMAIN x[n] BY FieldsOfEach DEF Shaped, Intact
  <1>2. CASE \E code : w = Refused(x, code) BY <1>0, <1>2 DEF Result
  <1>3. CASE wp.property = "mode"
    <2>1. \/ \E code : w = Refused(x, code)
          \/ wp.value[1] = "enumerated" /\ w = Done([x EXCEPT ![n].mode = v])
      BY <1>0, <1>3, Zenon DEF Life_Safety_Point_Write_Property, WPValidateArgType
    <2>2. CASE wp.value[1] = "enumerated" /\ w = Done([x EXCEPT ![n].mode = v])
      <3>1. PICK r : r = [x[n] EXCEPT !.mode = v] OBVIOUS
      <3>2. w = Done([x EXCEPT ![n] = r]) BY <2>2, <3>1
      <3>3. DOMAIN r = DOMAIN x[n] /\ r.mode = v BY <1>1, <3>1
      <3>4. Expected(wp) = << "enumerated", v >> BY <1>3, <2>2, ExpectedAsWritten DEF Decoded
      <3> QED BY <1>0, <1>3, <3>2, <3>3, <3>4, LifeSafetyRead, FieldWritten
    <2> QED BY <1>2, <2>1, <2>2
  <1>4. CASE wp.property = "out_of_service"
    <2>1. w = OutOfServiceWritten(x, wp) BY <1>0, <1>4, Zenon DEF Life_Safety_Point_Write_Property
    <2>2. \A o, time : Object_Read_Property(o, time, "lsp", n, "out_of_service", All)
                          = {Ack(<< "boolean", o["lsp"][n].oos >>)}
      BY LifeSafetyRead DEF ReadsField
    <2> QED BY <1>0, <1>4, <2>1, <2>2, ServiceWritten
  <1>5. CASE wp.property \notin {"mode", "out_of_service"}
    <2>1. w = Refused(x, "write_access_denied")
      BY <1>0, <1>5, Zenon DEF Life_Safety_Point_Write_Property
    <2> QED BY <1>2, <2>1
  <1> QED BY <1>3, <1>4, <1>5

-----------------------------------------------------------------------------
(* Load controls *)
\* That reading a property gives a value.
Shows(o, time, T, n, p, i, v) == Object_Read_Property(o, time, T, n, p, i) = {Ack(v)}

LEMMA LoadAnswers ==
  ASSUME NEW n, NEW o, NEW time, NEW load, load = o["lc"][n]
  PROVE  /\ Shows(o, time, "lc", n, "start_time", All, << "datetime", load.start >>)
         /\ Shows(o, time, "lc", n, "shed_duration", All, << "unsigned", load.duration >>)
         /\ Shows(o, time, "lc", n, "duty_window", All, << "unsigned", load.window >>)
         /\ Shows(o, time, "lc", n, "enable", All, << "boolean", load.enable >>)
         /\ Shows(o, time, "lc", n, "requested_shed_level", All, load.request)
         /\ \A j \in 1 .. MAX_SHED_LEVELS :
              Shows(o, time, "lc", n, "shed_levels", j, << "unsigned", load.levels[j] >>)
  <1>0. PICK lc : lc = o["lc"] OBVIOUS
  <1> DEFINE own == [present_value |-> << "enumerated", Load_Control_Present_Value(lc, n) >>,
                     status_flags |-> << "bits", << FALSE, FALSE, FALSE, FALSE >> >>,
                     event_state |-> << "enumerated", "normal" >>,
                     requested_shed_level |-> load.request,
                     expected_shed_level |-> load.expected,
                     actual_shed_level |-> load.actual,
                     start_time |-> << "datetime", load.start >>,
                     shed_duration |-> << "unsigned", load.duration >>,
                     duty_window |-> << "unsigned", load.window >>,
                     enable |-> << "boolean", load.enable >>,
                     full_duty_baseline |-> << "real", Full_Duty_Baseline >>]
             arrays == Load_Control_Arrays(load)
             mine == {"requested_shed_level", "start_time", "shed_duration", "duty_window", "enable"}
  <1>1. PICK common : common = Identified("lc", n, Load_Control_Name(n))
                                ++ Described(Load_Control_Name(n))
    OBVIOUS
  <1>2. ASSUME NEW p, NEW i
        PROVE  Object_Read_Property(o, time, "lc", n, p, i) = {Reading(common ++ own, arrays, p, i)}
    <2>1. PICK answer : answer = Reading(common ++ own, arrays, p, i) OBVIOUS
    <2>2. load = lc[n] BY <1>0
    <2>3. Load_Control_Read_Property(lc, n, p, i) = answer
      BY <1>1, <2>1, <2>2 DEF Load_Control_Read_Property
    <2>4. Object_Read_Property(o, time, "lc", n, p, i) = {answer}
      BY <1>0, <2>3, OtherReadFunctions
    <2> QED BY <2>1, <2>4
  <1>3. /\ mine \subseteq DOMAIN own /\ own["start_time"] = << "datetime", load.start >>
        /\ own["shed_duration"] = << "unsigned", load.duration >>
        /\ own["duty_window"] = << "unsigned", load.window >>
        /\ own["enable"] = << "boolean", load.enable >>
        /\ own["requested_shed_level"] = load.request
    OBVIOUS
  <1>4. /\ DOMAIN arrays = {"shed_levels", "shed_level_descriptions"}
        /\ DOMAIN arrays["shed_levels"] = 1 .. MAX_SHED_LEVELS
        /\ \A j \in 1 .. MAX_SHED_LEVELS : arrays["shed_levels"][j] = << "unsigned", load.levels[j] >>
    BY DEF Load_Control_Arrays
  <1> HIDE DEF own, arrays
  <1>5. DOMAIN common = Everywhere
    <2>1. PICK flagged : flagged = Flagged(0, FALSE) OBVIOUS
    <2>2. DOMAIN flagged = OfService BY <2>1, FlagsDown
    <2> QED BY <1>1, <2>2, EachHas
  <1>6. \A p \in mine : Reading(common ++ own, arrays, p, All) = Ack(own[p])
    BY <1>3, <1>4, <1>5, OwnRead DEF Everywhere
  <1>7. ASSUME NEW j \in 1 .. MAX_SHED_LEVELS
        PROVE  Object_Read_Property(o, time, "lc", n, "shed_levels", j)
                  = {Ack(<< "unsigned", load.levels[j] >>)}
    <2>1. j # 0 /\ j # All BY PropertiesAssumption DEF MAX_SHED_LEVELS
    <2>2. PICK scalars : scalars = common ++ own OBVIOUS
    <2>3. Reading(scalars, arrays, "shed_levels", j) = Ack(arrays["shed_levels"][j])
      BY <1>4, <2>1, Zenon DEF Reading
    <2> QED BY <1>2, <1>4, <2>2, <2>3
  <1>8. \A p \in mine : Object_Read_Property(o, time, "lc", n, p, All) = {Ack(own[p])}
    BY <1>2, <1>6
  <1>9. /\ Object_Read_Property(o, time, "lc", n, "start_time", All) = {Ack(own["start_time"])}
        /\ Object_Read_Property(o, time, "lc", n, "shed_duration", All) = {Ack(own["shed_duration"])}
        /\ Object_Read_Property(o, time, "lc", n, "duty_window", All) = {Ack(own["duty_window"])}
        /\ Object_Read_Property(o, time, "lc", n, "enable", All) = {Ack(own["enable"])}
        /\ Object_Read_Property(o, time, "lc", n, "requested_shed_level", All)
                = {Ack(own["requested_shed_level"])}
    BY <1>8
  <1> QED BY <1>3, <1>7, <1>9, Zenon DEF Shows

LEMMA LoadReads ==
  ASSUME NEW n, NEW o, NEW time
  PROVE  /\ Shows(o, time, "lc", n, "start_time", All, << "datetime", o["lc"][n].start >>)
         /\ Shows(o, time, "lc", n, "shed_duration", All, << "unsigned", o["lc"][n].duration >>)
         /\ Shows(o, time, "lc", n, "duty_window", All, << "unsigned", o["lc"][n].window >>)
         /\ Shows(o, time, "lc", n, "enable", All, << "boolean", o["lc"][n].enable >>)
         /\ Shows(o, time, "lc", n, "requested_shed_level", All, o["lc"][n].request)
         /\ \A j \in 1 .. MAX_SHED_LEVELS :
              Shows(o, time, "lc", n, "shed_levels", j, << "unsigned", o["lc"][n].levels[j] >>)
  <1>1. PICK load : load = o["lc"][n] OBVIOUS
  <1> QED BY <1>1, LoadAnswers

LEMMA LoadRead ==
  ASSUME NEW n
  PROVE  /\ ReadsField("lc", n, "start_time", "datetime", "start")
         /\ ReadsField("lc", n, "shed_duration", "unsigned", "duration")
         /\ ReadsField("lc", n, "duty_window", "unsigned", "window")
         /\ ReadsField("lc", n, "enable", "boolean", "enable")
  BY LoadReads DEF ReadsField, Shows

\* The object that is left reads as what was written.
LEMMA ObjectWritten ==
  ASSUME NEW T \in {"bi", "msi", "lsp", "lc", "tl"}, NEW x, NEW wp, NEW r, Intact(T, r),
         \/ Forgotten(wp)
         \/ \A o, time : o[T][wp.instance] = r =>
                Object_Read_Property(o, time, T, wp.instance, wp.property, IndexRead(wp))
                    = {Ack(Expected(wp))},
         NEW w, w = Done([x EXCEPT ![wp.instance] = r])
  PROVE  Result(T, x, wp, w)
  BY NotCommandable DEF Result, Holds

LEMMA Load_Control_Result ==
  ASSUME NEW x, Shaped("lc", x), NEW wp, wp.type = "lc", Decoded(wp), wp.instance \in Indices("lc")
  PROVE  Result("lc", x, wp, Load_Control_Write_Property(x, wp))
  <1> DEFINE n == wp.instance
             v == wp.value[2]
  <1>0. PICK w : w = Load_Control_Write_Property(x, wp) OBVIOUS
  <1>1. /\ n \in DOMAIN x /\ Intact("lc", x[n]) /\ Fields("lc") \subseteq DOMAIN x[n]
        /\ 1 .. MAX_SHED_LEVELS \subseteq DOMAIN x[n].levels
    BY DEF Shaped, Intact
  <1>2. CASE \E code : w = Refused(x, code) BY <1>0, <1>2 DEF Result
  <1>3. CASE wp.property = "requested_shed_level"
    <2>1. \/ \E code : w = Refused(x, code)
          \/ w = Done([x EXCEPT ![n].request = wp.value, ![n].requestWritten = TRUE])
      BY <1>0, <1>3, Zenon DEF Load_Control_Write_Property
    <2>2. CASE w = Done([x EXCEPT ![n].request = wp.value, ![n].requestWritten = TRUE])
      <3>1. PICK r : r = [x[n] EXCEPT !.request = wp.value, !.requestWritten = TRUE] OBVIOUS
      <3>2. w = Done([x EXCEPT ![n] = r]) BY <1>1, <2>2, <3>1
      <3>3. DOMAIN r = DOMAIN x[n] /\ r.request = wp.value /\ r.levels = x[n].levels
        BY <1>1, <3>1, FieldsOfEach
      <3>4. Intact("lc", r) BY <1>1, <3>3, NotCommandable DEF Intact
      <3>5. Expected(wp) = wp.value /\ IndexRead(wp) = All
        BY <1>3, ExpectedAsWritten DEF IndexRead
      <3>6. ASSUME NEW o, NEW time, o["lc"][n] = r
            PROVE  Object_Read_Property(o, time, "lc", n, wp.property, IndexRead(wp))
                      = {Ack(Expected(wp))}
        <4>1. Shows(o, time, "lc", n, "requested_shed_level", All, r.request)
          BY <3>6, LoadReads
        <4> QED BY <1>3, <3>3, <3>5, <4>1 DEF Shows
      <3> QED BY <1>0, <3>2, <3>4, <3>6, ObjectWritten
    <2> QED BY <1>2, <2>1, <2>2
  <1>4. CASE wp.property = "start_time"
    <2>1. PICK r : r = [x[n] EXCEPT !.start = v, !.startWritten = TRUE] OBVIOUS
    <2>2. w = Written(x, wp, "datetime", r)
      BY <1>0, <1>4, <2>1, Zenon DEF Load_Control_Write_Property
    <2>3. \/ \E code : w = Refused(x, code)
          \/ wp.value[1] = "datetime" /\ w = Done([x EXCEPT ![n] = r])
      BY <2>2 DEF Written, WPValidateArgType
    <2>4. DOMAIN r = DOMAIN x[n] /\ r.start = v /\ r.levels = x[n].levels
      BY <1>1, <2>1, FieldsOfEach
    <2>5. wp.value[1] = "datetime" => Expected(wp) = << "datetime", v >>
      BY <1>4, ExpectedAsWritten DEF Decoded
    <2> QED BY <1>0, <1>2, <1>4, <2>3, <2>4, <2>5, LoadRead, FieldWritten
  <1>5. CASE wp.property = "shed_duration"
    <2>1. PICK r : r = [x[n] EXCEPT !.duration = v, !.requestWritten = TRUE] OBVIOUS
    <2>2. w = Written(x, wp, "unsigned", r)
      BY <1>0, <1>5, <2>1, Zenon DEF Load_Control_Write_Property
    <2>3. \/ \E code : w = Refused(x, code)
          \/ wp.value[1] = "unsigned" /\ w = Done([x EXCEPT ![n] = r])
      BY <2>2 DEF Written, WPValidateArgType
    <2>4. DOMAIN r = DOMAIN x[n] /\ r.duration = v /\ r.levels = x[n].levels
      BY <1>1, <2>1, FieldsOfEach
    <2>5. wp.value[1] = "unsigned" => Expected(wp) = << "unsigned", v >>
      BY <1>5, ExpectedAsWritten DEF Decoded
    <2> QED BY <1>0, <1>2, <1>5, <2>3, <2>4, <2>5, LoadRead, FieldWritten
  <1>6. CASE wp.property = "duty_window"
    <2>1. PICK r : r = [x[n] EXCEPT !.window = v, !.requestWritten = TRUE] OBVIOUS
    <2>2. w = Written(x, wp, "unsigned", r)
      BY <1>0, <1>6, <2>1, Zenon DEF Load_Control_Write_Property
    <2>3. \/ \E code : w = Refused(x, code)
          \/ wp.value[1] = "unsigned" /\ w = Done([x EXCEPT ![n] = r])
      BY <2>2 DEF Written, WPValidateArgType
    <2>4. DOMAIN r = DOMAIN x[n] /\ r.window = v /\ r.levels = x[n].levels
      BY <1>1, <2>1, FieldsOfEach
    <2>5. wp.value[1] = "unsigned" => Expected(wp) = << "unsigned", v >>
      BY <1>6, ExpectedAsWritten DEF Decoded
    <2> QED BY <1>0, <1>2, <1>6, <2>3, <2>4, <2>5, LoadRead, FieldWritten
  <1>7. CASE wp.property = "enable"
    <2>1. PICK r : r = [x[n] EXCEPT !.enable = v] OBVIOUS
    <2>2. w = Written(x, wp, "boolean", r)
      BY <1>0, <1>7, <2>1, Zenon DEF Load_Control_Write_Property
    <2>3. \/ \E code : w = Refused(x, code)
          \/ wp.value[1] = "boolean" /\ w = Done([x EXCEPT ![n] = r])
      BY <2>2 DEF Written, WPValidateArgType
    <2>4. DOMAIN r = DOMAIN x[n] /\ r.enable = v /\ r.levels = x[n].levels
      BY <1>1, <2>1, FieldsOfEach
    <2>5. wp.value[1] = "boolean" => Expected(wp) = << "boolean", v >>
      BY <1>7, ExpectedAsWritten DEF Decoded
    <2> QED BY <1>0, <1>2, <1>7, <2>3, <2>4, <2>5, LoadRead, FieldWritten
  <1>8. CASE wp.property = "shed_levels"
    <2>1. w = ShedLevelWritten(x, wp) BY <1>0, <1>8, Zenon DEF Load_Control_Write_Property
    <2>2. \/ \E code : w = Refused(x, code)
          \/ wp.index = All /\ w = Done(x)
          \/ /\ wp.value[1] = "unsigned" /\ wp.index # 0 /\ wp.index # All
             /\ ~(wp.index > MAX_SHED_LEVELS)
             /\ w = Done([x EXCEPT ![n].levels[wp.index] = v])
      BY <2>1 DEF ShedLevelWritten, WPValidateArgType
    <2>3. CASE wp.index = All /\ w = Done(x)
      <3>1. x = [x EXCEPT ![n] = x[n]] BY <1>1 DEF Shaped
      <3>2. Forgotten(wp) BY <1>8, <2>3 DEF Forgotten
      <3>3. w = Done([x EXCEPT ![n] = x[n]]) BY <2>3, <3>1
      <3> QED BY <1>0, <1>1, <3>2, <3>3, ObjectWritten
    <2>4. CASE /\ wp.value[1] = "unsigned" /\ wp.index # 0 /\ wp.index # All
               /\ ~(wp.index > MAX_SHED_LEVELS)
               /\ w = Done([x EXCEPT ![n].levels[wp.index] = v])
      <3>1. PICK r : r = [x[n] EXCEPT !.levels[wp.index] = v] OBVIOUS
      <3>2. w = Done([x EXCEPT ![n] = r]) BY <2>4, <3>1
      <3>3. wp.index \in 1 .. MAX_SHED_LEVELS BY <2>4 DEF Decoded, MAX_SHED_LEVELS
      <3>4. "levels" \in DOMAIN x[n] BY <1>1, FieldsOfEach
      <3>5. /\ DOMAIN r = DOMAIN x[n] /\ DOMAIN r.levels = DOMAIN x[n].levels
            /\ r.levels[wp.index] = v
        BY <1>1, <3>1, <3>3, <3>4
      <3>6. Intact("lc", r) BY <1>1, <3>5, NotCommandable DEF Intact
      <3>7. Expected(wp) = << "unsigned", v >> /\ IndexRead(wp) = wp.index
        BY <1>8, <2>4, ExpectedAsWritten DEF Decoded, IndexRead
      <3>8. ASSUME NEW o, NEW time, o["lc"][n] = r
            PROVE  Object_Read_Property(o, time, "lc", n, wp.property, IndexRead(wp))
                      = {Ack(Expected(wp))}
        <4>0. PICK j \in 1 .. MAX_SHED_LEVELS : j = wp.index BY <3>3
        <4>1. Shows(o, time, "lc", n, "shed_levels", j, << "unsigned", o["lc"][n].levels[j] >>)
          BY LoadReads
        <4>2. Expected(wp) = << "unsigned", r.levels[wp.index] >> BY <3>5, <3>7
        <4> QED BY <1>8, <3>7, <3>8, <4>0, <4>1, <4>2, Zenon DEF Shows
      <3> QED BY <1>0, <3>2, <3>6, <3>8, ObjectWritten
    <2> QED BY <1>2, <2>2, <2>3, <2>4
  <1>9. CASE wp.property \notin {"requested_shed_level", "start_time", "shed_duration",
                                 "duty_window", "shed_levels", "enable"}
    <2>1. w = Refused(x, "write_access_denied")
      BY <1>0, <1>9, Zenon DEF Load_Control_Write_Property
    <2> QED BY <1>2, <2>1
  <1> QED BY <1>3, <1>4, <1>5, <1>6, <1>7, <1>8, <1>9

-----------------------------------------------------------------------------
(* Trend logs *)
LEMMA LogAnswers ==
  ASSUME NEW n, NEW o, NEW time, NEW log, log = o["tl"][n]
  PROVE  /\ Shows(o, time, "tl", n, "enable", All, << "boolean", log.enable >>)
         /\ Shows(o, time, "tl", n, "stop_when_full", All, << "boolean", log.stopWhenFull >>)
         /\ Shows(o, time, "tl", n, "logging_type", All, << "enumerated", log.type >>)
         /\ Shows(o, time, "tl", n, "start_time", All, << "datetime", log.start >>)
         /\ Shows(o, time, "tl", n, "stop_time", All, << "datetime", log.stop >>)
         /\ Shows(o, time, "tl", n, "log_device_object_property", All, << "reference", log.source >>)
         /\ Shows(o, time, "tl", n, "log_interval", All, << "unsigned", log.interval * 100 >>)
         /\ Shows(o, time, "tl", n, "align_intervals", All, << "boolean", log.aligned >>)
         /\ Shows(o, time, "tl", n, "interval_offset", All, << "unsigned", log.offset * 100 >>)
         /\ Shows(o, time, "tl", n, "trigger", All, << "boolean", log.trigger >>)
  <1>0. PICK tl : tl = o["tl"] OBVIOUS
  <1> DEFINE own == [enable |-> << "boolean", log.enable >>,
                     stop_when_full |-> << "boolean", log.stopWhenFull >>,
                     buffer_size |-> << "unsigned", TL_MAX_ENTRIES >>,
                     record_count |-> << "unsigned", log.count >>,
                     total_record_count |-> << "unsigned", log.total >>,
                     event_state |-> << "enumerated", "normal" >>,
                     logging_type |-> << "enumerated", log.type >>,
                     status_flags |-> << "bits", AllClear >>,
                     start_time |-> << "datetime", log.start >>,
                     stop_time |-> << "datetime", log.stop >>,
                     log_device_object_property |-> << "reference", log.source >>,
                     log_interval |-> << "unsigned", log.interval * 100 >>,
                     align_intervals |-> << "boolean", log.aligned >>,
                     interval_offset |-> << "unsigned", log.offset * 100 >>,
                     trigger |-> << "boolean", log.trigger >>]
             mine == {"enable", "stop_when_full", "logging_type", "start_time", "stop_time",
                      "log_device_object_property", "log_interval", "align_intervals",
                      "interval_offset", "trigger"}
  <1>1. PICK common : common = Identified("tl", n, Trend_Log_Name(n)) ++ Described(Trend_Log_Name(n))
    OBVIOUS
  <1>2. ASSUME NEW p \in mine
        PROVE  Object_Read_Property(o, time, "tl", n, p, All)
                  = {Reading(common ++ own, NoArrays, p, All)}
    <2>1. PICK answer : answer = Reading(common ++ own, NoArrays, p, All) OBVIOUS
    <2>2. log = tl[n] /\ p # "log_buffer" BY <1>0
    <2>3. Trend_Log_Read_Property(tl, n, p, All) = answer
      BY <1>1, <2>1, <2>2, Zenon DEF Trend_Log_Read_Property
    <2>4. Object_Read_Property(o, time, "tl", n, p, All) = {answer}
      BY <1>0, <2>3, OtherReadFunctions
    <2> QED BY <2>1, <2>4
  <1>3. /\ mine \subseteq DOMAIN own /\ own["enable"] = << "boolean", log.enable >>
        /\ own["stop_when_full"] = << "boolean", log.stopWhenFull >>
        /\ own["logging_type"] = << "enumerated", log.type >>
        /\ own["start_time"] = << "datetime", log.start >>
        /\ own["stop_time"] = << "datetime", log.stop >>
        /\ own["log_device_object_property"] = << "reference", log.source >>
        /\ own["log_interval"] = << "unsigned", log.interval * 100 >>
        /\ own["align_intervals"] = << "boolean", log.aligned >>
        /\ own["interval_offset"] = << "unsigned", log.offset * 100 >>
        /\ own["trigger"] = << "boolean", log.trigger >>
    OBVIOUS
  <1> HIDE DEF own
  <1>4. DOMAIN common = Everywhere
    <2>1. PICK flagged : flagged = Flagged(0, FALSE) OBVIOUS
    <2>2. DOMAIN flagged = OfService BY <2>1, FlagsDown
    <2> QED BY <1>1, <2>2, EachHas
  <1>5. \A p : p \notin DOMAIN NoArrays BY DEF NoArrays
  <1>6. \A p \in mine : Reading(common ++ own, NoArrays, p, All) = Ack(own[p])
    BY <1>3, <1>4, <1>5, OwnRead DEF Everywhere
  <1>7. \A p \in mine : Object_Read_Property(o, time, "tl", n, p, All) = {Ack(own[p])}
    BY <1>2, <1>6
  <1>8. \A p \in {"enable", "stop_when_full", "logging_type", "start_time"} :
            Object_Read_Property(o, time, "tl", n, p, All) = {Ack(own[p])}
    BY <1>7
  <1>9. \A p \in {"stop_time", "log_device_object_property", "log_interval", "align_intervals",
                  "interval_offset", "trigger"} :
            Object_Read_Property(o, time, "tl", n, p, All) = {Ack(own[p])}
    BY <1>7
  <1> HIDE DEF mine
  <1> QED BY <1>3, <1>8, <1>9, Zenon DEF Shows

LEMMA LogRead ==
  ASSUME NEW n
  PROVE  /\ ReadsField("tl", n, "enable", "boolean", "enable")
         /\ ReadsField("tl", n, "stop_when_full", "boolean", "stopWhenFull")
         /\ ReadsField("tl", n, "logging_type", "enumerated", "type")
         /\ ReadsField("tl", n, "start_time", "datetime", "start")
         /\ ReadsField("tl", n, "stop_time", "datetime", "stop")
         /\ ReadsField("tl", n, "log_device_object_property", "reference", "source")
         /\ ReadsField("tl", n, "align_intervals", "boolean", "aligned")
         /\ ReadsField("tl", n, "trigger", "boolean", "trigger")
         /\ \A o, time : Object_Read_Property(o, time, "tl", n, "log_interval", All)
                            = {Ack(<< "unsigned", o["tl"][n].interval * 100 >>)}
         /\ \A o, time : Object_Read_Property(o, time, "tl", n, "interval_offset", All)
                            = {Ack(<< "unsigned", o["tl"][n].offset * 100 >>)}
  <1>1. ASSUME NEW o, NEW time
        PROVE  /\ Shows(o, time, "tl", n, "log_interval", All, << "unsigned", o["tl"][n].interval * 100 >>)
               /\ Shows(o, time, "tl", n, "interval_offset", All, << "unsigned", o["tl"][n].offset * 100 >>)
    <2>1. PICK log : log = o["tl"][n] OBVIOUS
    <2> QED BY <2>1, LogAnswers
  <1>2. ReadsField("tl", n, "enable", "boolean", "enable")
    <2>1. ASSUME NEW o, NEW time, NEW log, log = o["tl"][n]
          PROVE  Shows(o, time, "tl", n, "enable", All, << "boolean", log.enable >>)
      BY <2>1, LogAnswers
    <2> QED BY <2>1 DEF ReadsField, Shows
  <1>3. ReadsField("tl", n, "stop_when_full", "boolean", "stopWhenFull")
    <2>1. ASSUME NEW o, NEW time, NEW log, log = o["tl"][n]
          PROVE  Shows(o, time, "tl", n, "stop_when_full", All, << "boolean", log.stopWhenFull >>)
      BY <2>1, LogAnswers
    <2> QED BY <2>1 DEF ReadsField, Shows
  <1>4. ReadsField("tl", n, "logging_type", "enumerated", "type")
    <2>1. ASSUME NEW o, NEW time, NEW log, log = o["tl"][n]
          PROVE  Shows(o, time, "tl", n, "logging_type", All, << "enumerated", log.type >>)
      BY <2>1, LogAnswers
    <2> QED BY <2>1 DEF ReadsField, Shows
  <1>5. ReadsField("tl", n, "start_time", "datetime", "start")
    <2>1. ASSUME NEW o, NEW time, NEW log, log = o["tl"][n]
          PROVE  Shows(o, time, "tl", n, "start_time", All, << "datetime", log.start >>)
      BY <2>1, LogAnswers
    <2> QED BY <2>1 DEF ReadsField, Shows
  <1>6. ReadsField("tl", n, "stop_time", "datetime", "stop")
    <2>1. ASSUME NEW o, NEW time, NEW log, log = o["tl"][n]
          PROVE  Shows(o, time, "tl", n, "stop_time", All, << "datetime", log.stop >>)
      BY <2>1, LogAnswers
    <2> QED BY <2>1 DEF ReadsField, Shows
  <1>7. ReadsField("tl", n, "log_device_object_property", "reference", "source")
    <2>1. ASSUME NEW o, NEW time, NEW log, log = o["tl"][n]
          PROVE  Shows(o, time, "tl", n, "log_device_object_property", All, << "reference", log.source >>)
      BY <2>1, LogAnswers
    <2> QED BY <2>1 DEF ReadsField, Shows
  <1>8. ReadsField("tl", n, "align_intervals", "boolean", "aligned")
    <2>1. ASSUME NEW o, NEW time, NEW log, log = o["tl"][n]
          PROVE  Shows(o, time, "tl", n, "align_intervals", All, << "boolean", log.aligned >>)
      BY <2>1, LogAnswers
    <2> QED BY <2>1 DEF ReadsField, Shows
  <1>9. ReadsField("tl", n, "trigger", "boolean", "trigger")
    <2>1. ASSUME NEW o, NEW time, NEW log, log = o["tl"][n]
          PROVE  Shows(o, time, "tl", n, "trigger", All, << "boolean", log.trigger >>)
      BY <2>1, LogAnswers
    <2> QED BY <2>1 DEF ReadsField, Shows
  <1> QED BY <1>1, <1>2, <1>3, <1>4, <1>5, <1>6, <1>7, <1>8, <1>9 DEF Shows

\* A record that is made leaves what peers write as it is.
Settings == Fields("tl")
LEMMA RecordedKeeps ==
  ASSUME NEW log, Settings \subseteq DOMAIN log, NEW record
  PROVE  /\ DOMAIN Recorded(log, record) = DOMAIN log
         /\ \A f \in Settings : Recorded(log, record)[f] = log[f]
  BY FieldsOfEach DEF Recorded, Settings

LEMMA SwitchedKeeps ==
  ASSUME NEW before, NEW after, Settings \subseteq DOMAIN after, NEW time
  PROVE  /\ DOMAIN Switched(before, after, time) = DOMAIN after
         /\ \A f \in Settings : Switched(before, after, time)[f] = after[f]
  <1>1. PICK kept : kept = Switched(before, after, time) OBVIOUS
  <1>2. \/ kept = after \/ \E record : kept = Recorded(after, record)
    BY <1>1 DEF Switched, TL_Insert_Status_Rec
  <1> QED BY <1>1, <1>2, RecordedKeeps

LEMMA PurgedKeeps ==
  ASSUME NEW log, Settings \subseteq DOMAIN log, NEW time
  PROVE  /\ DOMAIN Purged(log, time) = DOMAIN log
         /\ \A f \in Settings : Purged(log, time)[f] = log[f]
  <1>1. PICK empty : empty = [log EXCEPT !.count = 0, !.index = 0, !.history = << >>] OBVIOUS
  <1>2. DOMAIN empty = DOMAIN log /\ \A f \in Settings : empty[f] = log[f]
    BY <1>1, FieldsOfEach DEF Settings
  <1>3. \E record : Purged(log, time) = Recorded(empty, record)
    BY <1>1 DEF Purged, TL_Insert_Status_Rec
  <1> QED BY <1>2, <1>3, RecordedKeeps

\* A log is left as it was, or has the value.
LogResult(log, wp, w) ==
    \/ \E code : w = Refused(log, code)
    \/ \E r : w = Done(r) /\ Settings \subseteq DOMAIN r /\ Holds("tl", r, wp)

LEMMA SettingWritten ==
  ASSUME NEW log, NEW wp, wp.property # "shed_levels", NEW r, Settings \subseteq DOMAIN r,
         NEW tag, NEW f, ReadsField("tl", wp.instance, wp.property, tag, f),
         Expected(wp) = << tag, r[f] >>, NEW w, w = Done(r)
  PROVE  LogResult(log, wp, w)
  <1>1. ASSUME NEW o, NEW time, o["tl"][wp.instance] = r
        PROVE  Object_Read_Property(o, time, "tl", wp.instance, wp.property, IndexRead(wp))
                  = {Ack(Expected(wp))}
    <2>1. IndexRead(wp) = All BY DEF IndexRead
    <2> QED BY <1>1, <2>1 DEF ReadsField
  <1>2. Holds("tl", r, wp) BY <1>1, NotCommandable DEF Holds
  <1> QED BY <1>2 DEF LogResult

LEMMA EnableResult ==
  ASSUME NEW log, Settings \subseteq DOMAIN log, NEW wp, Decoded(wp), wp.property = "enable",
         wp.value[1] = "boolean", NEW time
  PROVE  LogResult(log, wp, EnableWritten(log, wp.value[2], time))
  <1> DEFINE v == wp.value[2]
  <1>0. PICK w : w = EnableWritten(log, v, time) OBVIOUS
  <1>1. PICK after : after = [log EXCEPT !.enable = v] OBVIOUS
  <1>2. PICK r : r = Switched(log, after, time) OBVIOUS
  <1>3. \/ \E code : w = Refused(log, code) \/ w = Done(r)
    BY <1>0, <1>1, <1>2 DEF EnableWritten
  <1>4. "enable" \in Settings BY FieldsOfEach DEF Settings
  <1>5. Settings \subseteq DOMAIN after /\ after["enable"] = v BY <1>1, <1>4
  <1>6. Settings \subseteq DOMAIN r /\ r["enable"] = v BY <1>2, <1>4, <1>5, SwitchedKeeps
  <1>7. Expected(wp) = << "boolean", v >> BY ExpectedAsWritten DEF Decoded
  <1>8. CASE w = Done(r) BY <1>0, <1>6, <1>7, <1>8, LogRead, SettingWritten
  <1>9. CASE \E code : w = Refused(log, code) BY <1>0, <1>9 DEF LogResult
  <1> QED BY <1>3, <1>8, <1>9

LEMMA StopWhenFullResult ==
  ASSUME NEW log, Settings \subseteq DOMAIN log, NEW wp, Decoded(wp),
         wp.property = "stop_when_full", wp.value[1] = "boolean", NEW time
  PROVE  LogResult(log, wp, Done(StopWhenFullWritten(log, wp.value[2], time)))
  <1> DEFINE v == wp.value[2]
  <1>1. PICK r : r = StopWhenFullWritten(log, v, time) OBVIOUS
  <1>2. PICK stopping : stopping = [log EXCEPT !.stopWhenFull = v] OBVIOUS
  <1>3. PICK stopped : stopped = [stopping EXCEPT !.enable = FALSE] OBVIOUS
  <1>4. "stopWhenFull" \in Settings BY FieldsOfEach DEF Settings
  <1>5. /\ Settings \subseteq DOMAIN stopping /\ stopping["stopWhenFull"] = v
        /\ Settings \subseteq DOMAIN stopped /\ stopped["stopWhenFull"] = v
    BY <1>2, <1>3, <1>4
  <1>6. r = stopping \/ \E record : r = Recorded(stopped, record)
    BY <1>1, <1>2, <1>3 DEF StopWhenFullWritten, TL_Insert_Status_Rec
  <1>7. Settings \subseteq DOMAIN r /\ r["stopWhenFull"] = v BY <1>4, <1>5, <1>6, RecordedKeeps
  <1>8. Expected(wp) = << "boolean", v >> BY ExpectedAsWritten DEF Decoded
  <1> QED BY <1>1, <1>7, <1>8, LogRead, SettingWritten

LEMMA SourceResult ==
  ASSUME NEW log, Settings \subseteq DOMAIN log, NEW wp, Decoded(wp),
         wp.property = "log_device_object_property", NEW device, NEW time
  PROVE  LogResult(log, wp, SourceWritten(log, wp, device, time))
  <1>0. PICK w : w = SourceWritten(log, wp, device, time) OBVIOUS
  <1>1. PICK source : source = SubSeq(wp.value[2], 1, 4) OBVIOUS
  <1>2. PICK from : from = IF source # log.source THEN Purged(log, time) ELSE log OBVIOUS
  <1>3. PICK r : r = [from EXCEPT !.source = source] OBVIOUS
  <1>4. \/ \E code : w = Refused(log, code)
        \/ wp.value[1] = "reference" /\ w = Done(r)
    BY <1>0, <1>1, <1>2, <1>3 DEF SourceWritten
  <1>5. Settings \subseteq DOMAIN from BY <1>2, PurgedKeeps
  <1>6. "source" \in Settings BY FieldsOfEach DEF Settings
  <1>7. Settings \subseteq DOMAIN r /\ r["source"] = source BY <1>3, <1>5, <1>6
  <1>8. Expected(wp) = << "reference", source >> BY <1>1, Zenon DEF Expected
  <1>9. CASE w = Done(r) BY <1>0, <1>7, <1>8, <1>9, LogRead, SettingWritten
  <1>10. CASE \E code : w = Refused(log, code) BY <1>0, <1>10 DEF LogResult
  <1> QED BY <1>4, <1>9, <1>10

\* Settings of which only the one that is written changes.
LEMMA PlainResult ==
  ASSUME NEW log, Settings \subseteq DOMAIN log, NEW wp, wp.property # "shed_levels", NEW tag,
         NEW f \in Settings, ReadsField("tl", wp.instance, wp.property, tag, f),
         Expected(wp) = << tag, wp.value[2] >>, NEW time, NEW r,
         LET after == [log EXCEPT ![f] = wp.value[2]]
         IN  r = after \/ r = Switched(log, after, time)
  PROVE  LogResult(log, wp, Done(r))
  <1>1. PICK after : after = [log EXCEPT ![f] = wp.value[2]] OBVIOUS
  <1>2. Settings \subseteq DOMAIN after /\ after[f] = wp.value[2] BY <1>1
  <1>3. r = after \/ r = Switched(log, after, time) BY <1>1
  <1>4. CASE r = Switched(log, after, time)
    <2>1. DOMAIN r = DOMAIN after /\ r[f] = after[f] BY <1>2, <1>4, SwitchedKeeps
    <2> QED BY <1>2, <2>1, SettingWritten
  <1>5. CASE r = after BY <1>2, <1>5, SettingWritten
  <1> QED BY <1>3, <1>4, <1>5

LEMMA LogWrittenResult ==
  ASSUME NEW log, Settings \subseteq DOMAIN log, NEW wp, wp.type = "tl", Decoded(wp),
         NEW device, NEW time
  PROVE  LogResult(log, wp, LogWritten(log, wp, device, time))
  <1> DEFINE v == wp.value[2]
             n == wp.instance
  <1>0. PICK w : w = LogWritten(log, wp, device, time) OBVIOUS
  <1>1. CASE \E code : w = Refused(log, code) BY <1>0, <1>1 DEF LogResult
  <1>2. {"enable", "stopWhenFull", "type", "interval", "aligned", "offset", "trigger", "start",
         "stop"} \subseteq Settings
    BY FieldsOfEach DEF Settings
  <1>3. CASE wp.property = "enable"
    <2>1. \/ \E code : w = Refused(log, code)
          \/ wp.value[1] = "boolean" /\ w = EnableWritten(log, v, time)
      BY <1>0, <1>3, Zenon DEF LogWritten, WPValidateArgType
    <2> QED BY <1>0, <1>1, <1>3, <2>1, EnableResult
  <1>4. CASE wp.property = "stop_when_full"
    <2>1. \/ \E code : w = Refused(log, code)
          \/ wp.value[1] = "boolean" /\ w = Done(StopWhenFullWritten(log, v, time))
      BY <1>0, <1>4, Zenon DEF LogWritten, WPValidateArgType
    <2> QED BY <1>0, <1>1, <1>4, <2>1, StopWhenFullResult
  <1>5. CASE wp.property = "record_count"
    <2>1. PICK r : r = IF v = 0 THEN Purged(log, time) ELSE log OBVIOUS
    <2>2. \/ \E code : w = Refused(log, code) \/ w = Done(r)
      BY <1>0, <1>5, <2>1, Zenon DEF LogWritten, WPValidateArgType
    <2>3. Settings \subseteq DOMAIN r BY <2>1, PurgedKeeps
    <2>4. Holds("tl", r, wp) BY <1>5 DEF Holds, Forgotten
    <2> QED BY <1>0, <1>1, <2>2, <2>3, <2>4 DEF LogResult
  <1>6. CASE wp.property = "logging_type"
    <2>1. PICK r : r = TypeWritten(log, v) OBVIOUS
    <2>2. \/ \E code : w = Refused(log, code)
          \/ wp.value[1] = "enumerated" /\ w = Done(r)
      BY <1>0, <1>6, <2>1, Zenon DEF LogWritten, WPValidateArgType
    <2>3. DOMAIN r = DOMAIN log /\ r["type"] = v BY <1>2, <2>1 DEF TypeWritten
    <2>4. wp.value[1] = "enumerated" => Expected(wp) = << "enumerated", v >>
      BY <1>6, ExpectedAsWritten DEF Decoded
    <2>5. CASE wp.value[1] = "enumerated" /\ w = Done(r)
      BY <1>0, <1>6, <2>3, <2>4, <2>5, LogRead, SettingWritten
    <2> QED BY <1>1, <2>2, <2>5
  <1>7. CASE wp.property = "start_time"
    <2>1. PICK r : r = Switched(log, [log EXCEPT !.start = v], time) OBVIOUS
    <2>2. \/ \E code : w = Refused(log, code)
          \/ wp.value[1] = "datetime" /\ w = Done(r)
      BY <1>0, <1>7, <2>1, Zenon DEF LogWritten, WPValidateArgType
    <2>3. wp.value[1] = "datetime" => Expected(wp) = << "datetime", v >>
      BY <1>7, ExpectedAsWritten DEF Decoded
    <2>4. ReadsField("tl", n, wp.property, "datetime", "start") BY <1>7, LogRead
    <2>5. CASE wp.value[1] = "datetime" /\ w = Done(r)
      BY <1>0, <1>2, <1>7, <2>1, <2>3, <2>4, <2>5, PlainResult
    <2> QED BY <1>1, <2>2, <2>5
  <1>8. CASE wp.property = "stop_time"
    <2>1. PICK r : r = Switched(log, [log EXCEPT !.stop = v], time) OBVIOUS
    <2>2. \/ \E code : w = Refused(log, code)
          \/ wp.value[1] = "datetime" /\ w = Done(r)
      BY <1>0, <1>8, <2>1, Zenon DEF LogWritten, WPValidateArgType
    <2>3. wp.value[1] = "datetime" => Expected(wp) = << "datetime", v >>
      BY <1>8, ExpectedAsWritten DEF Decoded
    <2>4. ReadsField("tl", n, wp.property, "datetime", "stop") BY <1>8, LogRead
    <2>5. CASE wp.value[1] = "datetime" /\ w = Done(r)
      BY <1>0, <1>2, <1>8, <2>1, <2>3, <2>4, <2>5, PlainResult
    <2> QED BY <1>1, <2>2, <2>5
  <1>9. CASE wp.property = "log_device_object_property"
    <2>1. w = SourceWritten(log, wp, device, time) BY <1>0, <1>9, Zenon DEF LogWritten
    <2> QED BY <1>0, <1>9, <2>1, SourceResult
  <1>10. CASE wp.property = "log_interval"
    <2>1. PICK r : r = [log EXCEPT !.interval = v \div 100] OBVIOUS
    <2>2. \/ \E code : w = Refused(log, code)
          \/ wp.value[1] = "unsigned" /\ w = Done(r)
      BY <1>0, <1>10, <2>1, Zenon DEF LogWritten, WPValidateArgType
    <2>3. CASE wp.value[1] = "unsigned" /\ w = Done(r)
      <3>1. DOMAIN r = DOMAIN log /\ r.interval = v \div 100 BY <1>2, <2>1
      <3>2. Expected(wp) = << "unsigned", v - (v % 100) >> BY <1>10, Zenon DEF Expected
      <3>3. v - (v % 100) = (v \div 100) * 100 BY <2>3 DEF Decoded
      <3>4. Holds("tl", r, wp)
        <4>1. ASSUME NEW o, NEW at, o["tl"][n] = r
              PROVE  Object_Read_Property(o, at, "tl", n, wp.property, IndexRead(wp))
                        = {Ack(Expected(wp))}
          <5>1. Object_Read_Property(o, at, "tl", n, "log_interval", All)
                    = {Ack(<< "unsigned", o["tl"][n].interval * 100 >>)}
            BY LogRead
          <5>2. IndexRead(wp) = All BY <1>10 DEF IndexRead
          <5>3. o["tl"][n].interval * 100 = v - (v % 100) BY <3>1, <3>3, <4>1
          <5> QED BY <1>10, <3>2, <5>1, <5>2, <5>3
        <4> QED BY <4>1, NotCommandable DEF Holds
      <3> QED BY <1>0, <2>3, <3>1, <3>4 DEF LogResult
    <2> QED BY <1>1, <2>2, <2>3
  <1>11. CASE wp.property = "align_intervals"
    <2>1. PICK r : r = [log EXCEPT !.aligned = v] OBVIOUS
    <2>2. \/ \E code : w = Refused(log, code)
          \/ wp.value[1] = "boolean" /\ w = Done(r)
      BY <1>0, <1>11, <2>1, Zenon DEF LogWritten, WPValidateArgType
    <2>3. wp.value[1] = "boolean" => Expected(wp) = << "boolean", v >>
      BY <1>11, ExpectedAsWritten DEF Decoded
    <2>4. ReadsField("tl", n, wp.property, "boolean", "aligned") BY <1>11, LogRead
    <2>5. CASE wp.value[1] = "boolean" /\ w = Done(r)
      BY <1>0, <1>2, <1>11, <2>1, <2>3, <2>4, <2>5, PlainResult
    <2> QED BY <1>1, <2>2, <2>5
  <1>12. CASE wp.property = "interval_offset"
    <2>1. PICK r : r = [log EXCEPT !.offset = v \div 100] OBVIOUS
    <2>2. \/ \E code : w = Refused(log, code)
          \/ wp.value[1] = "unsigned" /\ w = Done(r)
      BY <1>0, <1>12, <2>1, Zenon DEF LogWritten, WPValidateArgType
    <2>3. CASE wp.value[1] = "unsigned" /\ w = Done(r)
      <3>1. DOMAIN r = DOMAIN log /\ r.offset = v \div 100 BY <1>2, <2>1
      <3>2. Expected(wp) = << "unsigned", v - (v % 100) >> BY <1>12, Zenon DEF Expected
      <3>3. v - (v % 100) = (v \div 100) * 100 BY <2>3 DEF Decoded
      <3>4. Holds("tl", r, wp)
        <4>1. ASSUME NEW o, NEW at, o["tl"][n] = r
              PROVE  Object_Read_Property(o, at, "tl", n, wp.property, IndexRead(wp))
                        = {Ack(Expected(wp))}
          <5>1. Object_Read_Property(o, at, "tl", n, "interval_offset", All)
                    = {Ack(<< "unsigned", o["tl"][n].offset * 100 >>)}
            BY LogRead
          <5>2. IndexRead(wp) = All BY <1>12 DEF IndexRead
          <5>3. o["tl"][n].offset * 100 = v - (v % 100) BY <3>1, <3>3, <4>1
          <5> QED BY <1>12, <3>2, <5>1, <5>2, <5>3
        <4> QED BY <4>1, NotCommandable DEF Holds
      <3> QED BY <1>0, <2>3, <3>1, <3>4 DEF LogResult
    <2> QED BY <1>1, <2>2, <2>3
  <1>13. CASE wp.property = "trigger"
    <2>1. PICK r : r = [log EXCEPT !.trigger = v] OBVIOUS
    <2>2. \/ \E code : w = Refused(log, code)
          \/ wp.value[1] = "boolean" /\ w = Done(r)
      BY <1>0, <1>13, <2>1, Zenon DEF LogWritten, WPValidateArgType
    <2>3. wp.value[1] = "boolean" => Expected(wp) = << "boolean", v >>
      BY <1>13, ExpectedAsWritten DEF Decoded
    <2>4. ReadsField("tl", n, wp.property, "boolean", "trigger") BY <1>13, LogRead
    <2>5. CASE wp.value[1] = "boolean" /\ w = Done(r)
      BY <1>0, <1>2, <1>13, <2>1, <2>3, <2>4, <2>5, PlainResult
    <2> QED BY <1>1, <2>2, <2>5
  <1>14. CASE wp.property \notin {"enable", "stop_when_full", "record_count", "logging_type",
                "start_time", "stop_time", "log_device_object_property", "log_interval",
                "align_intervals", "interval_offset", "trigger"}
    <2>1. w = Refused(log, "write_access_denied") BY <1>0, <1>14, Zenon DEF LogWritten
    <2> QED BY <1>1, <2>1
  <1> QED BY <1>3, <1>4, <1>5, <1>6, <1>7, <1>8, <1>9, <1>10, <1>11, <1>12, <1>13, <1>14

LEMMA Trend_Log_Result ==
  ASSUME NEW x, Shaped("tl", x), NEW wp, wp.type = "tl", Decoded(wp),
         wp.instance \in Indices("tl"), NEW device, NEW time
  PROVE  Result("tl", x, wp, Trend_Log_Write_Property(x, wp, device, time))
  <1> DEFINE n == wp.instance
  <1>0. PICK log : log = x[n] OBVIOUS
  <1>1. n \in DOMAIN x /\ Intact("tl", log) BY <1>0 DEF Shaped
  <1>2. Settings \subseteq DOMAIN log BY <1>1 DEF Intact, Settings
  <1>3. PICK w : w = LogWritten(log, wp, device, time) OBVIOUS
  <1>4. Trend_Log_Write_Property(x, wp, device, time)
            = [reply |-> w.reply, after |-> [x EXCEPT ![n] = w.after]]
    BY <1>0, <1>3 DEF Trend_Log_Write_Property
  <1>5. LogResult(log, wp, w) BY <1>2, <1>3, LogWrittenResult
  <1>6. CASE \E code : w = Refused(log, code)
    <2>1. PICK code : w = Refused(log, code) BY <1>6
    <2>2. x = [x EXCEPT ![n] = log] BY <1>0, <1>1 DEF Shaped
    <2>3. Trend_Log_Write_Property(x, wp, device, time) = Refused(x, code)
      BY <1>4, <2>1, <2>2 DEF Refused
    <2> QED BY <2>3 DEF Result
  <1>7. CASE \E r : w = Done(r) /\ Settings \subseteq DOMAIN r /\ Holds("tl", r, wp)
    <2>1. PICK r : w = Done(r) /\ Settings \subseteq DOMAIN r /\ Holds("tl", r, wp) BY <1>7
    <2>2. Trend_Log_Write_Property(x, wp, device, time) = Done([x EXCEPT ![n] = r])
      BY <1>4, <2>1 DEF Done
    <2>3. Intact("tl", r) BY <2>1, NotCommandable DEF Intact, Settings
    <2> QED BY <2>1, <2>2, <2>3 DEF Result
  <1> QED BY <1>5, <1>6, <1>7 DEF LogResult

-----------------------------------------------------------------------------
(* The device *)
DeviceFields == {"instance", "name", "status", "vendor", "model", "location", "description",
                 "revision", "timeout", "retries"}
LEMMA DeviceAnswers ==
  ASSUME NEW n, NEW o, NEW time, NEW device, device = o["device"]
  PROVE  /\ Shows(o, time, "device", n, "object_identifier", All,
                  << "object_id", << "device", device.instance >> >>)
         /\ Shows(o, time, "device", n, "object_name", All, << "string", device.name >>)
         /\ Shows(o, time, "device", n, "description", All, << "string", device.description >>)
         /\ Shows(o, time, "device", n, "system_status", All, << "enumerated", device.status >>)
         /\ Shows(o, time, "device", n, "vendor_identifier", All, << "unsigned", device.vendor >>)
         /\ Shows(o, time, "device", n, "model_name", All, << "string", device.model >>)
         /\ Shows(o, time, "device", n, "location", All, << "string", device.location >>)
         /\ Shows(o, time, "device", n, "apdu_timeout", All, << "unsigned", device.timeout >>)
         /\ Shows(o, time, "device", n, "number_of_apdu_retries", All,
                  << "unsigned", device.retries >>)
  <1> DEFINE own == [description |-> << "string", device.description >>,
                     system_status |-> << "enumerated", device.status >>,
                     vendor_name |-> << "string", "BITS" >>,
                     vendor_identifier |-> << "unsigned", device.vendor >>,
                     model_name |-> << "string", device.model >>,
                     firmware_revision |-> << "string", "BACnet_Version" >>,
                     application_software_version |-> << "string", device.version >>,
                     location |-> << "string", device.location >>,
                     local_time |-> << "time", time >>, local_date |-> << "date", time >>,
                     utc_offset |-> << "signed", 300 >>,
                     daylight_savings_status |-> << "boolean", FALSE >>,
                     protocol_version |-> << "unsigned", 1 >>,
                     protocol_revision |-> << "unsigned", 5 >>,
                     protocol_services_supported |-> Unread("services"),
                     protocol_object_types_supported |->
                        << "bits", {type \in Types : Device_Objects_Find_Functions(type)} >>,
                     max_apdu_length_accepted |-> << "unsigned", MAX_APDU >>,
                     segmentation_supported |-> << "enumerated", "none" >>,
                     apdu_timeout |-> << "unsigned", device.timeout >>,
                     number_of_apdu_retries |-> << "unsigned", device.retries >>,
                     device_address_binding |-> Unread("address cache"),
                     database_revision |-> << "unsigned", device.revision >>,
                     active_cov_subscriptions |-> Unread("subscriptions")]
             mine == {"description", "system_status", "vendor_identifier", "model_name",
                      "location", "apdu_timeout", "number_of_apdu_retries"}
             shared == {"object_identifier", "object_name"}
  <1>1. PICK common : common = Identified("device", device.instance, device.name) OBVIOUS
  <1>2. ASSUME NEW p, p # "object_list"
        PROVE  Object_Read_Property(o, time, "device", n, p, All)
                  = {Reading(common ++ own, NoArrays, p, All)}
    <2>1. PICK answer : answer = Reading(common ++ own, NoArrays, p, All) OBVIOUS
    <2>2. Device_Read_Property_Local(o, time, p, All) = answer
      BY <1>1, <1>2, <2>1, Zenon DEF Device_Read_Property_Local
    <2>3. Object_Read_Property(o, time, "device", n, p, All) = {answer}
      BY <2>2, OtherReadFunctions
    <2> QED BY <2>1, <2>3
  <1>3. /\ mine \subseteq DOMAIN own /\ own["description"] = << "string", device.description >>
        /\ own["system_status"] = << "enumerated", device.status >>
        /\ own["vendor_identifier"] = << "unsigned", device.vendor >>
        /\ own["model_name"] = << "string", device.model >>
        /\ own["location"] = << "string", device.location >>
        /\ own["apdu_timeout"] = << "unsigned", device.timeout >>
        /\ own["number_of_apdu_retries"] = << "unsigned", device.retries >>
    OBVIOUS
  <1>4. /\ DOMAIN common = {"object_identifier", "object_name", "object_type"}
        /\ common["object_identifier"] = << "object_id", << "device", device.instance >> >>
        /\ common["object_name"] = << "string", device.name >>
    BY <1>1 DEF Identified
  <1> HIDE DEF own
  <1>5. \A p : p \notin DOMAIN NoArrays BY DEF NoArrays
  <1>6. \A p \in mine : Reading(common ++ own, NoArrays, p, All) = Ack(own[p])
    BY <1>3, <1>4, <1>5, OwnRead
  <1>7. \A p \in shared : Reading(common ++ own, NoArrays, p, All) = Ack(common[p])
    BY <1>4, <1>5, CommonRead
  <1>8. /\ \A p \in mine : Shows(o, time, "device", n, p, All, own[p])
        /\ \A p \in shared : Shows(o, time, "device", n, p, All, common[p])
    BY <1>2, <1>6, <1>7 DEF Shows
  <1>9. /\ Shows(o, time, "device", n, "description", All, own["description"])
        /\ Shows(o, time, "device", n, "system_status", All, own["system_status"])
        /\ Shows(o, time, "device", n, "vendor_identifier", All, own["vendor_identifier"])
        /\ Shows(o, time, "device", n, "model_name", All, own["model_name"])
        /\ Shows(o, time, "device", n, "location", All, own["location"])
        /\ Shows(o, time, "device", n, "apdu_timeout", All, own["apdu_timeout"])
        /\ Shows(o, time, "device", n, "number_of_apdu_retries", All, own["number_of_apdu_retries"])
        /\ Shows(o, time, "device", n, "object_identifier", All, common["object_identifier"])
        /\ Shows(o, time, "device", n, "object_name", All, common["object_name"])
    BY <1>8
  <1> QED BY <1>3, <1>4, <1>9, Zenon

\* A write of the device is refused, or leaves a device that shows the value.
DeviceResult(device, wp, w) ==
    \/ \E code : w = Refused(device, code)
    \/ \E d : /\ w = Done(d) /\ DeviceFields \subseteq DOMAIN d
              /\ \A o, time : o["device"] = d =>
                    Shows(o, time, "device", BACNET_MAX_INSTANCE, wp.property, All, Expected(wp))

LEMMA IncKeeps ==
  ASSUME NEW device, DeviceFields \subseteq DOMAIN device
  PROVE  /\ DOMAIN Device_Inc_Database_Revision(device) = DOMAIN device
         /\ \A f \in DeviceFields \ {"revision"} :
                Device_Inc_Database_Revision(device)[f] = device[f]
  BY DEF Device_Inc_Database_Revision, DeviceFields

LEMMA Device_Result ==
  ASSUME NEW device, DeviceFields \subseteq DOMAIN device, NEW wp, Decoded(wp)
  PROVE  DeviceResult(device, wp, Device_Write_Property_Local(device, wp))
  <1> DEFINE v == wp.value[2]
             N == BACNET_MAX_INSTANCE
  <1>0. PICK w : w = Device_Write_Property_Local(device, wp) OBVIOUS
  <1>1. CASE \E code : w = Refused(device, code) BY <1>0, <1>1 DEF DeviceResult
  <1>2. /\ \A f \in DeviceFields : f \in DOMAIN device
        /\ DeviceFields = {"instance", "name", "status", "vendor", "model", "location",
                           "description", "revision", "timeout", "retries"}
    BY DEF DeviceFields
  <1>3. CASE wp.property = "object_identifier"
    <2>1. PICK moved : moved = [device EXCEPT !.instance = v[2]] OBVIOUS
    <2>2. PICK d : d = Device_Inc_Database_Revision(moved) OBVIOUS
    <2>3. \/ \E code : w = Refused(device, code)
          \/ wp.value[1] = "object_id" /\ v[1] = "device"
             /\ w = Device_Set_Object_Instance_Number(device, v[2])
      BY <1>0, <1>3, Zenon DEF Device_Write_Property_Local, WPValidateArgType
    <2>4. CASE wp.value[1] = "object_id" /\ v[1] = "device" /\ w = Done(d)
      <3>1. DeviceFields \subseteq DOMAIN moved /\ moved["instance"] = v[2] BY <1>2, <2>1
      <3>2. DeviceFields \subseteq DOMAIN d /\ d["instance"] = v[2]
        BY <1>2, <2>2, <3>1, IncKeeps
      <3>3. Expected(wp) = << "object_id", << "device", v[2] >> >>
        BY <1>3, <2>4, ExpectedAsWritten DEF Decoded
      <3>4. \A o, time : o["device"] = d =>
                Shows(o, time, "device", N, wp.property, All, Expected(wp))
        BY <1>3, <3>2, <3>3, DeviceAnswers
      <3> QED BY <1>0, <2>4, <3>2, <3>4 DEF DeviceResult
    <2>5. w = Device_Set_Object_Instance_Number(device, v[2]) =>
             (\E code : w = Refused(device, code)) \/ w = Done(d)
      BY <2>1, <2>2 DEF Device_Set_Object_Instance_Number
    <2> QED BY <1>1, <2>3, <2>4, <2>5
  <1>4. CASE wp.property = "number_of_apdu_retries"
    <2>0. PICK cut : cut = v % 2^8 OBVIOUS
    <2>1. PICK d : d = [device EXCEPT !.retries = cut] OBVIOUS
    <2>2. \/ \E code : w = Refused(device, code)
          \/ wp.value[1] = "unsigned" /\ w = Done(d)
      <3>1. w = IF WPValidateArgType(wp.value, "unsigned")
                THEN Done([device EXCEPT !.retries = v % 2^8])
                ELSE Refused(device, "invalid_data_type")
        BY <1>0, <1>4, Zenon DEF Device_Write_Property_Local
      <3>2. w = IF WPValidateArgType(wp.value, "unsigned") THEN Done(d)
                ELSE Refused(device, "invalid_data_type")
        BY <2>0, <2>1, <3>1
      <3> QED BY <3>2 DEF WPValidateArgType
    <2>3. Expected(wp) = << "unsigned", cut >> BY <1>4, <2>0, Zenon DEF Expected
    <2>4. DeviceFields \subseteq DOMAIN d /\ d.retries = cut BY <1>2, <2>1
    <2>5. \A o, time : o["device"] = d =>
              Shows(o, time, "device", N, wp.property, All, Expected(wp))
      BY <1>4, <2>3, <2>4, DeviceAnswers
    <2> QED BY <1>0, <1>1, <2>2, <2>4, <2>5 DEF DeviceResult
  <1>5. CASE wp.property = "apdu_timeout"
    <2>0. PICK cut : cut = v % 2^16 OBVIOUS
    <2>1. PICK d : d = [device EXCEPT !.timeout = cut] OBVIOUS
    <2>2. \/ \E code : w = Refused(device, code)
          \/ wp.value[1] = "unsigned" /\ w = Done(d)
      <3>1. w = IF WPValidateArgType(wp.value, "unsigned")
                THEN Done([device EXCEPT !.timeout = v % 2^16])
                ELSE Refused(device, "invalid_data_type")
        BY <1>0, <1>5, Zenon DEF Device_Write_Property_Local
      <3>2. w = IF WPValidateArgType(wp.value, "unsigned") THEN Done(d)
                ELSE Refused(device, "invalid_data_type")
        BY <2>0, <2>1, <3>1
      <3> QED BY <3>2 DEF WPValidateArgType
    <2>3. Expected(wp) = << "unsigned", cut >> BY <1>5, <2>0, Zenon DEF Expected
    <2>4. DeviceFields \subseteq DOMAIN d /\ d.timeout = cut BY <1>2, <2>1
    <2>5. \A o, time : o["device"] = d =>
              Shows(o, time, "device", N, wp.property, All, Expected(wp))
      BY <1>5, <2>3, <2>4, DeviceAnswers
    <2> QED BY <1>0, <1>1, <2>2, <2>4, <2>5 DEF DeviceResult
  <1>6. CASE wp.property = "vendor_identifier"
    <2>0. PICK cut : cut = v % 2^16 OBVIOUS
    <2>1. PICK d : d = [device EXCEPT !.vendor = cut] OBVIOUS
    <2>2. \/ \E code : w = Refused(device, code)
          \/ wp.value[1] = "unsigned" /\ w = Done(d)
      <3>1. w = IF WPValidateArgType(wp.value, "unsigned")
                THEN Done([device EXCEPT !.vendor = v % 2^16])
                ELSE Refused(device, "invalid_data_type")
        BY <1>0, <1>6, Zenon DEF Device_Write_Property_Local
      <3>2. w = IF WPValidateArgType(wp.value, "unsigned") THEN Done(d)
                ELSE Refused(device, "invalid_data_type")
        BY <2>0, <2>1, <3>1
      <3> QED BY <3>2 DEF WPValidateArgType
    <2>3. Expected(wp) = << "unsigned", cut >> BY <1>6, <2>0, Zenon DEF Expected
    <2>4. DeviceFields \subseteq DOMAIN d /\ d.vendor = cut BY <1>2, <2>1
    <2>5. \A o, time : o["device"] = d =>
              Shows(o, time, "device", N, wp.property, All, Expected(wp))
      BY <1>6, <2>3, <2>4, DeviceAnswers
    <2> QED BY <1>0, <1>1, <2>2, <2>4, <2>5 DEF DeviceResult
  <1>7. CASE wp.property = "system_status"
    <2>1. PICK d : d = [device EXCEPT !.status = v] OBVIOUS
    <2>2. \/ \E code : w = Refused(device, code)
          \/ wp.value[1] = "enumerated" /\ w = Device_Set_System_Status(device, v, FALSE)
      BY <1>0, <1>7, <2>1, Zenon DEF Device_Write_Property_Local, WPValidateArgType
    <2>3. w = Device_Set_System_Status(device, v, FALSE) =>
             (\E code : w = Refused(device, code)) \/ w = Done(d)
      BY <2>1 DEF Device_Set_System_Status
    <2>4. wp.value[1] = "enumerated" => Expected(wp) = << "enumerated", v >>
      BY <1>7, ExpectedAsWritten DEF Decoded
    <2>5. DeviceFields \subseteq DOMAIN d /\ d.status = v BY <1>2, <2>1
    <2>6. wp.value[1] = "enumerated" => \A o, time : o["device"] = d =>
              Shows(o, time, "device", N, wp.property, All, Expected(wp))
      BY <1>7, <2>4, <2>5, DeviceAnswers
    <2> QED BY <1>0, <1>1, <2>2, <2>3, <2>5, <2>6 DEF DeviceResult
  <1>8. CASE wp.property = "object_name"
    <2>1. PICK named : named = [device EXCEPT !.name = v] OBVIOUS
    <2>2. PICK d : d = Device_Inc_Database_Revision(named) OBVIOUS
    <2>3. PICK after : after = Device_Set_Object_Name(device, v) OBVIOUS
    <2>4. PICK empty : empty = FALSE OBVIOUS
    <2>5. w = TextWritten(device, wp, MAX_DEV_NAME_LEN, empty, after)
      BY <1>0, <1>8, <2>3, <2>4, Zenon DEF Device_Write_Property_Local
    <2>6. \/ \E code : w = Refused(device, code)
          \/ w = Done(after) /\ WPValidateString(wp.value, MAX_DEV_NAME_LEN, empty) = "ok"
      BY <2>5 DEF TextWritten
    <2>7. WPValidateString(wp.value, MAX_DEV_NAME_LEN, empty) = "ok" =>
            wp.value[1] = "string" /\ ~(v[2] >= MAX_DEV_NAME_LEN)
      BY DEF WPValidateString
    <2>8. wp.value[1] = "string" /\ ~(v[2] >= MAX_DEV_NAME_LEN) => after = d
      BY <2>1, <2>2, <2>3 DEF Decoded, Device_Set_Object_Name, MAX_DEV_NAME_LEN
    <2>9. CASE wp.value[1] = "string" /\ w = Done(d)
      <3>1. DeviceFields \subseteq DOMAIN named /\ named["name"] = v BY <1>2, <2>1
      <3>2. DeviceFields \subseteq DOMAIN d /\ d["name"] = v BY <1>2, <2>2, <3>1, IncKeeps
      <3>3. Expected(wp) = << "string", v >> BY <1>8, <2>9, ExpectedAsWritten DEF Decoded
      <3>4. \A o, time : o["device"] = d =>
                Shows(o, time, "device", N, wp.property, All, Expected(wp))
        BY <1>8, <3>2, <3>3, DeviceAnswers
      <3> QED BY <1>0, <2>9, <3>2, <3>4 DEF DeviceResult
    <2> QED BY <1>1, <2>6, <2>7, <2>8, <2>9
  <1>9. CASE wp.property = "location"
    <2>2. PICK d : d = [device EXCEPT !.location = v] OBVIOUS
    <2>3. PICK after : after = Device_Set_Location(device, v) OBVIOUS
    <2>4. PICK empty : empty = TRUE OBVIOUS
    <2>5. w = TextWritten(device, wp, MAX_DEV_LOC_LEN, empty, after)
      BY <1>0, <1>9, <2>3, <2>4, Zenon DEF Device_Write_Property_Local
    <2>6. \/ \E code : w = Refused(device, code)
          \/ w = Done(after) /\ WPValidateString(wp.value, MAX_DEV_LOC_LEN, empty) = "ok"
      BY <2>5 DEF TextWritten
    <2>7. WPValidateString(wp.value, MAX_DEV_LOC_LEN, empty) = "ok" =>
            wp.value[1] = "string" /\ ~(v[2] >= MAX_DEV_LOC_LEN)
      BY DEF WPValidateString
    <2>8. wp.value[1] = "string" /\ ~(v[2] >= MAX_DEV_LOC_LEN) => after = d
      BY <2>2, <2>3 DEF Decoded, Device_Set_Location, MAX_DEV_LOC_LEN
    <2>9. CASE wp.value[1] = "string" /\ w = Done(d)
      <3>2. DeviceFields \subseteq DOMAIN d /\ d["location"] = v BY <1>2, <2>2
      <3>3. Expected(wp) = << "string", v >> BY <1>9, <2>9, ExpectedAsWritten DEF Decoded
      <3>4. \A o, time : o["device"] = d =>
                Shows(o, time, "device", N, wp.property, All, Expected(wp))
        BY <1>9, <3>2, <3>3, DeviceAnswers
      <3> QED BY <1>0, <2>9, <3>2, <3>4 DEF DeviceResult
    <2> QED BY <1>1, <2>6, <2>7, <2>8, <2>9
  <1>10. CASE wp.property = "description"
    <2>2. PICK d : d = [device EXCEPT !.description = v] OBVIOUS
    <2>3. PICK after : after = Device_Set_Description(device, v) OBVIOUS
    <2>4. PICK empty : empty = TRUE OBVIOUS
    <2>5. w = TextWritten(device, wp, MAX_DEV_DESC_LEN, empty, after)
      BY <1>0, <1>10, <2>3, <2>4, Zenon DEF Device_Write_Property_Local
    <2>6. \/ \E code : w = Refused(device, code)
          \/ w = Done(after) /\ WPValidateString(wp.value, MAX_DEV_DESC_LEN, empty) = "ok"
      BY <2>5 DEF TextWritten
    <2>7. WPValidateString(wp.value, MAX_DEV_DESC_LEN, empty) = "ok" =>
            wp.value[1] = "string" /\ ~(v[2] >= MAX_DEV_DESC_LEN)
      BY DEF WPValidateString
    <2>8. wp.value[1] = "string" /\ ~(v[2] >= MAX_DEV_DESC_LEN) => after = d
      BY <2>2, <2>3 DEF Decoded, Device_Set_Description, MAX_DEV_DESC_LEN
    <2>9. CASE wp.value[1] = "string" /\ w = Done(d)
      <3>2. DeviceFields \subseteq DOMAIN d /\ d["description"] = v BY <1>2, <2>2
      <3>3. Expected(wp) = << "string", v >> BY <1>10, <2>9, ExpectedAsWritten DEF Decoded
      <3>4. \A o, time : o["device"] = d =>
                Shows(o, time, "device", N, wp.property, All, Expected(wp))
        BY <1>10, <3>2, <3>3, DeviceAnswers
      <3> QED BY <1>0, <2>9, <3>2, <3>4 DEF DeviceResult
    <2> QED BY <1>1, <2>6, <2>7, <2>8, <2>9
  <1>11. CASE wp.property = "model_name"
    <2>2. PICK d : d = [device EXCEPT !.model = v] OBVIOUS
    <2>3. PICK after : after = Device_Set_Model_Name(device, v) OBVIOUS
    <2>4. PICK empty : empty = TRUE OBVIOUS
    <2>5. w = TextWritten(device, wp, MAX_DEV_MOD_LEN, empty, after)
      BY <1>0, <1>11, <2>3, <2>4, Zenon DEF Device_Write_Property_Local
    <2>6. \/ \E code : w = Refused(device, code)
          \/ w = Done(after) /\ WPValidateString(wp.value, MAX_DEV_MOD_LEN, empty) = "ok"
      BY <2>5 DEF TextWritten
    <2>7. WPValidateString(wp.value, MAX_DEV_MOD_LEN, empty) = "ok" =>
            wp.value[1] = "string" /\ ~(v[2] >= MAX_DEV_MOD_LEN)
      BY DEF WPValidateString
    <2>8. wp.value[1] = "string" /\ ~(v[2] >= MAX_DEV_MOD_LEN) => after = d
      BY <2>2, <2>3 DEF Decoded, Device_Set_Model_Name, MAX_DEV_MOD_LEN
    <2>9. CASE wp.value[1] = "string" /\ w = Done(d)
      <3>2. DeviceFields \subseteq DOMAIN d /\ d["model"] = v BY <1>2, <2>2
      <3>3. Expected(wp) = << "string", v >> BY <1>11, <2>9, ExpectedAsWritten DEF Decoded
      <3>4. \A o, time : o["device"] = d =>
                Shows(o, time, "device", N, wp.property, All, Expected(wp))
        BY <1>11, <3>2, <3>3, DeviceAnswers
      <3> QED BY <1>0, <2>9, <3>2, <3>4 DEF DeviceResult
    <2> QED BY <1>1, <2>6, <2>7, <2>8, <2>9
  <1>12. CASE wp.property \notin {"object_identifier", "number_of_apdu_retries", "apdu_timeout",
                "vendor_identifier", "system_status", "object_name", "location", "description",
                "model_name"}
    <2>1. w = Refused(device, "write_access_denied")
      BY <1>0, <1>12, Zenon DEF Device_Write_Property_Local
    <2> QED BY <1>1, <2>1
  <1> QED BY <1>3, <1>4, <1>5, <1>6, <1>7, <1>8, <1>9, <1>10, <1>11, <1>12

-----------------------------------------------------------------------------
(* What is written is what the next read returns. *)
Formed(o) ==
    /\ o = [T \in DOMAIN o |-> o[T]] /\ Types \subseteq DOMAIN o
    /\ \A T \in Writable : Shaped(T, o[T])
    /\ DeviceFields \subseteq DOMAIN o["device"]

Replies(o, time, T, n, p, i) == handler_read_property(o, time, T, n, p, i, FALSE, TRUE)
ReadAt(wp) == IF wp.type = "device" THEN BACNET_MAX_INSTANCE ELSE wp.instance
Retrieved(o, time, wp) ==
    IF wp.type \in Commandable /\ wp.property = "present_value"
    THEN \E slots : /\ slots[wp.priority] = Expected(wp)
                    /\ Replies(o, time, wp.type, ReadAt(wp), "priority_array", All) = {Ack(slots)}
    ELSE Replies(o, time, wp.type, ReadAt(wp), wp.property, IndexRead(wp)) = {Ack(Expected(wp))}

\* A write that is acknowledged: one object changes, and reads as it was written.
Taken(o, wp, w) ==
    /\ w.reply[1] = "ack" /\ Formed(w.after)
    /\ \A T \in Types \ {wp.type} : w.after[T] = o[T]
    /\ wp.type # "device" =>
            \A n \in Object_Instances(o["device"], wp.type) \ {wp.instance} :
                w.after[wp.type][n] = o[wp.type][n]
    /\ Forgotten(wp) \/ \A time : Retrieved(w.after, time, wp)
WriteAnswered(o, wp, w) ==
    \/ w.after = o /\ w.reply[1] # "ack"
    \/ Taken(o, wp, w)

LEMMA HandlerReads ==
  ASSUME NEW o, NEW time, NEW T, Device_Objects_Find_Functions(T), NEW n,
         Object_Valid_Instance(o["device"], T, n), NEW p, NEW i, NEW answer,
         Object_Read_Property(o, time, T, n, p, i) = {Ack(answer)}
  PROVE  Replies(o, time, T, n, p, i) = {Ack(answer)}
  <1>1. Device_Read_Property(o, time, T, n, p, i) = {Ack(answer)} BY DEF Device_Read_Property
  <1> QED BY <1>1 DEF Replies, handler_read_property

LEMMA ReadsBack ==
  Retrieved(objects, now, exchange.wp) => ReadBack(exchange.wp) = Ack(Expected(exchange.wp))
  <1> SUFFICES ASSUME Retrieved(objects, now, exchange.wp)
               PROVE  ReadBack(exchange.wp) = Ack(Expected(exchange.wp))
    OBVIOUS
  <1>1. PICK wp : wp = exchange.wp OBVIOUS
  <1>2. PICK n : n = ReadAt(wp) OBVIOUS
  <1>3. CASE wp.type \in Commandable /\ wp.property = "present_value"
    <2>1. PICK slots : /\ slots[wp.priority] = Expected(wp)
                       /\ Reads(wp.type, n, "priority_array", All) = {Ack(slots)}
      BY <1>1, <1>2, <1>3 DEF Retrieved, Replies, Reads
    <2>2. ReadOf(wp.type, n, "priority_array", All) = Ack(slots) BY <2>1 DEF ReadOf
    <2>3. ReadOf(wp.type, n, "priority_array", All)[2] = slots BY <2>2 DEF Ack
    <2>4. ReadBack(wp) = Ack(ReadOf(wp.type, n, "priority_array", All)[2][wp.priority])
      BY <1>2, <1>3 DEF ReadBack, ReadAt
    <2> QED BY <1>1, <2>1, <2>3, <2>4
  <1>4. CASE ~(wp.type \in Commandable /\ wp.property = "present_value")
    <2>1. PICK v : v = Expected(wp) OBVIOUS
    <2>2. Reads(wp.type, n, wp.property, IndexRead(wp)) = {Ack(v)}
      BY <1>1, <1>2, <1>4, <2>1 DEF Retrieved, Replies, Reads
    <2>3. ReadOf(wp.type, n, wp.property, IndexRead(wp)) = Ack(v) BY <2>2 DEF ReadOf
    <2>4. ReadBack(wp) = ReadOf(wp.type, n, wp.property, IndexRead(wp))
      BY <1>2, <1>4 DEF ReadBack, ReadAt, IndexRead
    <2> QED BY <1>1, <2>1, <2>3, <2>4
  <1> QED BY <1>3, <1>4

LEMMA OtherWriteFunctions ==
  ASSUME NEW o, NEW time, NEW wp
  PROVE  /\ wp.type = "bi" =>
                \/ Object_Write_Property(o, time, wp) = Binary_Input_Write_Property(o["bi"], wp)
                \/ Object_Write_Property(o, time, wp) = Refused(o["bi"], "write_access_denied")
         /\ wp.type = "msi" => Object_Write_Property(o, time, wp) = Multistate_Input_Write_Property(o["msi"], wp)
         /\ wp.type = "lsp" => Object_Write_Property(o, time, wp) = Life_Safety_Point_Write_Property(o["lsp"], wp)
         /\ wp.type = "tl" => Object_Write_Property(o, time, wp)
                = Trend_Log_Write_Property(o["tl"], wp, o["device"].instance, time)
         /\ wp.type = "device" => Object_Write_Property(o, time, wp) = Device_Write_Property_Local(o["device"], wp)
         /\ wp.type = "file" => Object_Write_Property(o, time, wp) = bacfile_write_property(o["file"], wp)
         /\ wp.type = "ai" => Object_Write_Property(o, time, wp) = Refused(o["ai"], "write_access_denied")
  <1>1. CASE wp.type = "bi" BY <1>1, Zenon DEF Object_Write_Property
  <1>2. CASE wp.type = "msi" BY <1>2, Zenon DEF Object_Write_Property
  <1>3. CASE wp.type = "lsp" BY <1>3, Zenon DEF Object_Write_Property
  <1>4. CASE wp.type = "tl" BY <1>4, Zenon DEF Object_Write_Property
  <1>5. CASE wp.type = "device" BY <1>5, Zenon DEF Object_Write_Property
  <1>6. CASE wp.type = "file" BY <1>6, Zenon DEF Object_Write_Property
  <1>7. CASE wp.type = "ai" BY <1>7, Zenon DEF Object_Write_Property
  <1> QED BY <1>1, <1>2, <1>3, <1>4, <1>5, <1>6, <1>7

LEMMA WriteResult ==
  ASSUME NEW T \in Writable, NEW o, Formed(o), NEW wp, wp.type = T, Decoded(wp),
         wp.instance \in Indices(T), wp.priority \in Priorities, NEW time
  PROVE  Result(T, o[T], wp, Object_Write_Property(o, time, wp))
  <1>0. Shaped(T, o[T]) BY DEF Formed
  <1>1. CASE T = "ao" BY <1>0, <1>1, WriteFunctions, Analog_Output_Result
  <1>2. CASE T = "av" BY <1>0, <1>2, WriteFunctions, Analog_Value_Result
  <1>3. CASE T = "bo" BY <1>0, <1>3, WriteFunctions, Binary_Output_Result
  <1>4. CASE T = "bv" BY <1>0, <1>4, WriteFunctions, Binary_Value_Result
  <1>5. CASE T = "mso" BY <1>0, <1>5, WriteFunctions, Multistate_Output_Result
  <1>6. CASE T = "lo" BY <1>0, <1>6, WriteFunctions, Lighting_Output_Result
  <1>7. CASE T = "bi"
    <2>1. CASE Object_Write_Property(o, time, wp) = Binary_Input_Write_Property(o["bi"], wp)
      BY <1>0, <1>7, <2>1, Binary_Input_Result
    <2>2. CASE Object_Write_Property(o, time, wp) = Refused(o["bi"], "write_access_denied")
      BY <1>7, <2>2 DEF Result
    <2> QED BY <1>7, <2>1, <2>2, OtherWriteFunctions
  <1>8. CASE T = "msi" BY <1>0, <1>8, OtherWriteFunctions, Multistate_Input_Result
  <1>9. CASE T = "lsp" BY <1>0, <1>9, OtherWriteFunctions, Life_Safety_Point_Result
  <1>10. CASE T = "lc" BY <1>0, <1>10, WriteFunctions, Load_Control_Result
  <1>11. CASE T = "tl" BY <1>0, <1>11, OtherWriteFunctions, Trend_Log_Result
  <1> QED BY <1>1, <1>2, <1>3, <1>4, <1>5, <1>6, <1>7, <1>8, <1>9, <1>10, <1>11
      DEF Writable, Commandable

LEMMA WritableTaken ==
  ASSUME NEW T \in Writable, Device_Objects_Find_Functions(T), NEW o, Formed(o),
         NEW wp, wp.type = T, wp.instance \in Indices(T), NEW written,
         Result(T, o[T], wp, written), NEW w,
         w = [reply |-> written.reply, after |-> [o EXCEPT ![T] = written.after]]
  PROVE  WriteAnswered(o, wp, w)
  <1>1. PICK x : x = o[T] OBVIOUS
  <1>2. T \in DOMAIN o /\ o = [t \in DOMAIN o |-> o[t]] /\ T # "device" /\ Shaped(T, x)
    BY <1>1, SomeInstances DEF Formed
  <1>3. CASE \E code : written = Refused(x, code)
    <2>1. PICK code : written = Refused(x, code) BY <1>3
    <2>2. written.reply[1] = "error" /\ written.after = x BY <2>1 DEF Refused, Error
    <2>3. w.after = o BY <1>1, <1>2, <2>2
    <2> QED BY <2>2, <2>3 DEF WriteAnswered
  <1>4. CASE \E r : /\ Intact(T, r) /\ Holds(T, r, wp)
                    /\ written = Done([x EXCEPT ![wp.instance] = r])
    <2>1. PICK r : /\ Intact(T, r) /\ Holds(T, r, wp)
                   /\ written = Done([x EXCEPT ![wp.instance] = r])
      BY <1>4
    <2>2. PICK y : y = [x EXCEPT ![wp.instance] = r] OBVIOUS
    <2>3. written.reply[1] = "ack" /\ written.after = y
      BY <2>1, <2>2 DEF Done, SimpleAck, Ack
    <2>4. /\ Shaped(T, y) /\ \A m \in DOMAIN x \ {wp.instance} : y[m] = x[m]
          /\ y[wp.instance] = r
      <3>1. PICK n : n = wp.instance OBVIOUS
      <3>2. y = [x EXCEPT ![n] = r] /\ Intact(T, r) /\ n \in Indices(T) BY <2>1, <2>2, <3>1
      <3>4. Shaped(T, x) BY <1>2
      <3>3. /\ Shaped(T, y) /\ \A m \in DOMAIN x \ {n} : y[m] = x[m]
            /\ n \in Indices(T) => y[n] = r
        <4>1. DOMAIN y = DOMAIN x /\ y = [m \in DOMAIN y |-> y[m]] BY <3>2
        <4>2. \A m \in DOMAIN x \ {n} : y[m] = x[m] BY <3>2
        <4>3. n \in DOMAIN x => y[n] = r BY <3>2
        <4> QED BY <3>2, <3>4, <4>1, <4>2, <4>3 DEF Shaped
      <3> QED BY <3>1, <3>2, <3>3
    <2>5. PICK after : after = [o EXCEPT ![T] = y] OBVIOUS
    <2>6. w.after = after /\ w.reply[1] = "ack" BY <2>3, <2>5
    <2>7. /\ after[T] = y /\ DOMAIN after = DOMAIN o
          /\ \A t \in DOMAIN o \ {T} : after[t] = o[t]
          /\ after = [t \in DOMAIN after |-> after[t]]
      BY <1>2, <2>5
    <2>8. "device" \in DOMAIN o /\ Types \subseteq DOMAIN o /\ Writable \subseteq Types
      BY SomeInstances DEF Formed, Types
    <2>9. Formed(after)
      <3>1. after["device"] = o["device"] BY <1>2, <2>7, <2>8
      <3>2. ASSUME NEW t \in Writable PROVE Shaped(t, after[t])
        <4>1. CASE t = T BY <2>4, <2>7, <4>1
        <4>2. CASE t # T BY <2>7, <2>8, <4>2 DEF Formed
        <4> QED BY <4>1, <4>2
      <3> QED BY <2>7, <3>1, <3>2 DEF Formed
    <2>10. \A n \in Object_Instances(o["device"], T) \ {wp.instance} : after[T][n] = o[T][n]
      <3>1. ASSUME NEW n \in Object_Instances(o["device"], T) \ {wp.instance}
            PROVE  y[n] = x[n]
        <4>1. n \in Indices(T) BY SomeInstances
        <4>2. n \in DOMAIN x BY <1>2, <4>1 DEF Shaped
        <4> QED BY <2>4, <4>2
      <3> QED BY <1>1, <2>7, <3>1
    <2>11. ASSUME ~Forgotten(wp), NEW time PROVE Retrieved(after, time, wp)
      <3>1. after[T][wp.instance] = r BY <2>4, <2>7
      <3>2. ReadAt(wp) = wp.instance BY <1>2 DEF ReadAt
      <3>3. Object_Valid_Instance(after["device"], T, wp.instance)
        BY SomeInstances DEF Object_Valid_Instance
      <3>4. CASE T \in Commandable /\ wp.property = "present_value"
        <4>1. PICK slots : /\ slots[wp.priority] = Expected(wp)
                           /\ Object_Read_Property(after, time, T, wp.instance, "priority_array", All)
                                = {Ack(slots)}
          BY <2>1, <2>11, <3>1, <3>4 DEF Holds
        <4>2. Replies(after, time, T, wp.instance, "priority_array", All) = {Ack(slots)}
          BY <3>3, <4>1, HandlerReads
        <4> QED BY <3>2, <3>4, <4>1, <4>2 DEF Retrieved
      <3>5. CASE ~(T \in Commandable /\ wp.property = "present_value")
        <4>1. PICK v : v = Expected(wp) OBVIOUS
        <4>2. PICK i : i = IndexRead(wp) OBVIOUS
        <4>3. Object_Read_Property(after, time, T, wp.instance, wp.property, i) = {Ack(v)}
          BY <2>1, <2>11, <3>1, <3>5, <4>1, <4>2 DEF Holds
        <4>4. Replies(after, time, T, wp.instance, wp.property, i) = {Ack(v)}
          BY <3>3, <4>3, HandlerReads
        <4> QED BY <3>2, <3>5, <4>1, <4>2, <4>4 DEF Retrieved
      <3> QED BY <3>4, <3>5
    <2>12. \A t \in Types \ {T} : after[t] = o[t] BY <2>7, <2>8
    <2> QED BY <2>6, <2>9, <2>10, <2>11, <2>12 DEF WriteAnswered, Taken
  <1> QED BY <1>1, <1>3, <1>4 DEF Result

LEMMA DeviceTaken ==
  ASSUME NEW o, Formed(o), NEW wp, wp.type = "device", Decoded(wp),
         Device_Objects_Find_Functions("device"), NEW time, NEW w,
         w = [reply |-> Object_Write_Property(o, time, wp).reply,
              after |-> [o EXCEPT !["device"] = Object_Write_Property(o, time, wp).after]]
  PROVE  WriteAnswered(o, wp, w)
  <1>1. PICK written : written = Object_Write_Property(o, time, wp) OBVIOUS
  <1>2. PICK device : device = o["device"] OBVIOUS
  <1>3. DeviceResult(device, wp, written)
    BY <1>1, <1>2, OtherWriteFunctions, Device_Result DEF Formed
  <1>4. "device" \in DOMAIN o /\ o = [t \in DOMAIN o |-> o[t]] BY DEF Formed, Types
  <1>5. CASE \E code : written = Refused(device, code)
    <2>1. written.reply[1] = "error" /\ written.after = device BY <1>5 DEF Refused, Error
    <2>2. w.after = o BY <1>1, <1>2, <1>4, <2>1
    <2> QED BY <1>1, <2>1, <2>2 DEF WriteAnswered
  <1>7. CASE wp.property = "shed_levels"
    <2>1. written = Refused(device, "write_access_denied")
      <3>1. Device_Write_Property_Local(device, wp) = Refused(device, "write_access_denied")
        BY <1>7, Zenon DEF Device_Write_Property_Local
      <3> QED BY <1>1, <1>2, <3>1, OtherWriteFunctions
    <2> QED BY <1>5, <2>1
  <1>6. CASE wp.property # "shed_levels" /\
            \E d : /\ written = Done(d) /\ DeviceFields \subseteq DOMAIN d
                    /\ \A a, t : a["device"] = d =>
                          Shows(a, t, "device", BACNET_MAX_INSTANCE, wp.property, All, Expected(wp))
    <2>1. PICK d : /\ written = Done(d) /\ DeviceFields \subseteq DOMAIN d
                   /\ \A a, t : a["device"] = d =>
                         Shows(a, t, "device", BACNET_MAX_INSTANCE, wp.property, All, Expected(wp))
      BY <1>6
    <2>2. PICK after : after = [o EXCEPT !["device"] = d] OBVIOUS
    <2>3. w.after = after /\ w.reply[1] = "ack" BY <1>1, <2>1, <2>2 DEF Done, SimpleAck, Ack
    <2>4. /\ after["device"] = d /\ DOMAIN after = DOMAIN o
          /\ \A t \in DOMAIN o \ {"device"} : after[t] = o[t]
          /\ after = [t \in DOMAIN after |-> after[t]]
      BY <1>4, <2>2
    <2>5. \A t \in Writable : t \in DOMAIN o \ {"device"} BY SomeInstances DEF Formed
    <2>6. Formed(after) BY <2>1, <2>4, <2>5 DEF Formed
    <2>7. \A t \in Types \ {"device"} : after[t] = o[t] BY <2>4 DEF Formed
    <2>8. ASSUME NEW t PROVE Retrieved(after, t, wp)
      <3>1. "device" \notin Commandable BY NotCommandable
      <3>2. ReadAt(wp) = BACNET_MAX_INSTANCE BY DEF ReadAt
      <3>3. Object_Valid_Instance(after["device"], "device", BACNET_MAX_INSTANCE)
        BY DEF Object_Valid_Instance, Device_Valid_Object_Instance_Number
      <3>4. PICK v : v = Expected(wp) OBVIOUS
      <3>5. Object_Read_Property(after, t, "device", BACNET_MAX_INSTANCE, wp.property, All) = {Ack(v)}
        BY <2>1, <2>4, <3>4 DEF Shows
      <3>6. Replies(after, t, "device", BACNET_MAX_INSTANCE, wp.property, All) = {Ack(v)}
        BY <3>3, <3>5, HandlerReads
      <3> QED BY <3>1, <3>2, <3>4, <3>6, <1>6 DEF Retrieved, IndexRead
    <2> QED BY <2>3, <2>6, <2>7, <2>8 DEF WriteAnswered, Taken
  <1> QED BY <1>3, <1>5, <1>6, <1>7 DEF DeviceResult

LEMMA TableOfTypes ==
  ASSUME NEW T, Device_Objects_Find_Functions(T)
  PROVE  T \in Types
  <1> DEFINE always == << "device", "ai", "ao", "av", "bi", "bo", "bv", "lsp", "lc", "mso", "msi", "tl" >>
             lighting == IF "lo" \in Added THEN << "lo" >> ELSE << >>
             files == IF "file" \in Added THEN << "file" >> ELSE << >>
  <1>1. always \in Seq(Types) /\ lighting \in Seq(Types) /\ files \in Seq(Types)
    <2>1. PICK S : S = Types OBVIOUS
    <2>2. /\ {"device", "ai", "ao", "av", "bi", "bo", "bv"} \subseteq S
          /\ {"lsp", "lc", "mso", "msi", "tl", "lo", "file"} \subseteq S
      BY <2>1 DEF Types
    <2>3. always \in Seq(S) BY <2>2
    <2>4. lighting \in Seq(S) /\ files \in Seq(S) BY <2>2
    <2> QED BY <2>1, <2>3, <2>4
  <1>2. Object_Table = always \o lighting \o files BY DEF Object_Table
  <1> HIDE DEF always, lighting, files
  <1>3. Object_Table \in Seq(Types) BY <1>1, <1>2
  <1> QED BY <1>3 DEF Device_Objects_Find_Functions

LEMMA ServiceTaken ==
  ASSUME NEW o, Formed(o), NEW wp, Decoded(wp), NEW time, NEW segmented, NEW w,
         w = handler_write_property(o, time, wp, segmented)
  PROVE  WriteAnswered(o, wp, w)
  <1>1. CASE segmented \/ wp.priority \notin Priorities
    <2>1. w.after = o /\ w.reply[1] = "abort" BY <1>1 DEF handler_write_property, Abort
    <2> QED BY <2>1 DEF WriteAnswered
  <1>2. CASE ~segmented /\ wp.priority \in Priorities
    <2>1. w = Device_Write_Property(o, time, wp) BY <1>2 DEF handler_write_property
    <2>2. CASE \/ ~Device_Objects_Find_Functions(wp.type)
               \/ ~Object_Valid_Instance(o.device, wp.type, wp.instance)
      <3>1. w.after = o /\ w.reply[1] = "error"
        BY <2>1, <2>2 DEF Device_Write_Property, Refused, Error
      <3> QED BY <3>1 DEF WriteAnswered
    <2>3. CASE /\ Device_Objects_Find_Functions(wp.type)
               /\ Object_Valid_Instance(o.device, wp.type, wp.instance)
      <3>1. PICK written : written = Object_Write_Property(o, time, wp) OBVIOUS
      <3>2. w = [reply |-> written.reply, after |-> [o EXCEPT ![wp.type] = written.after]]
        BY <2>1, <2>3, <3>1 DEF Device_Write_Property
      <3>3. CASE wp.type \in Writable
        <4>1. wp.instance \in Indices(wp.type)
          BY <2>3, <3>3, SomeInstances DEF Object_Valid_Instance
        <4>2. PICK T \in Writable : T = wp.type BY <3>3
        <4>3. Result(T, o[T], wp, written) BY <1>2, <3>1, <4>1, <4>2, WriteResult
        <4>4. w = [reply |-> written.reply, after |-> [o EXCEPT ![T] = written.after]]
          BY <3>2, <4>2
        <4> QED BY <2>3, <4>1, <4>2, <4>3, <4>4, WritableTaken
      <3>4. CASE wp.type = "device"
        <4>1. w = [reply |-> Object_Write_Property(o, time, wp).reply,
                   after |-> [o EXCEPT !["device"] = Object_Write_Property(o, time, wp).after]]
          BY <3>1, <3>2, <3>4
        <4> QED BY <2>3, <3>4, <4>1, DeviceTaken
      <3>5. CASE wp.type \in {"ai", "file"}
        <4>1. PICK x : x = o[wp.type] OBVIOUS
        <4>2. \/ \E code : written = Refused(x, code)
              \/ written = Done(x) /\ wp.type = "file"
          <5>1. CASE wp.type = "ai" BY <3>1, <4>1, <5>1, OtherWriteFunctions
          <5>2. CASE wp.type = "file"
            <6>1. written = bacfile_write_property(x, wp)
              BY <3>1, <4>1, <5>2, OtherWriteFunctions
            <6> QED BY <5>2, <6>1 DEF bacfile_write_property
          <5> QED BY <3>5, <5>1, <5>2
        <4>3. written.after = x BY <4>2 DEF Refused, Done
        <4>4. w.after = o BY <3>2, <3>5, <4>1, <4>3 DEF Formed, Types
        <4>5. CASE \E code : written = Refused(x, code)
          <5>1. w.reply[1] = "error" BY <3>2, <4>5 DEF Refused, Error
          <5> QED BY <4>4, <5>1 DEF WriteAnswered
        <4>6. CASE written = Done(x) /\ wp.type = "file"
          <5>1. w.reply[1] = "ack" BY <3>2, <4>6 DEF Done, SimpleAck, Ack
          <5>2. Forgotten(wp) BY <4>6 DEF Forgotten
          <5> QED BY <4>4, <5>1, <5>2 DEF WriteAnswered, Taken
        <4> QED BY <4>2, <4>5, <4>6
      <3>6. wp.type \in Types BY <2>3, TableOfTypes
      <3> QED BY <3>3, <3>4, <3>5, <3>6 DEF Types, Writable, Commandable
    <2> QED BY <2>2, <2>3
  <1> QED BY <1>1, <1>2

-----------------------------------------------------------------------------
(* Every object has what is written of its type, whatever happens to it. *)
Shape == Formed(objects)

LEMMA ShapeInit == DeviceServerInit => Shape
  <1> SUFFICES ASSUME DeviceServerInit PROVE Shape OBVIOUS
  <1>1. objects = Device_Init BY DEF DeviceServerInit
  <1>2. PICK o : o = objects OBVIOUS
  <1>3. /\ o = [T \in DOMAIN o |-> o[T]] /\ Types \subseteq DOMAIN o /\ o["device"] = Device_Start
        /\ o["ao"] = Analog_Output_Init /\ o["av"] = Analog_Value_Init
        /\ o["bo"] = Binary_Output_Init /\ o["bv"] = Binary_Value_Init
        /\ o["mso"] = Multistate_Output_Init /\ o["lo"] = Lighting_Output_Init
        /\ o["bi"] = Binary_Input_Init /\ o["msi"] = Multistate_Input_Init
        /\ o["lsp"] = Life_Safety_Point_Init /\ o["lc"] = Load_Control_Init
        /\ o["tl"] = Trend_Log_Init
    BY <1>1, <1>2 DEF Device_Init, Types
  <1>4. DeviceFields \subseteq DOMAIN o["device"]
    <2>1. DeviceFields \subseteq DOMAIN Device_Start BY DEF DeviceFields, Device_Start
    <2> QED BY <1>3, <2>1
  <1>5. Priorities \subseteq DOMAIN Unset.level /\ DOMAIN Unset = {"level", "oos"}
        /\ Priorities \subseteq DOMAIN Relinquished
    BY DEF Unset, Relinquished
  <1>6. ASSUME NEW T \in {"ao", "av", "bo", "bv", "mso"} PROVE Shaped(T, o[T])
    <2>1. T \in Commandable BY DEF Commandable
    <2>2. Intact(T, Unset) BY <1>5, <2>1, FieldsOfEach DEF Intact, Commandable
    <2>3. o[T] = [n \in Indices(T) |-> Unset]
      <3>1. CASE T = "ao" BY <1>3, <3>1, Zenon DEF Indices, Object_Instances, Analog_Output_Init
      <3>2. CASE T = "av" BY <1>3, <3>2, Zenon DEF Indices, Object_Instances, Analog_Value_Init
      <3>3. CASE T = "bo" BY <1>3, <3>3, Zenon DEF Indices, Object_Instances, Binary_Output_Init
      <3>4. CASE T = "bv" BY <1>3, <3>4, Zenon DEF Indices, Object_Instances, Binary_Value_Init
      <3>5. CASE T = "mso" BY <1>3, <3>5, Zenon DEF Indices, Object_Instances, Multistate_Output_Init
      <3> QED BY <3>1, <3>2, <3>3, <3>4, <3>5
    <2> QED BY <2>2, <2>3 DEF Shaped
  <1>7. Shaped("lo", o["lo"])
    <2>1. "lo" \in Commandable /\ Indices("lo") = Lighting_Output_Instances
      BY Zenon DEF Commandable, Indices, Object_Instances
    <2>2. ASSUME NEW n \in Indices("lo")
          PROVE  n \in DOMAIN o["lo"] /\ Intact("lo", o["lo"][n])
      BY <1>3, <1>5, <2>1, FieldsOfEach DEF Lighting_Output_Init, Intact, Commandable
    <2> QED BY <1>3, <2>2 DEF Shaped, Lighting_Output_Init
  <1>8. Shaped("bi", o["bi"])
    <2>1. Indices("bi") = Binary_Input_Instances BY Zenon DEF Indices, Object_Instances
    <2>2. ASSUME NEW n \in Indices("bi")
          PROVE  n \in DOMAIN o["bi"] /\ Intact("bi", o["bi"][n])
      BY <1>3, <2>1, FieldsOfEach, NotCommandable DEF Binary_Input_Init, Intact
    <2> QED BY <1>3, <2>2 DEF Shaped, Binary_Input_Init
  <1>9. Shaped("msi", o["msi"])
    <2>1. Indices("msi") = Multistate_Input_Instances BY Zenon DEF Indices, Object_Instances
    <2>2. ASSUME NEW n \in Indices("msi")
          PROVE  n \in DOMAIN o["msi"] /\ Intact("msi", o["msi"][n])
      BY <1>3, <2>1, FieldsOfEach, NotCommandable DEF Multistate_Input_Init, Intact
    <2> QED BY <1>3, <2>2 DEF Shaped, Multistate_Input_Init
  <1>10. Shaped("lsp", o["lsp"])
    <2>1. Indices("lsp") = Life_Safety_Point_Instances BY Zenon DEF Indices, Object_Instances
    <2>2. ASSUME NEW n \in Indices("lsp")
          PROVE  n \in DOMAIN o["lsp"] /\ Intact("lsp", o["lsp"][n])
      BY <1>3, <2>1, FieldsOfEach, NotCommandable DEF Life_Safety_Point_Init, Intact
    <2> QED BY <1>3, <2>2 DEF Shaped, Life_Safety_Point_Init
  <1>11. Shaped("lc", o["lc"])
    <2>1. objects.lc = o["lc"] BY <1>2
    <2> QED BY <2>1, OutputsInit, LoadsShaped DEF OutputsInv
  <1>12. Shaped("tl", o["tl"])
    <2>1. Indices("tl") = Trend_Log_Instances BY Zenon DEF Indices, Object_Instances
    <2>2. ASSUME NEW n \in Indices("tl")
          PROVE  n \in DOMAIN o["tl"] /\ Intact("tl", o["tl"][n])
      <3>1. PICK log : log = Trend_Log_Init[n] OBVIOUS
      <3>2. \A f \in Settings : f \in DOMAIN log
        BY <2>1, <3>1, FieldsOfEach, Zenon DEF Trend_Log_Init, Settings
      <3>3. Intact("tl", log) BY <3>2, NotCommandable DEF Intact, Settings
      <3>4. n \in DOMAIN Trend_Log_Init BY <2>1, Zenon DEF Trend_Log_Init
      <3> QED BY <1>3, <3>1, <3>3, <3>4
    <2>3. Trend_Log_Init = [n \in DOMAIN Trend_Log_Init |-> Trend_Log_Init[n]]
      BY Zenon DEF Trend_Log_Init
    <2> QED BY <1>3, <2>2, <2>3 DEF Shaped
  <1>13. \A T \in Writable : Shaped(T, o[T])
    BY <1>6, <1>7, <1>8, <1>9, <1>10, <1>11, <1>12 DEF Writable, Commandable
  <1> QED BY <1>2, <1>3, <1>4, <1>13 DEF Shape, Formed

LEMMA OneReplaced ==
  ASSUME NEW o, Formed(o), NEW T \in Types, NEW y,
         T \in Writable => Shaped(T, y), T = "device" => DeviceFields \subseteq DOMAIN y,
         NEW a, a = [o EXCEPT ![T] = y]
  PROVE  Formed(a)
  <1>1. /\ T \in DOMAIN o /\ DOMAIN a = DOMAIN o /\ a[T] = y
        /\ \A t \in DOMAIN o \ {T} : a[t] = o[t]
        /\ a = [t \in DOMAIN a |-> a[t]]
    BY DEF Formed
  <1>2. "device" \in DOMAIN o /\ \A t \in Writable : t \in DOMAIN o
    BY SomeInstances DEF Formed, Types
  <1>3. DeviceFields \subseteq DOMAIN a["device"] BY <1>1, <1>2 DEF Formed
  <1>4. \A t \in Writable : Shaped(t, a[t]) BY <1>1, <1>2 DEF Formed
  <1> QED BY <1>1, <1>3, <1>4 DEF Formed

LEMMA LoggedShaped ==
  ASSUME NEW tl, Shaped("tl", tl), NEW time, NEW values, NEW flags, NEW after,
         after = trend_log_timer(tl, time, values, flags)
  PROVE  Shaped("tl", after)
  <1>1. DOMAIN after = DOMAIN tl /\ after = [n \in DOMAIN after |-> after[n]]
    BY Zenon DEF trend_log_timer
  <1>2. ASSUME NEW n \in Indices("tl") PROVE n \in DOMAIN after /\ Intact("tl", after[n])
    <2>1. PICK log : log = tl[n] OBVIOUS
    <2>2. n \in DOMAIN tl /\ Intact("tl", log) BY <2>1 DEF Shaped
    <2>3. PICK fetched : fetched = TL_fetch_property(log, time, values[n], flags[n]) OBVIOUS
    <2>4. after[n] \in {log, [log EXCEPT !.trigger = FALSE], [fetched EXCEPT !.trigger = FALSE]}
      BY <2>1, <2>2, <2>3 DEF trend_log_timer
    <2>5. DOMAIN fetched = DOMAIN log
      <3>1. PICK stamped : stamped = [log EXCEPT !.last = time] OBVIOUS
      <3>2. \E record : fetched = Recorded(stamped, record)
        BY <2>3, <3>1 DEF TL_fetch_property
      <3>3. DOMAIN stamped = DOMAIN log BY <3>1
      <3>4. Settings \subseteq DOMAIN stamped BY <2>2, <3>3 DEF Intact, Settings
      <3> QED BY <3>2, <3>3, <3>4, RecordedKeeps
    <2>6. DOMAIN after[n] = DOMAIN log BY <2>4, <2>5
    <2> QED BY <1>1, <2>2, <2>6, NotCommandable DEF Intact
  <1> QED BY <1>1, <1>2 DEF Shaped

\* What a program sets of an object leaves the object's fields.
LEMMA FieldsKept ==
  ASSUME NEW T \in {"bi", "msi"}, NEW x, Shaped(T, x), NEW y,
         DOMAIN y = DOMAIN x, y = [n \in DOMAIN y |-> y[n]],
         \A n \in DOMAIN x : DOMAIN y[n] = DOMAIN x[n]
  PROVE  Shaped(T, y)
  BY NotCommandable DEF Shaped, Intact

LEMMA NamedShaped ==
  ASSUME NEW msi, Shaped("msi", msi), NEW text, NEW s
  PROVE  Shaped("msi", Multistate_Input_State_Text_Set(Multistate_Input_Description_Set(
                            Multistate_Input_Name_Set(msi, 0, text), 0, text), 0, s, text))
  <1>1. PICK x : x = Multistate_Input_Name_Set(msi, 0, text) OBVIOUS
  <1>2. Shaped("msi", x)
    <2>1. /\ DOMAIN x = DOMAIN msi /\ x = [n \in DOMAIN x |-> x[n]]
          /\ \A n \in DOMAIN msi : DOMAIN x[n] = DOMAIN msi[n]
      BY <1>1 DEF Multistate_Input_Name_Set
    <2> QED BY <2>1, FieldsKept
  <1>3. PICK y : y = Multistate_Input_Description_Set(x, 0, text) OBVIOUS
  <1>4. Shaped("msi", y)
    <2>1. /\ DOMAIN y = DOMAIN x /\ y = [n \in DOMAIN y |-> y[n]]
          /\ \A n \in DOMAIN x : DOMAIN y[n] = DOMAIN x[n]
      BY <1>3 DEF Multistate_Input_Description_Set
    <2> QED BY <1>2, <2>1, FieldsKept
  <1>5. PICK z : z = Multistate_Input_State_Text_Set(y, 0, s, text) OBVIOUS
  <1>6. Shaped("msi", z) BY <1>4, <1>5, FieldsKept DEF Multistate_Input_State_Text_Set
  <1> QED BY <1>1, <1>3, <1>5, <1>6

LEMMA NoRequestDecoded == Decoded(NoRequest)
  BY DEF Decoded, NoRequest

LEMMA WriteSettles ==
  ASSUME Shape, NEW wp, Decoded(wp), NEW segmented, Answers(wp, segmented)
  PROVE  Shape' /\ Settled
  <1>1. PICK w : w = handler_write_property(objects, now, wp, segmented) OBVIOUS
  <1>2. objects' = w.after /\ exchange' = [wp |-> wp, reply |-> w.reply] BY <1>1 DEF Answers
  <1>3. exchange'.wp = wp /\ exchange'.reply = w.reply BY <1>2
  <1>4. WriteAnswered(objects, wp, w) BY <1>1, ServiceTaken DEF Shape
  <1>5. CASE w.after = objects /\ w.reply[1] # "ack"
    <2>1. objects' = objects BY <1>2, <1>5
    <2> QED BY <1>3, <1>5, <2>1 DEF Shape, Settled
  <1>6. CASE Taken(objects, wp, w)
    <2>1. Formed(objects') BY <1>2, <1>6 DEF Taken
    <2>2. Shape' BY <2>1 DEF Shape
    <2>3. /\ \A T \in Types \ {wp.type} : objects'[T] = objects[T]
          /\ wp.type # "device" =>
                \A n \in Object_Instances(objects.device, wp.type) \ {wp.instance} :
                    objects'[wp.type][n] = objects[wp.type][n]
      BY <1>2, <1>6 DEF Taken
    <2>4. ASSUME ~Forgotten(wp) PROVE (ReadBack(exchange.wp) = Ack(Expected(exchange.wp)))'
      <3>1. Retrieved(objects', now', wp) BY <1>2, <1>6, <2>4 DEF Taken
      <3>2. Retrieved(objects, now, exchange.wp)' BY <1>3, <3>1
      <3>3. (Retrieved(objects, now, exchange.wp) =>
                ReadBack(exchange.wp) = Ack(Expected(exchange.wp)))'
        BY ReadsBack, PTL
      <3> QED BY <3>2, <3>3
    <2>5. OneWritten(wp) BY <2>3, <2>4, Zenon DEF OneWritten
    <2>6. w.reply[1] = "ack" BY <1>6 DEF Taken
    <2> QED BY <1>3, <2>2, <2>5, <2>6 DEF Settled
  <1> QED BY <1>4, <1>5, <1>6 DEF WriteAnswered

LEMMA ShapeNext == OutputsInv /\ Shape /\ [DeviceServerNext]_deviceVars => Shape' /\ Settled
  <1> SUFFICES ASSUME OutputsInv, Shape, [DeviceServerNext]_deviceVars
               PROVE  Shape' /\ Settled
    OBVIOUS
  <1>a. Formed(objects) BY DEF Shape
  <1>b. \A T \in Writable : Shaped(T, objects[T]) BY <1>a DEF Formed
  <1>c. {"file", "tl", "ai", "bi", "msi", "device", "lc", "ao"} \subseteq Types
        /\ "file" \notin Writable /\ "ai" \notin Writable /\ "device" \notin Writable
        /\ {"tl", "bi", "msi", "lc", "ao"} \subseteq Writable
    BY DEF Types, Writable, Commandable
  <1>d. Formed(objects') => Shape' BY DEF Shape
  <1>e. exchange' = exchange \/ exchange' = NoExchange => Settled BY DEF Settled
  <1>1. CASE WriteProperty
    <2>1. PICK wp \in Requests[served] : Answers(wp, FALSE) BY <1>1 DEF WriteProperty
    <2>2. PICK k \in DOMAIN Object_Table : Object_Table[k] = served
      BY DEF OutputsInv, Device_Objects_Find_Functions
    <2>3. Decoded(wp) BY <2>1, <2>2, RequestsAssumption
    <2> QED BY <2>1, <2>3, WriteSettles
  <1>2. CASE WriteSegmented
    <2>1. PICK wp, segmented : Decoded(wp) /\ Answers(wp, segmented)
      BY <1>2, NoRequestDecoded, Zenon DEF WriteSegmented
    <2> QED BY <2>1, WriteSettles
  <1>3. CASE AtomicWriteFile
    <2>1. PICK v : objects' = [objects EXCEPT !["file"] = v] BY <1>3 DEF AtomicWriteFile
    <2>2. Formed(objects') BY <1>a, <1>c, <2>1, OneReplaced
    <2> QED BY <1>3, <1>d, <1>e, <2>2 DEF AtomicWriteFile
  <1>4. CASE Load_Control_Task
    <2>1. PICK s : s = Load_Control_State_Machine_Handler(objects.lc, objects.ao, now' - lag) OBVIOUS
    <2>2. /\ objects' = [objects EXCEPT !.lc = s.lc, !.ao = s.ao] /\ exchange' = NoExchange
          /\ served = "lc"
      BY <1>4, <2>1 DEF Load_Control_Task
    <2>3. LoadsOK(objects.lc) /\ FirstOK("ao", objects.ao)
      BY <2>2 DEF OutputsInv, Watched, Commandable
    <2>4. LoadsOK(s.lc) /\ Shifted(objects.ao, s.ao) BY <2>1, <2>3, HandlerOK DEF LoadsStepOK
    <2>5. Shaped("lc", s.lc) /\ Shaped("ao", s.ao) BY <1>b, <1>c, <2>4, LoadsShaped DEF Shifted
    <2>6. PICK a : a = [objects EXCEPT !["lc"] = s.lc] OBVIOUS
    <2>7. Formed(a) BY <1>a, <1>c, <2>5, <2>6, OneReplaced
    <2>8. objects' = [a EXCEPT !["ao"] = s.ao] BY <2>2, <2>6
    <2>9. Formed(objects') BY <1>c, <2>5, <2>7, <2>8, OneReplaced
    <2> QED BY <1>d, <1>e, <2>2, <2>9
  <1>5. CASE Trend_Log_Task
    <2>1. PICK values, flags :
            objects' = [objects EXCEPT !["tl"] = trend_log_timer(objects["tl"], now, values, flags)]
      BY <1>5 DEF Trend_Log_Task
    <2>2. PICK y : y = trend_log_timer(objects["tl"], now, values, flags) OBVIOUS
    <2>3. Shaped("tl", y) BY <1>b, <1>c, <2>2, LoggedShaped
    <2>4. Formed(objects') BY <1>a, <1>c, <2>1, <2>2, <2>3, OneReplaced
    <2> QED BY <1>5, <1>d, <1>e, <2>4 DEF Trend_Log_Task
  <1>6. CASE Analog_Input_Moves
    <2>1. PICK v : objects' = [objects EXCEPT !["ai"] = v] BY <1>6 DEF Analog_Input_Moves
    <2>2. Formed(objects') BY <1>a, <1>c, <2>1, OneReplaced
    <2> QED BY <1>6, <1>d, <1>e, <2>2 DEF Analog_Input_Moves
  <1>7. CASE Binary_Input_Moves
    <2>1. PICK v : objects' = [objects EXCEPT !["bi"] =
                        Binary_Input_Present_Value_Set(objects["bi"], 0, v)]
      BY <1>7 DEF Binary_Input_Moves
    <2>2. PICK x : x = objects["bi"] OBVIOUS
    <2>3. PICK y : y = Binary_Input_Present_Value_Set(x, 0, v) OBVIOUS
    <2>4. Shaped("bi", y)
      BY <1>b, <1>c, <2>2, <2>3, FieldsKept DEF Binary_Input_Present_Value_Set
    <2>5. Formed(objects') BY <1>a, <1>c, <2>1, <2>2, <2>3, <2>4, OneReplaced
    <2> QED BY <1>7, <1>d, <1>e, <2>5 DEF Binary_Input_Moves
  <1>8. CASE Multistate_Input_Named
    <2>1. PICK text : objects' = [objects EXCEPT !["msi"] =
            Multistate_Input_State_Text_Set(Multistate_Input_Description_Set(
                Multistate_Input_Name_Set(objects["msi"], 0, text), 0, text), 0, 1 + (text % 2), text)]
      BY <1>8 DEF Multistate_Input_Named
    <2>2. PICK y : y = Multistate_Input_State_Text_Set(Multistate_Input_Description_Set(
                Multistate_Input_Name_Set(objects["msi"], 0, text), 0, text), 0, 1 + (text % 2), text)
      OBVIOUS
    <2>3. Shaped("msi", y) BY <1>b, <1>c, <2>2, NamedShaped
    <2>4. Formed(objects') BY <1>a, <1>c, <2>1, <2>2, <2>3, OneReplaced
    <2> QED BY <1>8, <1>d, <1>e, <2>4 DEF Multistate_Input_Named
  <1>9. CASE System_Status_Moves
    <2>1. PICK status : objects' = [objects EXCEPT !["device"] =
                            Device_Set_System_Status(objects["device"], status, TRUE).after]
      BY <1>9 DEF System_Status_Moves
    <2>2. PICK d : d = objects["device"] OBVIOUS
    <2>3. PICK y : y = Device_Set_System_Status(d, status, TRUE).after OBVIOUS
    <2>4. DOMAIN y = DOMAIN d BY <2>3 DEF Device_Set_System_Status, Done, Refused
    <2>5. DeviceFields \subseteq DOMAIN y BY <1>a, <2>2, <2>4 DEF Formed
    <2>6. Formed(objects') BY <1>a, <1>c, <2>1, <2>2, <2>3, <2>5, OneReplaced
    <2> QED BY <1>9, <1>d, <1>e, <2>6 DEF System_Status_Moves
  <1>10. CASE ClockTick BY <1>a, <1>d, <1>e, <1>10 DEF ClockTick
  <1>11. CASE UNCHANGED deviceVars BY <1>a, <1>d, <1>e, <1>11 DEF deviceVars
  <1> QED BY <1>1, <1>2, <1>3, <1>4, <1>5, <1>6, <1>7, <1>8, <1>9, <1>10, <1>11
      DEF DeviceServerNext

\* Of every property of every object type, whatever was written before and in
\* whatever order: a write that is refused changes nothing, and one that is
\* acknowledged changes its object alone.  What the next read returns is what was
\* written, as wide and as exact as the device keeps it, with three exceptions that
\* the code acknowledges and does not keep (Forgotten): shed_levels of a load
\* control written as a whole, any property of a file, and record_count of a log.
\* A write that repeats the last one, reply and all, is not compared again.
THEOREM WrittenTheorem == DeviceServerSpec => WrittenIsRead
  <1>1. OutputsInv /\ [DeviceServerNext]_deviceVars => OutputsInv' BY OutputsNext
  <1> QED BY OutputsInit, <1>1, ShapeInit, ShapeNext, PTL DEF DeviceServerSpec, WrittenIsRead

-----------------------------------------------------------------------------
(* The object list and the names, for any number of objects of each type. *)
LEMMA Joined ==
  ASSUME NEW S, NEW a, NEW b, a \in Seq(S), b \in Seq(S)
  PROVE  /\ a \o b \in Seq(S) /\ Len(a \o b) = Len(a) + Len(b)
         /\ \A k \in 1 .. Len(a) : (a \o b)[k] = a[k]
         /\ \A k \in 1 .. Len(b) : (a \o b)[Len(a) + k] = b[k]
  <1>1. ASSUME NEW k \in 1 .. Len(b) PROVE (a \o b)[Len(a) + k] = b[k]
    <2>1. Len(a) \in Nat /\ Len(b) \in Nat OBVIOUS
    <2>2. PICK i : i = Len(a) + k OBVIOUS
    <2>3. i \in 1 .. Len(a) + Len(b) /\ ~(i <= Len(a)) /\ i - Len(a) = k BY <2>1, <2>2
    <2>4. (a \o b)[i] = b[i - Len(a)] BY <2>3
    <2> QED BY <2>2, <2>3, <2>4
  <1> QED BY <1>1

LEMMA TableOnce ==
  /\ Len(Object_Table) \in Nat /\ DOMAIN Object_Table = 1 .. Len(Object_Table)
  /\ \A k \in DOMAIN Object_Table : Object_Table[k] \in Types
  /\ \A j, k \in DOMAIN Object_Table : Object_Table[j] = Object_Table[k] => j = k
  <1> DEFINE always == << "device", "ai", "ao", "av", "bi", "bo", "bv", "lsp", "lc", "mso", "msi", "tl" >>
             lighting == IF "lo" \in Added THEN << "lo" >> ELSE << >>
             files == IF "file" \in Added THEN << "file" >> ELSE << >>
             Always == Types \ {"lo", "file"}
  <1>1. \A k \in DOMAIN Object_Table : Object_Table[k] \in Types
    BY TableOfTypes DEF Device_Objects_Find_Functions
  <1>2. /\ always \in Seq(Always) /\ Len(always) = 12
        /\ \A j, k \in 1 .. 12 : always[j] = always[k] => j = k
    <2>1. \A j, k \in 1 .. 12 : always[j] = always[k] => j = k OBVIOUS
    <2> QED BY <2>1 DEF Types
  <1>3. /\ lighting \in Seq({"lo"}) /\ Len(lighting) \in {0, 1}
        /\ files \in Seq({"file"}) /\ Len(files) \in {0, 1}
    <2>1. lighting = << "lo" >> \/ lighting = << >> OBVIOUS
    <2>2. files = << "file" >> \/ files = << >> OBVIOUS
    <2>3. << "lo" >> \in Seq({"lo"}) /\ << >> \in Seq({"lo"}) OBVIOUS
    <2>4. << "file" >> \in Seq({"file"}) /\ << >> \in Seq({"file"}) OBVIOUS
    <2>5. Len(<< "lo" >>) = 1 /\ Len(<< "file" >>) = 1 /\ Len(<< >>) = 0 OBVIOUS
    <2> HIDE DEF lighting, files
    <2> QED BY <2>1, <2>2, <2>3, <2>4, <2>5
  <1>4. Object_Table = always \o lighting \o files BY DEF Object_Table
  <1>5. \A k \in 1 .. 12 : always[k] \notin {"lo", "file"} BY <1>2
  <1> HIDE DEF always, lighting, files, Always
  <1>6. PICK a, l, f : a = always /\ l = lighting /\ f = files OBVIOUS
  <1>7. /\ Len(a \o l \o f) = 12 + Len(l) + Len(f)
        /\ DOMAIN (a \o l \o f) = 1 .. 12 + Len(l) + Len(f)
        /\ \A k \in 1 .. 12 : (a \o l \o f)[k] = a[k]
        /\ \A k \in 1 .. Len(l) : (a \o l \o f)[12 + k] = "lo"
        /\ \A k \in 1 .. Len(f) : (a \o l \o f)[12 + Len(l) + k] = "file"
    <2>1. PICK S : a \in Seq(S) /\ l \in Seq(S) /\ f \in Seq(S) /\ Len(a) = 12
      <3>1. PICK A : a \in Seq(A) BY <1>2, <1>6
      <3>2. PICK S : S = A \cup {"lo"} \cup {"file"} OBVIOUS
      <3>3. a \in Seq(S) BY <3>1, <3>2
      <3>4. l \in Seq(S) /\ f \in Seq(S) BY <1>3, <1>6, <3>2
      <3> QED BY <1>2, <1>6, <3>3, <3>4
    <2>2. PICK b : b = a \o l OBVIOUS
    <2>3. /\ b \in Seq(S) /\ Len(b) = 12 + Len(l) /\ \A k \in 1 .. 12 : b[k] = a[k]
          /\ \A k \in 1 .. Len(l) : b[12 + k] = l[k]
      <3>1. /\ a \o l \in Seq(S) /\ Len(a \o l) = Len(a) + Len(l)
            /\ \A k \in 1 .. Len(a) : (a \o l)[k] = a[k]
            /\ \A k \in 1 .. Len(l) : (a \o l)[Len(a) + k] = l[k]
        <4>1. a \in Seq(S) /\ l \in Seq(S) BY <2>1
        <4> QED BY <4>1, Joined
      <3>2. /\ b \in Seq(S) /\ Len(b) = Len(a) + Len(l)
            /\ \A k \in 1 .. Len(a) : b[k] = a[k]
            /\ \A k \in 1 .. Len(l) : b[Len(a) + k] = l[k]
        BY <2>2, <3>1, Zenon
      <3> QED BY <2>1, <3>2
    <2>4. /\ b \o f \in Seq(S) /\ Len(b \o f) = 12 + Len(l) + Len(f)
          /\ \A k \in 1 .. 12 + Len(l) : (b \o f)[k] = b[k]
          /\ \A k \in 1 .. Len(f) : (b \o f)[12 + Len(l) + k] = f[k]
      BY <2>1, <2>3
    <2>5. /\ \A k \in 1 .. Len(l) : l[k] = "lo"
          /\ \A k \in 1 .. Len(f) : f[k] = "file"
      BY <1>3, <1>6
    <2>6. DOMAIN (b \o f) = 1 .. 12 + Len(l) + Len(f) BY <2>4
    <2>7. Len(l) \in Nat /\ Len(f) \in Nat BY <2>1
    <2>8. \A k \in 1 .. 12 : (b \o f)[k] = a[k] BY <2>3, <2>4, <2>7
    <2>9. \A k \in 1 .. Len(l) : (b \o f)[12 + k] = "lo"
      <3>1. SUFFICES ASSUME NEW k \in 1 .. Len(l) PROVE (b \o f)[12 + k] = "lo" OBVIOUS
      <3>2. 12 + k \in 1 .. 12 + Len(l) BY <2>7
      <3> QED BY <2>3, <2>4, <2>5, <3>2
    <2> QED BY <2>2, <2>4, <2>5, <2>6, <2>8, <2>9
  <1>8. PICK t : t = a \o l \o f OBVIOUS
  <1>9. ASSUME NEW j \in DOMAIN t, NEW k \in DOMAIN t, t[j] = t[k]
        PROVE  j = k
    <2>1. Len(l) \in {0, 1} /\ Len(f) \in {0, 1} BY <1>3, <1>6
    <2>2. \A i \in DOMAIN t : \/ i \in 1 .. 12 /\ t[i] = a[i] /\ a[i] \notin {"lo", "file"}
                              \/ i = 13 /\ Len(l) = 1 /\ t[i] = "lo"
                              \/ i = 12 + Len(l) + 1 /\ Len(f) = 1 /\ t[i] = "file"
      <3>1. SUFFICES ASSUME NEW i \in 1 .. 12 + Len(l) + Len(f)
                     PROVE  \/ i \in 1 .. 12 /\ t[i] = a[i] /\ a[i] \notin {"lo", "file"}
                            \/ i = 13 /\ Len(l) = 1 /\ t[i] = "lo"
                            \/ i = 12 + Len(l) + 1 /\ Len(f) = 1 /\ t[i] = "file"
        BY <1>7, <1>8
      <3>2. CASE i \in 1 .. 12 BY <1>5, <1>6, <1>7, <1>8, <3>2
      <3>3. CASE i = 13 /\ Len(l) = 1
        <4>1. t[12 + 1] = "lo" BY <1>7, <1>8, <3>3
        <4> QED BY <3>3, <4>1
      <3>4. CASE i = 12 + Len(l) + 1 /\ Len(f) = 1
        <4>1. t[12 + Len(l) + 1] = "file" BY <1>7, <1>8, <3>4
        <4> QED BY <3>4, <4>1
      <3>5. i \in 1 .. 12 \/ (i = 13 /\ Len(l) = 1) \/ (i = 12 + Len(l) + 1 /\ Len(f) = 1)
        <4>1. PICK p, q : p = Len(l) /\ q = Len(f) OBVIOUS
        <4>2. p \in {0, 1} /\ q \in {0, 1} /\ i \in 1 .. 12 + p + q BY <2>1, <3>1, <4>1
        <4>3. i \in 1 .. 12 \/ (i = 13 /\ p = 1) \/ (i = 12 + p + 1 /\ q = 1) BY <4>2
        <4> QED BY <4>1, <4>3
      <3> QED BY <3>2, <3>3, <3>4, <3>5
    <2>3. "lo" # "file" OBVIOUS
    <2> QED BY <1>2, <1>6, <1>9, <2>1, <2>2, <2>3
  <1>10. Object_Table = t BY <1>4, <1>6, <1>8
  <1>11. DOMAIN t = 1 .. Len(t) /\ Len(t) \in Nat BY <1>3, <1>6, <1>7, <1>8
  <1> QED BY <1>1, <1>9, <1>10, <1>11

\* The objects of a type, in the order of Index_To_Instance.
LEMMA Instances ==
  ASSUME NEW d, NEW T \in Types
  PROVE  /\ IsFiniteSet(Object_Instances(d, T)) /\ Object_Count(d, T) \in Nat
         /\ Object_Instances(d, T)
                = {Object_Index_To_Instance(d, T, m) : m \in 0 .. Object_Count(d, T) - 1}
  <1>1. CASE T = "device"
    <2>1. Object_Instances(d, T) = {d.instance} BY <1>1, Zenon DEF Object_Instances
    <2>2. IsFiniteSet({d.instance}) /\ Cardinality({d.instance}) = 1 BY FS_Singleton
    <2>3. \A m : Object_Index_To_Instance(d, T, m) = d.instance
      BY <1>1 DEF Object_Index_To_Instance
    <2> QED BY <2>1, <2>2, <2>3 DEF Object_Count
  <1>2. CASE T # "device"
    <2>1. PICK n \in Nat : Object_Instances(d, T) = 0 .. n - 1
      <3>1. CASE T \in Commandable
        <4>1. Object_Instances(d, T) = Numbers(T) /\ Extent(T) \in Nat BY <3>1, Counts
        <4> QED BY <4>1 DEF Numbers
      <3>2. CASE T = "file"
        <4>1. Object_Instances(d, T) = bacfile_Instances BY <3>2, Zenon DEF Object_Instances
        <4>2. Len(Files) \in Nat BY FilesAssumption
        <4> QED BY <4>1, <4>2 DEF bacfile_Instances
      <3>3. CASE T \in {"ai", "bi", "msi", "lsp"}
        <4>1. /\ MAX_ANALOG_INPUTS \in Nat /\ MAX_BINARY_INPUTS \in Nat
              /\ MAX_MULTISTATE_INPUTS \in Nat /\ MAX_LIFE_SAFETY_POINTS \in Nat
          BY InputsAssumption
        <4>2. /\ T = "ai" => Object_Instances(d, T) = Analog_Input_Instances
              /\ T = "bi" => Object_Instances(d, T) = Binary_Input_Instances
              /\ T = "msi" => Object_Instances(d, T) = Multistate_Input_Instances
              /\ T = "lsp" => Object_Instances(d, T) = Life_Safety_Point_Instances
          BY Zenon DEF Object_Instances
        <4> QED BY <3>3, <4>1, <4>2 DEF Analog_Input_Instances, Binary_Input_Instances,
                Multistate_Input_Instances, Life_Safety_Point_Instances
      <3>4. CASE T = "lc"
        <4>1. Object_Instances(d, T) = Load_Control_Instances BY <3>4, Zenon DEF Object_Instances
        <4>2. MAX_LOAD_CONTROLS \in Nat BY LoadControlAssumption, OutputsAssumption
        <4> QED BY <4>1, <4>2 DEF Load_Control_Instances
      <3>5. CASE T = "tl"
        <4>1. Object_Instances(d, T) = Trend_Log_Instances BY <3>5, Zenon DEF Object_Instances
        <4>2. MAX_TREND_LOGS \in Nat BY TrendLogAssumption
        <4> QED BY <4>1, <4>2 DEF Trend_Log_Instances
      <3> QED BY <1>2, <3>1, <3>2, <3>3, <3>4, <3>5 DEF Types, Commandable
    <2>2. IsFiniteSet(0 .. n - 1) /\ Cardinality(0 .. n - 1) = n
      <3>1. IsFiniteSet(0 .. n - 1)
            /\ Cardinality(0 .. n - 1) = IF 0 > n - 1 THEN 0 ELSE n - 1 - 0 + 1
        BY FS_Interval
      <3> QED BY <3>1
    <2>3. \A m : Object_Index_To_Instance(d, T, m) = m
      BY <1>2 DEF Object_Index_To_Instance
    <2> QED BY <2>1, <2>2, <2>3 DEF Object_Count
  <1> QED BY <1>1, <1>2

\* How many objects the first types have: each type adds its own.
LEMMA ListCounts ==
  ASSUME NEW d
  PROVE  /\ \A k \in 0 .. Len(Object_Table) : /\ IsFiniteSet(Objects_Of(d, k))
                                              /\ Cardinality(Objects_Of(d, k)) \in Nat
         /\ Cardinality(Objects_Of(d, 0)) = 0
         /\ \A k \in 1 .. Len(Object_Table) :
                Cardinality(Objects_Of(d, k))
                    = Cardinality(Objects_Of(d, k - 1)) + Object_Count(d, Object_Table[k])
         /\ \A j, k \in 0 .. Len(Object_Table) :
                j <= k => Cardinality(Objects_Of(d, j)) <= Cardinality(Objects_Of(d, k))
  <1> DEFINE n == Len(Object_Table)
             I(k) == Object_Instances(d, Object_Table[k])
             Block(k) == {Object_Table[k]} \X I(k)
  <1>1. /\ n \in Nat
        /\ \A j, k \in 1 .. n : Object_Table[j] = Object_Table[k] => j = k
        /\ \A k \in 1 .. n : Object_Table[k] \in Types
    BY TableOnce
  <1>2. ASSUME NEW k \in 1 .. n
        PROVE  /\ IsFiniteSet(Block(k)) /\ Cardinality(Block(k)) = Object_Count(d, Object_Table[k])
               /\ Object_Count(d, Object_Table[k]) \in Nat
    <2>1. IsFiniteSet(I(k)) /\ Cardinality(I(k)) \in Nat BY <1>1, Instances DEF Object_Count
    <2>2. IsFiniteSet({Object_Table[k]}) /\ Cardinality({Object_Table[k]}) = 1 BY FS_Singleton
    <2>3. IsFiniteSet(Block(k)) /\ Cardinality(Block(k)) = 1 * Cardinality(I(k))
      BY <2>1, <2>2, FS_Product
    <2> QED BY <2>1, <2>3 DEF Object_Count
  <1>3. \A k : Objects_Of(d, k) = UNION {Block(j) : j \in 1 .. k} BY DEF Objects_Of
  <1>4. ASSUME NEW k \in 0 .. n
        PROVE  IsFiniteSet(Objects_Of(d, k)) /\ Cardinality(Objects_Of(d, k)) \in Nat
    <2> DEFINE f == [j \in 1 .. k |-> Block(j)]
               B == {Block(j) : j \in 1 .. k}
    <2>1. IsFiniteSet(1 .. k) BY FS_Interval
    <2>2. f \in Surjection(1 .. k, B) BY DEF Surjection
    <2>3. IsFiniteSet(B) BY <2>1, <2>2, FS_Surjection
    <2>4. \A b \in B : IsFiniteSet(b) BY <1>1, <1>2
    <2> HIDE DEF B
    <2>5. IsFiniteSet(UNION B) BY <2>3, <2>4, FS_UNION
    <2>6. IsFiniteSet(Objects_Of(d, k)) BY <1>3, <2>5 DEF B
    <2> QED BY <2>6, FS_CardinalityType
  <1>5. Cardinality(Objects_Of(d, 0)) = 0
    <2>1. Objects_Of(d, 0) = {} BY <1>3
    <2> QED BY <2>1, FS_EmptySet
  <1>6. ASSUME NEW k \in 1 .. n
        PROVE  Cardinality(Objects_Of(d, k))
                = Cardinality(Objects_Of(d, k - 1)) + Object_Count(d, Object_Table[k])
    <2>1. k - 1 \in 0 .. n /\ IsFiniteSet(Objects_Of(d, k - 1))
          /\ Cardinality(Objects_Of(d, k - 1)) \in Nat
      <3>1. k - 1 \in 0 .. n BY <1>1
      <3> QED BY <1>4, <3>1
    <2>2. Objects_Of(d, k) = Objects_Of(d, k - 1) \cup Block(k)
      <3>1. 1 .. k = (1 .. (k - 1)) \cup {k} BY <1>1
      <3> HIDE DEF Block
      <3> QED BY <1>3, <3>1
    <2>3. Objects_Of(d, k - 1) \cap Block(k) = {}
      <3>1. SUFFICES ASSUME NEW e \in Objects_Of(d, k - 1), e \in Block(k) PROVE FALSE OBVIOUS
      <3>2. PICK j \in 1 .. (k - 1) : e \in Block(j) BY <1>3
      <3>3. Object_Table[j] = Object_Table[k] BY <3>1, <3>2
      <3> QED BY <1>1, <3>3
    <2>4. Cardinality(Objects_Of(d, k - 1) \cup Block(k))
            = Cardinality(Objects_Of(d, k - 1)) + Cardinality(Block(k))
                - Cardinality(Objects_Of(d, k - 1) \cap Block(k))
      BY <1>2, <2>1, FS_Union
    <2>5. Cardinality({}) = 0 BY FS_EmptySet
    <2>6. Cardinality(Block(k)) = Object_Count(d, Object_Table[k])
          /\ Object_Count(d, Object_Table[k]) \in Nat
      BY <1>2
    <2>7. PICK before, block : before = Objects_Of(d, k - 1) /\ block = Block(k) OBVIOUS
    <2>8. Cardinality(Objects_Of(d, k)) = Cardinality(before) + Cardinality(block) - 0
      BY <2>2, <2>3, <2>4, <2>5, <2>7
    <2>9. Cardinality(before) \in Nat /\ Cardinality(block) \in Nat BY <2>1, <2>6, <2>7
    <2>10. Cardinality(before) + Cardinality(block) - 0 = Cardinality(before) + Cardinality(block)
      BY <2>9
    <2> QED BY <2>6, <2>7, <2>8, <2>10
  <1>7. ASSUME NEW j \in 0 .. n, NEW k \in 0 .. n, j <= k
        PROVE  Cardinality(Objects_Of(d, j)) <= Cardinality(Objects_Of(d, k))
    <2>1. 1 .. j \subseteq 1 .. k BY <1>7
    <2>2. Objects_Of(d, j) \subseteq Objects_Of(d, k) BY <1>3, <2>1
    <2> QED BY <1>4, <2>2, FS_Subset
  <1> QED BY <1>4, <1>5, <1>6, <1>7

\* The place of an object in the list: after those of the earlier types, and
\* after those of its own type that come before it.
Place(d, k, m) == CountedBefore(d, k) + 1 + m
Identifier(d, k, m) == << Object_Table[k], Object_Index_To_Instance(d, Object_Table[k], m) >>
Indexed(d, k) == 0 .. Object_Count(d, Object_Table[k]) - 1

LEMMA PlaceListed ==
  ASSUME NEW d, NEW k \in DOMAIN Object_Table, NEW m \in Indexed(d, k)
  PROVE  /\ Place(d, k, m) \in 1 .. Device_Object_List_Count(d)
         /\ Device_Object_List_Identifier(d, Place(d, k, m)) = {Identifier(d, k, m)}
         /\ Listed(d, Place(d, k, m)) = Identifier(d, k, m)
  <1> DEFINE n == Len(Object_Table)
             C(j) == Cardinality(Objects_Of(d, j))
             Count(j) == Object_Count(d, Object_Table[j])
             i == Place(d, k, m)
  <1>1. /\ n \in Nat /\ DOMAIN Object_Table = 1 .. n /\ k \in 1 .. n
        /\ \A j \in 1 .. n : Object_Table[j] \in Types
    BY TableOnce
  <1>2. /\ \A j \in 0 .. n : C(j) \in Nat
        /\ \A j \in 1 .. n : C(j) = C(j - 1) + Count(j)
        /\ \A j, l \in 0 .. n : j <= l => C(j) <= C(l)
    BY ListCounts
  <1>3. \A j : CountedBefore(d, j) = C(j - 1) BY DEF CountedBefore
  <1>4. \A j \in 1 .. n : Count(j) \in Nat BY <1>1, Instances
  <1>5. i = C(k - 1) + 1 + m BY <1>3 DEF Place
  <1> HIDE DEF C, Count, i
  <1>6. m \in 0 .. Count(k) - 1 BY DEF Indexed, Count
  <1>7. i \in C(k - 1) + 1 .. C(k)
    <2>1. C(k) = C(k - 1) + Count(k) /\ C(k - 1) \in Nat /\ Count(k) \in Nat
      BY <1>1, <1>2, <1>4
    <2> QED BY <1>5, <1>6, <2>1
  <1>8. i \in 1 .. C(n)
    <2>1. C(k - 1) \in Nat /\ C(k) \in Nat /\ C(n) \in Nat BY <1>1, <1>2
    <2>2. C(k) <= C(n) BY <1>1, <1>2
    <2> QED BY <1>7, <2>1, <2>2
  <1>9. ASSUME NEW j \in 1 .. n, i - C(j - 1) \in 1 .. Count(j)
        PROVE  j = k
    <2>1. i \in C(j - 1) + 1 .. C(j)
      <3>1. C(j) = C(j - 1) + Count(j) /\ C(j) \in Nat /\ C(j - 1) \in Nat /\ Count(j) \in Nat
        BY <1>1, <1>2, <1>4
      <3>2. i \in Int BY <1>8
      <3> QED BY <1>9, <3>1, <3>2
    <2>2. ~(j < k)
      <3>1. SUFFICES ASSUME j < k PROVE FALSE OBVIOUS
      <3>2. j \in 0 .. n /\ k - 1 \in 0 .. n /\ j <= k - 1 BY <1>1, <3>1
      <3>3. C(j) <= C(k - 1) /\ C(j) \in Nat /\ C(k - 1) \in Nat BY <1>2, <3>2
      <3> QED BY <1>7, <2>1, <3>3
    <2>3. ~(k < j)
      <3>1. SUFFICES ASSUME k < j PROVE FALSE OBVIOUS
      <3>2. k \in 0 .. n /\ j - 1 \in 0 .. n /\ k <= j - 1 BY <1>1, <3>1
      <3>3. C(k) <= C(j - 1) /\ C(k) \in Nat /\ C(j - 1) \in Nat BY <1>2, <3>2
      <3> QED BY <1>7, <2>1, <3>3
    <2> QED BY <1>1, <2>2, <2>3
  <1>10. i - C(k - 1) \in 1 .. Count(k) /\ i - 1 - C(k - 1) = m
    <2>1. C(k - 1) \in Nat /\ Count(k) \in Nat BY <1>1, <1>2, <1>4
    <2> QED BY <1>5, <1>6, <2>1
  <1>11. {j \in DOMAIN Object_Table : i - CountedBefore(d, j) \in 1 .. Object_Count(d, Object_Table[j])}
            = {k}
    <2>1. \A j : Object_Count(d, Object_Table[j]) = Count(j) BY DEF Count
    <2> QED BY <1>1, <1>3, <1>9, <1>10, <2>1
  <1>12. Device_Object_List_Identifier(d, i) = {Identifier(d, k, m)}
    <2>1. i - 1 - CountedBefore(d, k) = m BY <1>3, <1>10
    <2> QED BY <1>11, <2>1 DEF Device_Object_List_Identifier, Identifier
  <1>13. Listed(d, i) = Identifier(d, k, m) BY <1>12 DEF Listed
  <1>14. Device_Object_List_Count(d) = C(n) BY DEF Device_Object_List_Count, C
  <1> QED BY <1>8, <1>12, <1>13, <1>14 DEF i

\* Every place of the list is that of an object.
LEMMA PlaceTaken ==
  ASSUME NEW d, NEW i \in 1 .. Device_Object_List_Count(d)
  PROVE  \E k \in DOMAIN Object_Table : \E m \in Indexed(d, k) : i = Place(d, k, m)
  <1> DEFINE n == Len(Object_Table)
             C(j) == Cardinality(Objects_Of(d, j))
             Count(j) == Object_Count(d, Object_Table[j])
             Reached == {j \in 1 .. n : i <= C(j)}
  <1>1. n \in Nat /\ DOMAIN Object_Table = 1 .. n /\ \A j \in 1 .. n : Object_Table[j] \in Types
    BY TableOnce
  <1>2. /\ \A j \in 0 .. n : C(j) \in Nat
        /\ C(0) = 0
        /\ \A j \in 1 .. n : C(j) = C(j - 1) + Count(j)
    BY ListCounts
  <1>3. \A j : CountedBefore(d, j) = C(j - 1) BY DEF CountedBefore
  <1>4. \A j \in 1 .. n : Count(j) \in Nat BY <1>1, Instances
  <1>5. i \in 1 .. C(n) BY DEF Device_Object_List_Count
  <1>6. \A k, m : Place(d, k, m) = C(k - 1) + 1 + m BY <1>3 DEF Place
  <1>7. \A k : Indexed(d, k) = 0 .. Count(k) - 1 BY DEF Indexed
  <1> HIDE DEF C, Count
  <1>8. n # 0 BY <1>2, <1>5
  <1>9. n \in Reached
    <2>1. C(n) \in Nat BY <1>1, <1>2
    <2> QED BY <1>1, <1>5, <1>8, <2>1
  <1>10. PICK k \in Reached : \A j \in Reached : k <= j
    <2>1. Reached \in SUBSET Nat /\ Reached # {} BY <1>9
    <2> HIDE DEF Reached
    <2> QED BY <2>1, LeastExists
  <1>11. C(k - 1) < i
    <2>1. CASE k = 1
      <3>1. C(k - 1) = 0 BY <1>2, <2>1
      <3> QED BY <1>5, <3>1
    <2>2. CASE k # 1
      <3>1. k - 1 \in 1 .. n /\ ~(k <= k - 1) BY <1>1, <2>2
      <3>2. ~(i <= C(k - 1)) BY <1>10, <3>1
      <3>3. C(k - 1) \in Nat BY <1>2, <3>1
      <3> QED BY <3>2, <3>3
    <2> QED BY <2>1, <2>2
  <1>12. k \in 1 .. n /\ i <= C(k) OBVIOUS
  <1>13. C(k) = C(k - 1) + Count(k) /\ C(k - 1) \in Nat /\ Count(k) \in Nat
    BY <1>1, <1>2, <1>4, <1>12
  <1>14. PICK m : m = i - 1 - C(k - 1) OBVIOUS
  <1>15. m \in 0 .. Count(k) - 1 /\ i = C(k - 1) + 1 + m
    BY <1>5, <1>11, <1>12, <1>13, <1>14
  <1> QED BY <1>1, <1>6, <1>7, <1>12, <1>15

\* The object list has every object of the device exactly once, at any index of
\* it and nowhere else; and a name leads to the first object of that name, never
\* to another, but for the last object of the list, which is never compared.
THEOREM FoundTheorem == DeviceServerSpec => []FoundByName
  <1> DEFINE d == objects.device
             count == Device_Object_List_Count(d)
             entries == UNION {{i} \X Device_Object_List_Identifier(d, i) : i \in 1 .. count}
             Name(id) == Device_Valid_Object_Id(objects, id[1], id[2])
             named == {<< e[1], e[2], Device_Valid_Object_Id(objects, e[2][1], e[2][2]) >> : e \in entries}
             Firsts(name) == {e \in named : e[3] = name /\ e[1] < count
                                 /\ \A c \in named : c[3] = name => e[1] <= c[1]}
  <1>1. count \in Nat
    <2>1. Len(Object_Table) \in 0 .. Len(Object_Table) BY TableOnce
    <2> QED BY <2>1, ListCounts DEF Device_Object_List_Count
  <1>2. \A i \in 1 .. count : Device_Object_List_Identifier(d, i) = {Listed(d, i)}
    <2>1. SUFFICES ASSUME NEW i \in 1 .. count
                   PROVE  Device_Object_List_Identifier(d, i) = {Listed(d, i)}
      OBVIOUS
    <2>2. PICK k \in DOMAIN Object_Table : \E m \in Indexed(d, k) : i = Place(d, k, m)
        BY PlaceTaken
    <2> QED BY <2>2, PlaceListed
  <1>3. entries = {<< i, Listed(d, i) >> : i \in 1 .. count} BY <1>2
  <1>4. Cardinality(entries) = count
    <2> DEFINE f == [i \in 1 .. count |-> << i, Listed(d, i) >>]
    <2>1. f \in Bijection(1 .. count, entries)
      <3> HIDE DEF entries
      <3> QED BY <1>3 DEF Bijection, Injection, Surjection, IsInjective
    <2>2. ExistsBijection(1 .. count, entries) BY <2>1 DEF ExistsBijection
    <2> QED BY <1>1, <2>2, FS_CountingElements
  <1>5. {e[1] : e \in entries} = 1 .. count
    <2> HIDE DEF entries
    <2>1. \A i \in 1 .. count : << i, Listed(d, i) >> \in entries /\ << i, Listed(d, i) >>[1] = i
      BY <1>3
    <2>2. \A e \in entries : e[1] \in 1 .. count BY <1>3
    <2> QED BY <2>1, <2>2
  <1>6. {e[2] : e \in entries} =
            UNION {{Object_Table[k]} \X Object_Instances(d, Object_Table[k]) : k \in DOMAIN Object_Table}
    <2>1. {e[2] : e \in entries} = {Listed(d, i) : i \in 1 .. count}
      <3> HIDE DEF entries
      <3>1. \A i \in 1 .. count : /\ << i, Listed(d, i) >> \in entries
                                  /\ << i, Listed(d, i) >>[2] = Listed(d, i)
        BY <1>3
      <3>2. \A e \in entries : \E i \in 1 .. count : e[2] = Listed(d, i) BY <1>3
      <3> QED BY <3>1, <3>2
    <2>2. ASSUME NEW k \in DOMAIN Object_Table
          PROVE  {Object_Table[k]} \X Object_Instances(d, Object_Table[k])
                    = {Identifier(d, k, m) : m \in Indexed(d, k)}
      <3>1. Object_Instances(d, Object_Table[k])
                = {Object_Index_To_Instance(d, Object_Table[k], m) : m \in Indexed(d, k)}
        BY TableOnce, Instances DEF Indexed
      <3> QED BY <3>1 DEF Identifier
    <2>3. ASSUME NEW i \in 1 .. count
          PROVE  \E k \in DOMAIN Object_Table : \E m \in Indexed(d, k) : Listed(d, i) = Identifier(d, k, m)
      <3>1. PICK k \in DOMAIN Object_Table : \E m \in Indexed(d, k) : i = Place(d, k, m)
        BY PlaceTaken
      <3> QED BY <3>1, PlaceListed
    <2>4. ASSUME NEW k \in DOMAIN Object_Table, NEW m \in Indexed(d, k)
          PROVE  \E i \in 1 .. count : Listed(d, i) = Identifier(d, k, m)
      BY PlaceListed
    <2> HIDE DEF count, entries
    <2> QED BY <2>1, <2>2, <2>3, <2>4
  <1>7. named = {<< i, Listed(d, i), Name(Listed(d, i)) >> : i \in 1 .. count}
    <2> DEFINE Entry(e) == << e[1], e[2], Device_Valid_Object_Id(objects, e[2][1], e[2][2]) >>
    <2> HIDE DEF entries
    <2>1. named = {Entry(e) : e \in entries} OBVIOUS
    <2>2. \A i : Entry(<< i, Listed(d, i) >>) = << i, Listed(d, i), Name(Listed(d, i)) >> OBVIOUS
    <2> HIDE DEF Entry, Name, named
    <2> QED BY <1>3, <2>1, <2>2
  <1>8. ASSUME NEW name
        PROVE  Device_Valid_Object_Name(objects, name) = {e[2] : e \in Firsts(name)}
    <2> DEFINE found == {i \in 1 .. count - 1 : Name(Listed(d, i)) = name}
               firsts == {i \in found : \A j \in found : i <= j}
    <2>1. Device_Valid_Object_Name(objects, name) = {Listed(d, i) : i \in firsts}
      BY DEF Device_Valid_Object_Name
    <2>2. firsts = {i \in 1 .. count : /\ Name(Listed(d, i)) = name /\ i < count
                                       /\ \A j \in 1 .. count : Name(Listed(d, j)) = name => i <= j}
      <3> HIDE DEF Name, count
      <3> QED BY <1>1
    <2>3. Firsts(name) = {<< i, Listed(d, i), Name(Listed(d, i)) >> : i \in firsts}
      <3> HIDE DEF named, Name, count, found, firsts
      <3>1. \A e \in named : \E i \in 1 .. count : e = << i, Listed(d, i), Name(Listed(d, i)) >>
        BY <1>7
      <3>2. \A i \in 1 .. count : << i, Listed(d, i), Name(Listed(d, i)) >> \in named
        BY <1>7
      <3>3. \A i : LET e == << i, Listed(d, i), Name(Listed(d, i)) >>
                   IN  e[1] = i /\ e[2] = Listed(d, i) /\ e[3] = Name(Listed(d, i))
        OBVIOUS
      <3>4. \A i \in 1 .. count :
                (\A c \in named : c[3] = name => i <= c[1])
                    <=> (\A j \in 1 .. count : Name(Listed(d, j)) = name => i <= j)
        BY <3>1, <3>2, <3>3
      <3>5. ASSUME NEW i \in firsts
            PROVE  << i, Listed(d, i), Name(Listed(d, i)) >> \in Firsts(name)
        BY <2>2, <3>2, <3>3, <3>4
      <3>6. ASSUME NEW e \in Firsts(name)
            PROVE  \E i \in firsts : e = << i, Listed(d, i), Name(Listed(d, i)) >>
        <4>1. PICK i \in 1 .. count : e = << i, Listed(d, i), Name(Listed(d, i)) >> BY <3>1
        <4>2. i \in firsts BY <2>2, <3>3, <3>4, <4>1
        <4> QED BY <4>1, <4>2
      <3> HIDE DEF Firsts
      <3> QED BY <3>5, <3>6
    <2> HIDE DEF Firsts, firsts, Name
    <2>4. \A i : << i, Listed(d, i), Name(Listed(d, i)) >>[2] = Listed(d, i) OBVIOUS
    <2> QED BY <2>1, <2>3, <2>4
  <1>9. FoundByName
    <2> HIDE DEF count, entries, named, Firsts
    <2> QED BY <1>4, <1>5, <1>6, <1>8 DEF FoundByName, count, entries, named, Firsts
  <1> QED BY <1>9, PTL
=============================================================================
