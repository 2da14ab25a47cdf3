-------------------------- MODULE MCSwitchManager --------------------------
(* Two expanders with two pins each, and two configurations:              *)
(*                                                                         *)
(*   - a device on each; of the switches one has a pin that does not exist *)
(*     and one a device that does not;                                     *)
(*   - a device of another class, a second one with an id that is taken, a *)
(*     model that is not supported and one without an id, on the expander  *)
(*     of the first; a switch given twice, one without a device and one    *)
(*     whose pin is no number.                                             *)
(*                                                                         *)
(* One of the lists names switches that the first configuration ignores,   *)
(* and one that the second does not know.                                  *)
EXTENDS SwitchManager

CONSTANTS d1, d2, noDevice, chip1, chip2, pump, lamp, valve, badPin, orphan

Dev(model, id, chip) == [class |-> "i2c-gpio-exp", model |-> model, id |-> id, chip |-> chip]
Sw(swid, dev, param) == [swid |-> swid, dev |-> dev, param |-> param]

Plain == [devList |-> <<Dev("mcp23008", d1, chip1), Dev("mcp23008", d2, chip2)>>,
          switchList |-> <<Sw(pump, d1, 0), Sw(lamp, d1, 1), Sw(valve, d2, 1),
                           Sw(badPin, d2, 2), Sw(orphan, noDevice, 0)>>]

Odd == [devList |-> <<[class |-> "other", model |-> "mcp23008", id |-> d1, chip |-> chip2],
                      Dev("mcp23008", d1, chip1), Dev("other", d2, chip2),
                      Dev("mcp23008", d1, chip2), Dev("mcp23008", Empty, chip1)>>,
        switchList |-> <<Sw(pump, d1, 1), Sw(pump, d1, 0), Sw(lamp, Empty, 1),
                         Sw(valve, d2, 1), Sw(orphan, d1, NoNumber)>>]

MCConfig == {Plain, Odd}
MCOnLists == {<<pump, valve>>, <<orphan, badPin, lamp>>}
=============================================================================
