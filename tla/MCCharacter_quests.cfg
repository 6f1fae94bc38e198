CONSTANTS
  Weapons = {sword}
  Potions = {potion}
  Price <- MCPrice
  MaxSlot = 2
  Quests <- TwoQuests
  Target <- MCTarget
  MaxHp = 2
  Heal = 1
  MaxGold = 2
  MaxItems = 3
  MaxProgress = 1
  MaxDeaths = 0
SPECIFICATION Spec
INVARIANT
  QuestsAreSaved
