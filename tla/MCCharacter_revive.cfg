CONSTANTS
  Weapons = {sword}
  Potions = {potion}
  Price <- MCPrice
  MaxSlot = 2
  Quests <- OneQuest
  Target <- MCTarget
  MaxHp = 2
  Heal = 1
  MaxGold = 2
  MaxItems = 3
  MaxProgress = 1
  MaxDeaths = 1
SPECIFICATION Spec
PROPERTY
  ReviveKeepsItems
